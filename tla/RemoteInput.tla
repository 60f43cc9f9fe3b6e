----------------------------- MODULE RemoteInput -----------------------------
(***************************************************************************)
(* The path of a phone's buttons into the running game:                    *)
(*   apps/desktop/src-tauri/src/emulator/runtime.rs                        *)
(*                                                                         *)
(* A socket task of the controller server publishes the events of the one  *)
(* accepted connection through DesktopRuntimeHandle.  Each event gets the  *)
(* generation of its connection, is queued on the bounded command channel  *)
(* (giving up after the retry time) and is awaited for RESPONSE_TIMEOUT;   *)
(* a command whose caller gave up stays queued.  The emulator worker takes *)
(* commands from the same channel as the user interface's, and drains the  *)
(* cancellation barrier before each round and again after each receive.    *)
(*                                                                         *)
(* Every shared access is a step: prepare (under the mutex), try_send, the *)
(* two loads of cancelled_through for the drains, the load in the handler, *)
(* the reply.  Frames and audio of the same worker are in FrameDelivery.   *)
(***************************************************************************)
EXTENDS Naturals, Sequences

CONSTANTS
  Connection,     \* identifiers of controller connections
  Button,         \* joypad buttons
  QueueCapacity,  \* COMMAND_QUEUE_CAPACITY, 32 in the code
  MaxGeneration,  \* u64::MAX, where next_generation.checked_add fails
  None            \* Option::None

ASSUME CapacityAssumption == QueueCapacity \in Nat \ {0}
ASSUME GenerationAssumption == MaxGeneration \in Nat

Generation == 1 .. MaxGeneration
Controller == [id : Connection, generation : Generation]
Snapshot   == [generation : Generation, state : SUBSET Button]
Core       == [remote : SUBSET Button, keyboard : SUBSET Button]

\* What the server reports: the connection came, sent input, or is gone.
Event == [kind : {"connected", "sync", "down", "up", "disconnected"},
          id : Connection, buttons : SUBSET Button]

ControllerCommand ==
  [op : {"controller"}, event : Event, generation : Generation]

\* "other" stands for the commands that touch neither the core nor the phase
\* (Subscribe, AcknowledgeFrame, SetAudioGain, Snapshot).
UiCommand == [op : {"open", "start", "pause", "restart", "close", "other"}]
               \cup [op : {"keyboard"}, buttons : SUBSET Button]
Command == ControllerCommand \cup UiCommand \cup [op : {"shutdown"}]

Link == [id : Connection, stage : {"accepted", "open", "closing"},
         buttons : SUBSET Button]
Call == [event : Event, generation : Generation,
         step : {"send", "wait", "ok"}]
          \cup [event : Event, generation : 0 .. MaxGeneration, step : {"err"}]

ASSUME NoneAssumption ==
  None \notin Controller \cup Snapshot \cup Core \cup Command \cup Link \cup Call

VARIABLES
  link,              \* the accepted connection, held by controller_claimed
  call,              \* its apply_controller_event in progress
  current,           \* ControllerGenerations.current
  nextGeneration,    \* ControllerGenerations.next_generation
  cancelledThrough,  \* ControllerGenerations.cancelled_through
  queue,             \* the sync_channel of RuntimeCommand
  shutdownSent,      \* DesktopRuntime.worker was taken by shutdown
  pc,                \* where run_worker stands
  held,              \* the command run_worker received
  owner,             \* RemoteInputs.owner
  snapshot,          \* RemoteInputs.snapshots[REMOTE_INPUT_SOURCE]
  clearedThrough,    \* RemoteInputs.cleared_through
  core,              \* the loaded core's two input sources
  phase              \* RuntimeModel.snapshot.phase

barrier   == <<current, nextGeneration, cancelledThrough>>
publisher == <<link, call>>
remote    == <<owner, snapshot, clearedThrough>>
worker    == <<pc, held, remote, core, phase>>
vars == <<publisher, barrier, queue, shutdownSent, worker>>

Init ==
  /\ link = None
  /\ call = None
  /\ current = None
  /\ nextGeneration = 0
  /\ cancelledThrough = 0
  /\ queue = <<>>
  /\ shutdownSent = FALSE
  /\ pc = "drain"
  /\ held = None
  /\ owner = None
  /\ snapshot = None
  /\ clearedThrough = 0
  /\ core = None
  /\ phase = "Empty"

Room == Len(queue) < QueueCapacity

-----------------------------------------------------------------------------
(* The network side: one accepted connection at a time reports to the      *)
(* runtime, and waits for each report to return before the next.           *)

\* The server authenticates a connection and claims the controller seat.
Accept(c) ==
  /\ link = None
  /\ link' = [id |-> c, stage |-> "accepted", buttons |-> {}]
  /\ UNCHANGED <<call, barrier, queue, shutdownSent, worker>>

\* The session manager refuses a connection in its Error phase, before the
\* runtime hears of it.
Refuse ==
  /\ link # None /\ call = None
  /\ link.stage = "accepted"
  /\ link' = [link EXCEPT !.stage = "closing"]
  /\ UNCHANGED <<call, barrier, queue, shutdownSent, worker>>

Calling(event, generation, step) ==
  call' = [event |-> event, generation |-> generation, step |-> step]

PublishConnected ==
  /\ link # None /\ call = None
  /\ link.stage = "accepted"
  /\ LET event == [kind |-> "connected", id |-> link.id, buttons |-> {}]
     IN \/ /\ nextGeneration < MaxGeneration
           /\ nextGeneration' = nextGeneration + 1
           /\ current' = [id |-> link.id, generation |-> nextGeneration']
           /\ Calling(event, nextGeneration', "send")
        \/ /\ nextGeneration = MaxGeneration
           /\ Calling(event, 0, "err")
           /\ UNCHANGED <<nextGeneration, current>>
  /\ UNCHANGED <<link, cancelledThrough, queue, shutdownSent, worker>>

\* The buttons a message leaves pressed, applied to the base state.
Pressed(event, base) ==
  CASE event.kind = "sync" -> event.buttons
    [] event.kind = "down" -> base \cup event.buttons
    [] OTHER               -> base \ event.buttons

Message(c) ==
  [kind : {"sync"}, id : {c}, buttons : SUBSET Button]
    \cup [kind : {"down", "up"}, id : {c}, buttons : {{b} : b \in Button}]

PublishMessage ==
  /\ link # None /\ call = None
  /\ link.stage = "open"
  /\ current # None
  /\ current.id = link.id
  /\ \E event \in Message(link.id) :
       /\ link' = [link EXCEPT !.buttons = Pressed(event, @)]
       /\ Calling(event, current.generation, "send")
  /\ UNCHANGED <<barrier, queue, shutdownSent, worker>>

IsCurrent == current # None /\ current.id = link.id

PublishDisconnected ==
  /\ link # None /\ call = None
  /\ link.stage \in {"open", "closing"}
  /\ IsCurrent
  /\ cancelledThrough' = IF current.generation > cancelledThrough
                           THEN current.generation ELSE cancelledThrough
  /\ current' = None
  /\ link' = [link EXCEPT !.stage = "closing"]
  /\ Calling([kind |-> "disconnected", id |-> link.id, buttons |-> {}],
             current.generation, "send")
  /\ UNCHANGED <<nextGeneration, queue, shutdownSent, worker>>

\* prepare returns None for a connection that is not current: nothing is sent
\* and the seat is released.
PublishUnknownDisconnected ==
  /\ link # None /\ call = None
  /\ link.stage \in {"open", "closing"}
  /\ ~ IsCurrent
  /\ link' = None
  /\ UNCHANGED <<call, barrier, queue, shutdownSent, worker>>

EventCommand == [op |-> "controller", event |-> call.event,
                 generation |-> call.generation]

\* try_send found room.
SendCommand ==
  /\ call # None
  /\ call.step = "send"
  /\ pc # "stopped"
  /\ Room
  /\ queue' = Append(queue, EventCommand)
  /\ call' = [call EXCEPT !.step = "wait"]
  /\ UNCHANGED <<link, barrier, shutdownSent, worker>>

\* The queue stayed full for CONTROLLER_QUEUE_RETRY_TIMEOUT, or the worker
\* is gone.
SendFails ==
  /\ call # None
  /\ call.step = "send"
  /\ Len(queue) = QueueCapacity \/ pc = "stopped"
  /\ call' = [call EXCEPT !.step = "err"]
  /\ UNCHANGED <<link, barrier, queue, shutdownSent, worker>>

\* recv_timeout gave up after RESPONSE_TIMEOUT; the command stays queued.
ResponseTimeout ==
  /\ call # None
  /\ call.step = "wait"
  /\ call' = [call EXCEPT !.step = "err"]
  /\ UNCHANGED <<link, barrier, queue, shutdownSent, worker>>

\* apply_controller_event returns to the socket task.
Return ==
  /\ call # None
  /\ call.step \in {"ok", "err"}
  /\ \/ /\ call.event.kind = "connected"
        /\ \E stage \in IF call.step = "ok" THEN {"open", "closing"}
                                           ELSE {"closing"} :
             link' = [link EXCEPT !.stage = stage]
     \/ /\ call.event.kind \in {"sync", "down", "up"}
        /\ link' = IF call.step = "ok" THEN link
                                       ELSE [link EXCEPT !.stage = "closing"]
     \/ /\ call.event.kind = "disconnected"
        /\ link' = None
  /\ call' = None
  /\ UNCHANGED <<barrier, queue, shutdownSent, worker>>

-----------------------------------------------------------------------------
(* The user interface.                                                     *)

\* request(): a full queue or a stopped worker refuses at once.
UiRequest(command) ==
  /\ pc # "stopped"
  /\ Room
  /\ queue' = Append(queue, command)
  /\ UNCHANGED <<publisher, barrier, shutdownSent, worker>>

\* DesktopRuntime::shutdown takes the thread handle once and blocks in send.
Shutdown ==
  /\ ~ shutdownSent
  /\ pc # "stopped"
  /\ Room
  /\ queue' = Append(queue, [op |-> "shutdown"])
  /\ shutdownSent' = TRUE
  /\ UNCHANGED <<publisher, barrier, worker>>

-----------------------------------------------------------------------------
(* The emulator worker.                                                    *)

\* Mutant: the owner of exactly the cancelled generation is kept.
DrainKeepsOwner ==
  IF cancelledThrough <= clearedThrough
    THEN UNCHANGED <<owner, snapshot, clearedThrough, core>>
    ELSE /\ clearedThrough' = cancelledThrough
         /\ IF owner # None /\ owner.generation < cancelledThrough
              THEN owner' = None /\ snapshot' = None
              ELSE UNCHANGED <<owner, snapshot>>
         /\ core' = IF core = None THEN None ELSE [core EXCEPT !.remote = {}]

\* drain_cancelled_remote_input with the value just loaded.
DrainCancelled ==
  IF cancelledThrough <= clearedThrough
    THEN UNCHANGED <<owner, snapshot, clearedThrough, core>>
    ELSE /\ clearedThrough' = cancelledThrough
         /\ IF owner # None /\ owner.generation <= cancelledThrough
              THEN owner' = None /\ snapshot' = None
              ELSE UNCHANGED <<owner, snapshot>>
         /\ core' = IF core = None THEN None ELSE [core EXCEPT !.remote = {}]

\* Mutant: the barrier is not drained again after the receive.
WorkerDrainOnce ==
  /\ \/ pc = "drain"   /\ pc' = "run" /\ DrainCancelled
     \/ pc = "recheck" /\ pc' = "handle"
                       /\ UNCHANGED <<owner, snapshot, clearedThrough, core>>
  /\ UNCHANGED <<publisher, barrier, queue, shutdownSent, held, phase>>

WorkerDrain ==
  /\ \/ pc = "drain"   /\ pc' = "run"
     \/ pc = "recheck" /\ pc' = "handle"
  /\ DrainCancelled
  /\ UNCHANGED <<publisher, barrier, queue, shutdownSent, held, phase>>

\* run_tick, alone at a frame deadline (which skips the receive) or within
\* the audio pump; the core may fail, and stays loaded when it does.
WorkerTick ==
  /\ pc = "run"
  /\ phase = "Running"
  /\ pc' \in {"drain", "receive"}
  /\ phase' \in IF core = None THEN {"Error"} ELSE {"Running", "Error"}
  /\ UNCHANGED <<publisher, barrier, queue, shutdownSent, held, remote, core>>

WorkerNoTick ==
  /\ pc = "run"
  /\ pc' = "receive"
  /\ UNCHANGED <<publisher, barrier, queue, shutdownSent, held, remote, core, phase>>

WorkerReceive ==
  /\ pc = "receive"
  /\ queue # <<>>
  /\ held' = Head(queue)
  /\ queue' = Tail(queue)
  /\ pc' = "recheck"
  /\ UNCHANGED <<publisher, barrier, shutdownSent, remote, core, phase>>

WorkerReceiveTimeout ==
  /\ pc = "receive"
  /\ queue = <<>>
  /\ pc' = "drain"
  /\ UNCHANGED <<publisher, barrier, queue, shutdownSent, held, remote, core, phase>>

Handling(op) == pc = "handle" /\ held.op = op

Handled == pc' = "drain" /\ held' = None

NoEventAfter(i) == \A j \in 1 .. Len(queue) : j > i => queue[j].op # "controller"

\* Mutant: one reply channel for all calls instead of one for each.
ReplyToAnyCaller ==
  IF call # None /\ call.step = "wait"
    THEN call' = [call EXCEPT !.step = "ok"]
    ELSE UNCHANGED call

\* The reply goes to the caller that still waits for this command: its
\* command is the youngest controller command of the channel.
ReplyTo ==
  IF /\ call # None /\ call.step = "wait"
     /\ NoEventAfter(0)
    THEN call' = [call EXCEPT !.step = "ok"]
    ELSE UNCHANGED call

\* The retained state a button message starts from.
BaseState(generation) ==
  IF snapshot # None /\ snapshot.generation = generation
    THEN snapshot.state ELSE {}

\* The runtime's apply_controller_event once the event is not cancelled.
ApplyEvent(event, generation) ==
  CASE event.kind = "disconnected" -> UNCHANGED <<owner, snapshot, core>>
    [] event.kind = "connected" ->
         /\ owner' = [id |-> event.id, generation |-> generation]
         /\ UNCHANGED <<snapshot, core>>
    [] OTHER ->
         LET state == Pressed(event, BaseState(generation))
         IN /\ owner' = [id |-> event.id, generation |-> generation]
            /\ snapshot' = [generation |-> generation, state |-> state]
            /\ core' = IF core = None THEN None
                                      ELSE [core EXCEPT !.remote = state]

\* The handler loads cancelled_through once more.
CancelledOffByOne(generation) == generation < cancelledThrough  \* mutant
Cancelled(generation) == generation <= cancelledThrough

HandleControllerEvent ==
  /\ Handling("controller")
  /\ IF Cancelled(held.generation)
       THEN UNCHANGED <<owner, snapshot, core>>
       ELSE ApplyEvent(held.event, held.generation)
  /\ ReplyTo
  /\ Handled
  /\ UNCHANGED <<link, barrier, queue, shutdownSent, clearedThrough, phase>>

\* apply_retained_remote_inputs on a core with these remote buttons.
RetainedForgotten(buttons) == buttons  \* mutant: the call is missing
Retained(buttons) == IF snapshot = None THEN buttons ELSE snapshot.state

\* OpenRom drops the old core first; the new one loads or the load fails.
HandleOpenRom ==
  /\ Handling("open")
  /\ \/ /\ core' = [remote |-> Retained({}), keyboard |-> {}]
        /\ phase' = "Paused"
     \/ /\ core' = None
        /\ phase' = "Error"
  /\ Handled
  /\ UNCHANGED <<publisher, barrier, queue, shutdownSent, remote>>

\* RuntimeModel.core_loaded: a core that failed while running is kept but is
\* no longer loaded.
CoreLoaded == phase \in {"Paused", "Running"}

HandleStart ==
  /\ Handling("start")
  /\ phase' = IF CoreLoaded THEN "Running" ELSE phase
  /\ Handled
  /\ UNCHANGED <<publisher, barrier, queue, shutdownSent, remote, core>>

HandlePause ==
  /\ Handling("pause")
  /\ phase' = IF CoreLoaded THEN "Paused" ELSE phase
  /\ Handled
  /\ UNCHANGED <<publisher, barrier, queue, shutdownSent, remote, core>>

\* restart_core: the keyboard is released first; reset keeps the core's
\* inputs; a reset that fails leaves the phase.
HandleRestart ==
  /\ Handling("restart")
  /\ \/ /\ ~ CoreLoaded \/ core = None
        /\ UNCHANGED <<core, phase>>
     \/ /\ CoreLoaded /\ core # None
        /\ \/ /\ core' = [remote |-> Retained(core.remote), keyboard |-> {}]
              /\ phase' = "Running"
           \/ /\ core' = [core EXCEPT !.keyboard = {}]
              /\ UNCHANGED phase
  /\ Handled
  /\ UNCHANGED <<publisher, barrier, queue, shutdownSent, remote>>

HandleClose ==
  /\ Handling("close")
  /\ core' = None
  /\ phase' = "Empty"
  /\ Handled
  /\ UNCHANGED <<publisher, barrier, queue, shutdownSent, remote>>

HandleKeyboard ==
  /\ Handling("keyboard")
  /\ core' = IF core = None THEN None
                            ELSE [core EXCEPT !.keyboard = held.buttons]
  /\ Handled
  /\ UNCHANGED <<publisher, barrier, queue, shutdownSent, remote, phase>>

HandleOther ==
  /\ Handling("other")
  /\ Handled
  /\ UNCHANGED <<publisher, barrier, queue, shutdownSent, remote, core, phase>>

\* The worker leaves its loop; the channel and every queued reply sender are
\* dropped, which a waiting caller sees as an error.
HandleShutdown ==
  /\ Handling("shutdown")
  /\ core' = None
  /\ phase' = "Empty"
  /\ pc' = "stopped"
  /\ held' = None
  /\ queue' = <<>>
  /\ call' = IF call # None /\ call.step = "wait"
               THEN [call EXCEPT !.step = "err"] ELSE call
  /\ UNCHANGED <<link, barrier, shutdownSent, remote>>

-----------------------------------------------------------------------------
PublisherStep ==
  \/ PublishConnected
  \/ SendCommand
  \/ SendFails
  \/ ResponseTimeout
  \/ Return

Cleanup == link # None /\ link.stage = "closing"
             /\ (PublishDisconnected \/ PublishUnknownDisconnected)

WorkerStep ==
  \/ WorkerDrain
  \/ WorkerTick
  \/ WorkerNoTick
  \/ WorkerReceive
  \/ WorkerReceiveTimeout
  \/ HandleControllerEvent
  \/ HandleOpenRom
  \/ HandleStart
  \/ HandlePause
  \/ HandleRestart
  \/ HandleClose
  \/ HandleKeyboard
  \/ HandleOther
  \/ HandleShutdown

Next ==
  \/ \E c \in Connection : Accept(c)
  \/ Refuse
  \/ PublishMessage
  \/ PublishDisconnected
  \/ PublishUnknownDisconnected
  \/ PublisherStep
  \/ \E command \in UiCommand : UiRequest(command)
  \/ Shutdown
  \/ WorkerStep

\* The worker thread loops (its waits are all timed), a call's waits are all
\* timed, and a socket task that is closing always runs its cleanup.
Fairness ==
  /\ WF_vars(WorkerStep)
  /\ WF_vars(SendCommand \/ SendFails \/ ResponseTimeout \/ Return)
  /\ WF_vars(Cleanup)

Spec == Init /\ [][Next]_vars
FairSpec == Spec /\ Fairness

-----------------------------------------------------------------------------
(* Properties.                                                             *)

\* The values each variable ranges over, and the channel's bound.
TypeOK ==
  /\ link \in Link \cup {None}
  /\ call \in Call \cup {None}
  /\ call # None => link # None
  /\ current \in Controller \cup {None}
  /\ nextGeneration \in 0 .. MaxGeneration
  /\ cancelledThrough \in 0 .. MaxGeneration
  /\ queue \in Seq(Command)
  /\ Len(queue) <= QueueCapacity
  /\ shutdownSent \in BOOLEAN
  /\ pc \in {"drain", "run", "receive", "recheck", "handle", "stopped"}
  /\ held \in IF pc \in {"recheck", "handle"} THEN Command ELSE {None}
  /\ owner \in Controller \cup {None}
  /\ snapshot \in Snapshot \cup {None}
  /\ clearedThrough \in 0 .. MaxGeneration
  /\ core \in Core \cup {None}
  /\ phase \in {"Empty", "Paused", "Running", "Error"}

RetainedState == IF snapshot = None THEN {} ELSE snapshot.state

\* Whatever cores are loaded, restarted or replaced while a phone plays, the
\* buttons the core sees on the remote source are those the worker retains:
\* the core and the retained snapshot are written by different branches of
\* the drain, the event handler and the ROM loader.
RetainedMatchesCore == core # None => core.remote = RetainedState

\* While the session is open and no report is under way, the game's remote
\* buttons are exactly those the phone reported, although commands of earlier
\* connections may still sit in the queue and ROMs come and go.
LiveControllerReachesGame ==
  (link # None /\ link.stage = "open" /\ call = None /\ pc # "stopped")
    => RetainedState = link.buttons

\* When the report of a disconnection returns success, the worker no longer
\* retains a button of that connection nor shows one to the core.
AnsweredDisconnectIsComplete ==
  (call # None /\ call.step = "ok" /\ call.event.kind = "disconnected")
    => /\ RetainedState = {}
       /\ owner = None
       /\ core # None => core.remote = {}

\* The worker's bookkeeping implements the promise of RemotePad.
Pad == INSTANCE RemotePad WITH
  holder   <- IF owner = None THEN 0 ELSE owner.generation,
  pad      <- RetainedState,
  released <- clearedThrough
PadSpec == Pad!Spec

\* However the calls time out, a connection that is closing ends with the
\* game holding none of its buttons (the next connection starts from none),
\* unless the emulator stops.
ClosingReleasesGame ==
  (link # None /\ link.stage = "closing")
     ~> ((owner = None /\ snapshot = None) \/ pc = "stopped")

-----------------------------------------------------------------------------
(* The inductive invariant behind the safety properties.                   *)

\* The claim of one seat keeps at most one generation uncancelled, and the
\* worker's owner is the first generation it has not cleared.
GenerationOrder ==
  /\ clearedThrough <= cancelledThrough
  /\ IF current = None
       THEN cancelledThrough = nextGeneration
       ELSE /\ current.generation = nextGeneration
            /\ cancelledThrough = nextGeneration - 1
  /\ owner # None => /\ owner.generation = clearedThrough + 1
                     /\ owner.generation <= nextGeneration
  /\ snapshot # None => /\ owner # None
                        /\ snapshot.generation = owner.generation

\* The publisher's side: who is current, and what an open session implies.
PublisherOrder ==
  /\ link = None => current = None /\ call = None
  /\ current # None => current.id = link.id
  /\ (link # None /\ call = None /\ link.stage = "accepted") => current = None
  /\ (link # None /\ link.stage = "open")
       => /\ current # None
          /\ owner # None
          /\ owner.generation = nextGeneration

IsMessage(event) == event.kind \in {"sync", "down", "up"}

CallOrder ==
  call # None =>
    /\ call.event.kind = "connected" => link.stage = "accepted"
    /\ IsMessage(call.event) => link.stage = "open"
    /\ call.event.kind = "disconnected" => current = None
    /\ call.step # "err" => call.generation = nextGeneration
    /\ (call.step # "err" /\ call.event.kind = "connected") => current # None
    /\ (call.step = "ok" /\ call.event.kind = "connected")
         => owner # None /\ owner.generation = nextGeneration
    /\ (call.step = "ok" /\ call.event.kind = "disconnected")
         => call.generation <= clearedThrough

\* What holds of every controller command in the channel or in hand.
CommandOrder(command) ==
  command.op = "controller" =>
    /\ command.generation <= nextGeneration
    /\ command.event.kind = "disconnected"
         => command.generation <= cancelledThrough
    /\ (IsMessage(command.event) /\ command.generation > cancelledThrough)
         => owner # None /\ owner.generation = command.generation

\* The command a caller waits for is the youngest event of the channel.
Awaited(command) ==
  \/ held # None /\ held = command /\ NoEventAfter(0)
  \/ \E i \in 1 .. Len(queue) : queue[i] = command /\ NoEventAfter(i)

ChannelOrder ==
  /\ \A i \in 1 .. Len(queue) : CommandOrder(queue[i])
  /\ held # None => CommandOrder(held)
  /\ (pc = "handle" /\ held.op = "controller")
       => /\ held.generation <= clearedThrough + 1
          /\ held.event.kind = "disconnected"
               => held.generation <= clearedThrough
  /\ (call # None /\ call.step = "wait") => Awaited(EventCommand)

IInv ==
  /\ TypeOK
  /\ RetainedMatchesCore
  /\ GenerationOrder
  /\ PublisherOrder
  /\ CallOrder
  /\ ChannelOrder

\* What stands between the buttons of a live connection and the game: of the
\* commands in the channel and in hand all but the awaited one are of earlier
\* connections, hence cancelled, ...
Older(command) == command.op = "controller" => command.generation < nextGeneration

AllOlder ==
  /\ held # None => Older(held)
  /\ \A i \in 1 .. Len(queue) : Older(queue[i])

OneIsNewest ==
  \/ held # None /\ held = EventCommand /\ NoEventAfter(0)
  \/ /\ held # None => Older(held)
     /\ \E i \in 1 .. Len(queue) :
          queue[i] = EventCommand /\ NoEventAfter(i) /\ \A j \in 1 .. i - 1 : Older(queue[j])

LiveChannel ==
  (link # None /\ link.stage # "closing" /\ current # None) =>
    /\ (call = None \/ call.step \in {"send", "ok"}) => AllOlder
    /\ (call # None /\ call.step = "wait") => OneIsNewest

\* ... and that one makes the retained buttons those of the phone.  A
\* connection that only was accepted has none and finds none of its own.
LiveButtons ==
  link # None =>
    /\ link.stage = "accepted" =>
         /\ link.buttons = {}
         /\ (call # None /\ call.step # "err" /\ snapshot # None)
              => snapshot.generation < nextGeneration
    /\ link.stage = "open" =>
         /\ (call = None \/ call.step = "ok") => RetainedState = link.buttons
         /\ (call # None /\ call.step \in {"send", "wait"})
              => Pressed(call.event, RetainedState) = link.buttons

LiveInv == IInv /\ LiveChannel /\ LiveButtons
=============================================================================
