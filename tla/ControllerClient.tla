--------------------------- MODULE ControllerClient ---------------------------
(***************************************************************************)
(* The phone's session, controller-session.ts, against the sockets of one  *)
(* server session as far as they answer a phone: session.rs and            *)
(* handle_socket of server.rs, whose own races are in ControllerServer.    *)
(*                                                                         *)
(* A connection is known by the generation that opened it.  Each direction *)
(* delivers in order; a cut loses what is on the way and what is sent      *)
(* later, and neither end is told.  Time is left out: a deadline may pass  *)
(* whenever what it waits for is not there.                                *)
(***************************************************************************)
EXTENDS Naturals, Sequences

CONSTANTS
  Button,
  MaxSequence,    \* MAX_SAFE_SEQUENCE
  Retries,        \* the length of RECONNECT_DELAYS_MS
  MaxGeneration,  \* bound: connections
  MaxInTransit,   \* bound: messages on the way before a user or a ping adds one
  None

ASSUME ClientAssumption ==
  /\ MaxSequence \in Nat \ {0} /\ Retries \in Nat
  /\ MaxGeneration \in Nat /\ MaxInTransit \in Nat
  /\ None \notin Nat

Generation == 1 .. MaxGeneration
Sequence == 0 .. MaxSequence

VARIABLES
  phone,      \* the fields of ControllerSession; connection is 0 for null
  deadlines,  \* the pong deadlines that have not fired and were not cleared
  link,       \* per connection: readyState of the phone's socket
  up,         \* per connection: on the way to the server
  down,       \* per connection: on the way to the phone
  cut,        \* the connections that carry nothing any more
  serverUp,   \* the session has not ended
  socket,     \* per connection: where its socket task stands
  last,       \* SessionMachine.last_sequence of the seated socket
  held        \* the buttons that the event sink knows of

network == <<link, up, down, cut>>
server == <<serverUp, socket, last, held>>
vars == <<phone, deadlines, network, server>>

Init ==
  /\ phone = [status |-> "disconnected", desiredButtons |-> {}, connection |-> 0,
              generation |-> 0, active |-> TRUE, reconnectEnabled |-> FALSE,
              recoveryPending |-> FALSE, retryIndex |-> 0, nextSequence |-> 0,
              awaitedPong |-> None, nextPingTimer |-> FALSE,
              pongDeadlineTimer |-> None, retryTimer |-> FALSE]
  /\ deadlines = {}
  /\ link = [g \in Generation |-> "none"]
  /\ up = [g \in Generation |-> <<>>]
  /\ down = [g \in Generation |-> <<>>]
  /\ cut = {}
  /\ serverUp = TRUE
  /\ socket = [g \in Generation |-> "none"]
  /\ last = None
  /\ held = {}

Connected == phone.status = "connected"
Successor(n) == IF n = MaxSequence THEN 0 ELSE n + 1

-----------------------------------------------------------------------------
(* What the phone puts on the wire.                                        *)

Msg(type) == [type |-> type]
StateSync(buttons, n) == [type |-> "state-sync", buttons |-> buttons, sequence |-> n]
Delta(type, button, n) == [type |-> type, button |-> button, sequence |-> n]
Ping(n) == [type |-> "ping", sequence |-> n]

\* What of the phone's messages a connection carries: one that is cut, or has
\* no socket task at its end, takes none.
Carried(g, messages) ==
  IF g \in cut \/ socket[g] \in {"none", "ended"} THEN <<>> ELSE messages

\* The connection the phone held is sent messages, and closed after them if the
\* phone gives it up; or one of a new generation is opened.
Transmit(messages) ==
  LET old == phone.connection
      closes == old # 0 /\ phone'.connection = 0
      sent == messages \o (IF closes THEN <<Msg("close")>> ELSE <<>>)
  IN /\ link' = [g \in Generation |->
                  CASE g = old /\ closes                 -> "closing"
                    [] g = phone'.connection /\ g # old -> "connecting"
                    [] OTHER                            -> link[g]]
     /\ up' = [g \in Generation |->
                IF g = old THEN up[g] \o Carried(g, sent) ELSE up[g]]
     /\ down' = [g \in Generation |->
                  IF g = old /\ closes THEN <<>> ELSE down[g]]
     /\ UNCHANGED cut

-----------------------------------------------------------------------------
(* The private methods of ControllerSession, on its fields.                *)

CancelHeartbeat(p) ==
  [p EXCEPT !.nextPingTimer = FALSE, !.pongDeadlineTimer = None, !.awaitedPong = None]
CancelAllTimers(p) == [CancelHeartbeat(p) EXCEPT !.retryTimer = FALSE]

\* A cleared field clears its timeout, and can only clear the one it names.
ClearTimeouts ==
  deadlines' = IF phone'.pongDeadlineTimer = None
                 THEN deadlines \ {phone.pongDeadlineTimer}
                 ELSE deadlines

StartConnection(p) ==
  LET q == [CancelHeartbeat(p) EXCEPT !.status = "connecting"]
  IN IF ~ q.active
       THEN [q EXCEPT !.recoveryPending = TRUE]
       ELSE [q EXCEPT !.generation = @ + 1, !.connection = p.generation + 1]

\* scheduleRetry of the current generation
ScheduleRetry(p) ==
  LET q == CancelHeartbeat(p)
  IN IF ~ p.reconnectEnabled \/ p.retryTimer
       THEN p
     ELSE IF ~ p.active
       THEN [q EXCEPT !.recoveryPending = TRUE, !.status = "connecting"]
     ELSE IF p.retryIndex = Retries
       THEN [q EXCEPT !.reconnectEnabled = FALSE, !.status = "server-unavailable"]
     ELSE [q EXCEPT !.retryIndex = @ + 1, !.status = "connecting", !.retryTimer = TRUE]

\* closeForRecovery and handleTransportFailure
CloseForRecovery(p) ==
  IF p.reconnectEnabled THEN ScheduleRetry([p EXCEPT !.connection = 0]) ELSE p

FailTerminal(p, status) ==
  [CancelAllTimers(p) EXCEPT !.reconnectEnabled = FALSE, !.recoveryPending = FALSE,
                             !.connection = 0, !.status = status]

ScheduleNextPing(p) ==
  IF p.active /\ p.status = "connected" THEN [p EXCEPT !.nextPingTimer = TRUE] ELSE p

TakeSequence(p) == [p EXCEPT !.nextSequence = Successor(@)]

-----------------------------------------------------------------------------
(* What the user and the page do.                                          *)

MayStart == phone.generation < MaxGeneration

Connect ==
  /\ phone.status \notin {"connecting", "connected"}
  /\ MayStart
  /\ phone' = StartConnection([phone EXCEPT !.reconnectEnabled = TRUE, !.retryIndex = 0,
                                            !.retryTimer = FALSE])
  /\ ClearTimeouts
  /\ Transmit(<<>>)
  /\ UNCHANGED server

Hide ==
  /\ phone.active
  /\ phone' = CancelAllTimers([phone EXCEPT
                !.active = FALSE,
                !.recoveryPending = \/ @
                                    \/ /\ phone.reconnectEnabled
                                       /\ phone.retryTimer \/ phone.connection = 0])
  /\ ClearTimeouts
  /\ UNCHANGED <<network, server>>

\* Mutant: a page that is shown again does not resume its heartbeat.
ShowWithoutPing ==
  /\ ~ phone.active
  /\ MayStart
  /\ LET p == [phone EXCEPT !.active = TRUE]
     IN phone' = IF /\ p.reconnectEnabled /\ p.recoveryPending
                    /\ p.connection = 0 /\ ~ p.retryTimer
                   THEN StartConnection([p EXCEPT !.recoveryPending = FALSE])
                   ELSE p
  /\ Transmit(<<>>)
  /\ UNCHANGED <<deadlines, server>>

Show ==
  /\ ~ phone.active
  /\ MayStart
  /\ LET p == [phone EXCEPT !.active = TRUE]
     IN phone' =
          CASE p.reconnectEnabled /\ Connected /\ p.connection # 0 -> ScheduleNextPing(p)
            [] /\ p.reconnectEnabled /\ p.recoveryPending
               /\ p.connection = 0 /\ ~ p.retryTimer ->
                 StartConnection([p EXCEPT !.recoveryPending = FALSE])
            [] OTHER -> p
  /\ ClearTimeouts
  /\ Transmit(<<>>)
  /\ UNCHANGED server

\* Mutant: a disconnected phone still recovers.
DisconnectForNow ==
  /\ MayStart
  /\ phone' = [CancelHeartbeat(phone) EXCEPT
                 !.desiredButtons = {}, !.connection = 0,
                 !.generation = @ + 1, !.retryIndex = 0, !.status = "disconnected"]
  /\ ClearTimeouts
  /\ Transmit(<<>>)
  /\ UNCHANGED server

\* A phone that is connected says first that all its buttons are released.
Disconnect ==
  /\ MayStart
  /\ phone' = [CancelAllTimers(IF Connected THEN TakeSequence(phone) ELSE phone) EXCEPT
                 !.desiredButtons = {}, !.reconnectEnabled = FALSE,
                 !.recoveryPending = FALSE, !.connection = 0,
                 !.generation = @ + 1, !.retryIndex = 0, !.status = "disconnected"]
  /\ ClearTimeouts
  /\ Transmit(IF Connected THEN <<StateSync({}, phone.nextSequence)>> ELSE <<>>)
  /\ UNCHANGED server

Room == Connected => Len(up[phone.connection]) < MaxInTransit

\* setButton, in the two directions
SetButton(button) ==
  /\ Room
  /\ LET pressed == button \notin phone.desiredButtons
         buttons == IF pressed THEN phone.desiredButtons \union {button}
                               ELSE phone.desiredButtons \ {button}
         p == [phone EXCEPT !.desiredButtons = buttons]
     IN /\ phone' = IF Connected THEN TakeSequence(p) ELSE p
        /\ Transmit(IF Connected
                      THEN <<Delta(IF pressed THEN "button-down" ELSE "button-up",
                                   button, phone.nextSequence)>>
                      ELSE <<>>)
  /\ UNCHANGED <<deadlines, server>>

\* syncButtons, which the page only calls with no buttons
ReleaseAll ==
  /\ Room
  /\ LET p == [phone EXCEPT !.desiredButtons = {}]
     IN phone' = IF Connected THEN TakeSequence(p) ELSE p
  /\ Transmit(IF Connected THEN <<StateSync({}, phone.nextSequence)>> ELSE <<>>)
  /\ UNCHANGED <<deadlines, server>>

-----------------------------------------------------------------------------
(* The phone's timers.                                                     *)

RetryFires ==
  /\ phone.retryTimer
  /\ MayStart
  /\ LET p == [phone EXCEPT !.retryTimer = FALSE]
     IN phone' = IF p.reconnectEnabled THEN StartConnection(p) ELSE p
  /\ ClearTimeouts
  /\ Transmit(<<>>)
  /\ UNCHANGED server

PingFires ==
  /\ phone.nextPingTimer
  /\ Room
  /\ Connected => Len(down[phone.connection]) < MaxInTransit
  /\ LET n == phone.nextSequence
         p == [phone EXCEPT !.nextPingTimer = FALSE]
     IN IF Connected
          THEN /\ phone' = [TakeSequence(p) EXCEPT !.awaitedPong = n,
                                                   !.pongDeadlineTimer = n]
               /\ deadlines' = deadlines \union {n}
               /\ Transmit(<<Ping(n)>>)
          ELSE /\ phone' = p
               /\ UNCHANGED <<deadlines, network>>
  /\ UNCHANGED server

DeadlineFires(n) ==
  /\ n \in deadlines
  /\ LET p == [phone EXCEPT !.pongDeadlineTimer = None]
     IN phone' = IF p.awaitedPong = n
                   THEN CloseForRecovery([p EXCEPT !.awaitedPong = None])
                   ELSE p
  /\ deadlines' = deadlines \ {n}
  /\ Transmit(<<>>)
  /\ UNCHANGED server

-----------------------------------------------------------------------------
(* The phone's socket events.                                              *)

\* The next message of a socket that is open; close discards the rest.
Hears(g, type) ==
  /\ link[g] = (IF type = "open" THEN "connecting" ELSE "open")
  /\ down[g] # <<>> /\ Head(down[g]).type = type

\* The event is consumed; the phone keeps its connection and sends messages.
Consume(g, messages) ==
  /\ down' = [down EXCEPT ![g] = Tail(@)]
  /\ up' = [up EXCEPT ![g] = @ \o Carried(g, messages)]
  /\ UNCHANGED cut

HandleOpen(g) ==
  /\ Hears(g, "open")
  /\ link' = [link EXCEPT ![g] = "open"]
  /\ Consume(g, IF g = phone.generation THEN <<Msg("hello")>> ELSE <<>>)
  /\ UNCHANGED <<phone, deadlines, server>>

\* Mutant: buttons that changed before the welcome are not told.
WelcomeUnsynced(g) ==
  /\ Hears(g, "welcome") /\ g = phone.generation
  /\ phone' = ScheduleNextPing([phone EXCEPT !.retryIndex = 0, !.status = "connected",
                                             !.recoveryPending = FALSE])
  /\ Consume(g, <<>>)
  /\ UNCHANGED <<deadlines, link, server>>

HandleWelcome(g) ==
  /\ Hears(g, "welcome") /\ g = phone.generation
  /\ phone' = ScheduleNextPing(TakeSequence(
                [phone EXCEPT !.retryIndex = 0, !.status = "connected",
                              !.recoveryPending = FALSE]))
  /\ Consume(g, <<StateSync(phone.desiredButtons, phone.nextSequence)>>)
  /\ UNCHANGED <<deadlines, link, server>>

HandleRejected(g) ==
  /\ Hears(g, "rejected") /\ g = phone.generation
  /\ phone' = FailTerminal(phone, CASE Head(down[g]).reason = "invalid-token" -> "expired-token"
                                    [] Head(down[g]).reason = "controller-already-connected" ->
                                         "controller-in-use"
                                    [] OTHER -> "server-unavailable")
  /\ ClearTimeouts
  /\ Transmit(<<>>)
  /\ UNCHANGED server

HandlePong(g) ==
  /\ Hears(g, "pong")
  /\ IF g = phone.generation /\ Connected /\ Head(down[g]).sequence = phone.awaitedPong
       THEN phone' = ScheduleNextPing([phone EXCEPT !.awaitedPong = None,
                                                    !.pongDeadlineTimer = None])
       ELSE UNCHANGED phone
  /\ ClearTimeouts
  /\ Consume(g, <<>>)
  /\ UNCHANGED <<link, server>>

HandleControllerDisconnected(g) ==
  /\ Hears(g, "controller-disconnected") /\ g = phone.generation
  /\ phone' = CloseForRecovery(phone)
  /\ ClearTimeouts
  /\ Transmit(<<>>)
  /\ UNCHANGED server

Finish(g) ==
  /\ link' = [link EXCEPT ![g] = "closed"]
  /\ down' = [down EXCEPT ![g] = <<>>]
  /\ UNCHANGED <<up, cut>>

\* Mutant: the close event of any connection counts.
CloseOfAnyGeneration(g) ==
  /\ Hears(g, "close") \/ link[g] = "closing"
  /\ phone' = ScheduleRetry(CancelHeartbeat([phone EXCEPT !.connection = 0]))
  /\ ClearTimeouts
  /\ Finish(g)
  /\ UNCHANGED server

\* The server closed, or the phone did and the browser is done with it.
HandleClose(g) ==
  /\ Hears(g, "close") \/ link[g] = "closing"
  /\ phone' = IF g = phone.generation
                THEN ScheduleRetry(CancelHeartbeat([phone EXCEPT !.connection = 0]))
                ELSE phone
  /\ ClearTimeouts
  /\ Finish(g)
  /\ UNCHANGED server

\* The browser notices that there is no connection: an error event and at once
\* a close event, of which the second finds everything done.
HandleTransportFailure(g) ==
  /\ \/ link[g] = "connecting" /\ (~ serverUp \/ g \in cut)
     \/ link[g] = "open" /\ g \in cut
  /\ phone' = IF g = phone.generation
                THEN ScheduleRetry(CancelHeartbeat([CloseForRecovery(phone) EXCEPT
                                                      !.connection = 0]))
                ELSE phone
  /\ ClearTimeouts
  /\ Finish(g)
  /\ UNCHANGED server

-----------------------------------------------------------------------------
(* The network.                                                            *)

Cut(g) ==
  /\ link[g] \in {"connecting", "open", "closing"} /\ g \notin cut
  /\ cut' = cut \union {g}
  /\ up' = [up EXCEPT ![g] = <<>>]
  /\ down' = [down EXCEPT ![g] = <<>>]
  /\ UNCHANGED <<phone, deadlines, link, server>>

-----------------------------------------------------------------------------
(* The server's sockets.                                                   *)

Claimed == \E g \in Generation : socket[g] = "playing"

\* A socket that the phone has closed takes no answer.
Answer(g, messages) ==
  down' = [down EXCEPT ![g] =
            IF g \in cut \/ link[g] \in {"closing", "closed"} THEN <<>> ELSE @ \o messages]

Rejected(reason) == <<[type |-> "rejected", reason |-> reason], Msg("close")>>

\* The socket task ends, whatever the phone still sends.
EndSocket(g) ==
  /\ socket' = [socket EXCEPT ![g] = "ended"]
  /\ up' = [up EXCEPT ![g] = <<>>]

\* cleanup_connection of the seated controller
Leave(g) ==
  /\ EndSocket(g)
  /\ last' = None
  /\ held' = {}

AcceptSocket(g) ==
  /\ serverUp /\ link[g] = "connecting" /\ g \notin cut /\ socket[g] = "none"
  /\ socket' = [socket EXCEPT ![g] = "hello"]
  /\ Answer(g, <<Msg("open")>>)
  /\ UNCHANGED <<phone, deadlines, link, up, cut, serverUp, last, held>>

HearHello(g) ==
  /\ socket[g] = "hello" /\ up[g] # <<>> /\ Head(up[g]).type = "hello"
  /\ IF serverUp /\ ~ Claimed
       THEN /\ socket' = [socket EXCEPT ![g] = "playing"]
            /\ up' = [up EXCEPT ![g] = Tail(@)]
            /\ Answer(g, <<Msg("welcome")>>)
       ELSE /\ EndSocket(g)
            /\ Answer(g, Rejected(IF serverUp THEN "controller-already-connected"
                                              ELSE "invalid-token"))
  /\ UNCHANGED <<phone, deadlines, link, cut, serverUp, last, held>>

\* No hello came in time, or the phone went before it.
HelloTimeout(g) ==
  /\ socket[g] = "hello"
  /\ up[g] # <<>> => Head(up[g]).type = "close"
  /\ EndSocket(g)
  /\ Answer(g, Rejected("malformed-message"))
  /\ UNCHANGED <<phone, deadlines, link, cut, serverUp, last, held>>

Playing(g) == socket[g] = "playing" /\ up[g] # <<>>

\* Mutant: the server does not wrap with the phone.
AcceptsGreater(n) == last = None \/ n = last + 1

Accepts(n) == last = None \/ n = Successor(last)

Apply(buttons, message) ==
  CASE message.type = "state-sync"  -> message.buttons
    [] message.type = "button-down" -> buttons \union {message.button}
    [] message.type = "button-up"   -> buttons \ {message.button}
    [] OTHER                        -> buttons

HearMessage(g) ==
  /\ Playing(g) /\ Head(up[g]).type # "close"
  /\ LET message == Head(up[g])
     IN IF Accepts(message.sequence)
          THEN /\ last' = message.sequence
               /\ held' = Apply(held, message)
               /\ up' = [up EXCEPT ![g] = Tail(@)]
               /\ Answer(g, IF message.type = "ping"
                              THEN <<[type |-> "pong", sequence |-> message.sequence]>>
                              ELSE <<>>)
               /\ UNCHANGED socket
          ELSE /\ Leave(g)
               /\ Answer(g, Rejected("malformed-message"))
  /\ UNCHANGED <<phone, deadlines, link, cut, serverUp>>

\* Mutant: the seat is freed and the buttons stay.
HearCloseKeepsButtons(g) ==
  /\ Playing(g) /\ Head(up[g]).type = "close"
  /\ EndSocket(g)
  /\ last' = None
  /\ UNCHANGED <<phone, deadlines, link, down, cut, serverUp, held>>

HearClose(g) ==
  /\ Playing(g) /\ Head(up[g]).type = "close"
  /\ Leave(g)
  /\ UNCHANGED <<phone, deadlines, link, down, cut, serverUp>>

HeartbeatTimeout(g) ==
  /\ socket[g] = "playing" /\ up[g] = <<>>
  /\ Leave(g)
  /\ Answer(g, <<Msg("close")>>)
  /\ UNCHANGED <<phone, deadlines, link, cut, serverUp>>

EndSession ==
  /\ serverUp
  /\ serverUp' = FALSE
  /\ UNCHANGED <<phone, deadlines, network, socket, last, held>>

HearShutdown(g) ==
  /\ ~ serverUp
  /\ \/ /\ socket[g] = "hello"
        /\ EndSocket(g)
        /\ Answer(g, <<Msg("close")>>)
        /\ UNCHANGED <<last, held>>
     \/ /\ socket[g] = "playing"
        /\ Leave(g)
        /\ Answer(g, <<Msg("controller-disconnected"), Msg("close")>>)
  /\ UNCHANGED <<phone, deadlines, link, cut, serverUp>>

-----------------------------------------------------------------------------
Timer ==
  \/ RetryFires
  \/ PingFires
  \/ \E n \in Sequence : DeadlineFires(n)

Event(g) ==
  \/ HandleOpen(g)
  \/ HandleWelcome(g)
  \/ HandleRejected(g)
  \/ HandlePong(g)
  \/ HandleControllerDisconnected(g)
  \/ HandleClose(g)
  \/ HandleTransportFailure(g)

ServerStep(g) ==
  \/ AcceptSocket(g)
  \/ HearHello(g)
  \/ HearMessage(g)
  \/ HearClose(g)
  \/ HearShutdown(g)

ServerTimeout(g) == HelloTimeout(g) \/ HeartbeatTimeout(g)

User ==
  \/ Connect
  \/ Hide
  \/ Show
  \/ Disconnect
  \/ \E button \in Button : SetButton(button)
  \/ ReleaseAll

Next ==
  \/ User
  \/ Timer
  \/ \E g \in Generation : Event(g) \/ ServerStep(g) \/ ServerTimeout(g) \/ Cut(g)
  \/ EndSession

\* Timers fire and events are delivered; the server answers and its deadlines
\* pass.  Nothing makes the user, the network or the end of the session come.
Fairness ==
  /\ WF_vars(Timer)
  /\ \A g \in Generation : /\ WF_vars(Event(g))
                           /\ WF_vars(ServerStep(g))
                           /\ WF_vars(ServerTimeout(g))

Spec == Init /\ [][Next]_vars
FairSpec == Spec /\ Fairness

-----------------------------------------------------------------------------
(* Properties.                                                             *)

Status == {"connecting", "connected", "disconnected", "expired-token",
           "controller-in-use", "server-unavailable"}

Phone ==
  [status : Status, desiredButtons : SUBSET Button,
   connection : {0} \union Generation, generation : 0 .. MaxGeneration,
   active : BOOLEAN, reconnectEnabled : BOOLEAN, recoveryPending : BOOLEAN,
   retryIndex : 0 .. Retries, nextSequence : Sequence,
   awaitedPong : Sequence \union {None}, nextPingTimer : BOOLEAN,
   pongDeadlineTimer : Sequence \union {None}, retryTimer : BOOLEAN]

\* The messages of the two directions, and the end of each as its last.
UpMessage ==
  [type : {"hello", "close"}]
    \union [type : {"state-sync"}, buttons : SUBSET Button, sequence : Sequence]
    \union [type : {"button-down", "button-up"}, button : Button, sequence : Sequence]
    \union [type : {"ping"}, sequence : Sequence]

Reason == {"invalid-token", "controller-already-connected", "malformed-message"}

DownMessage ==
  [type : {"open", "welcome", "controller-disconnected", "close"}]
    \union [type : {"rejected"}, reason : Reason]
    \union [type : {"pong"}, sequence : Sequence]

\* The values each variable ranges over.
TypeOK ==
  /\ phone \in Phone
  /\ deadlines \subseteq Sequence
  /\ link \in [Generation -> {"none", "connecting", "open", "closing", "closed"}]
  /\ up \in [Generation -> Seq(UpMessage)]
  /\ down \in [Generation -> Seq(DownMessage)]
  /\ cut \subseteq Generation
  /\ serverUp \in BOOLEAN
  /\ socket \in [Generation -> {"none", "hello", "playing", "ended"}]
  /\ last \in Sequence \union {None}
  /\ held \subseteq Button

\* The phone has one connection at most: one it gave up is closed, and while it
\* is connected no retry is due.
OneConnection ==
  /\ \A g \in Generation : link[g] \in {"connecting", "open"} => g = phone.connection
  /\ Connected => phone.connection = phone.generation /\ ~ phone.retryTimer

\* A session is not forgotten, however the page is hidden and shown: without a
\* connection a retry is due, or showing the page makes one; with one, a ping is
\* due or the deadline of the awaited pong runs, and no other deadline does, so
\* that a connection that answers is not given up.
RecoveryIsPending ==
  /\ phone.reconnectEnabled /\ phone.connection = 0 =>
       IF phone.active THEN phone.retryTimer ELSE phone.recoveryPending
  /\ Connected /\ phone.active => phone.nextPingTimer \/ phone.awaitedPong \in deadlines
  /\ deadlines \subseteq {phone.awaitedPong}

\* The numbers the phone gives its messages are those the server expects, over
\* reconnections, pings and the largest number.
NeverOutOfSequence ==
  \A g \in Generation :
    Playing(g) /\ Head(up[g]).type # "close" => Accepts(Head(up[g]).sequence)

\* What the phone shows as pressed is what the game gets once all that is on
\* the way has arrived, whatever changed while there was no connection: what a
\* message presses, or what is held already, and no later message releases.
Presses(message, button) == button \in Apply({}, message)
Releases(message, button) == button \notin Apply(Button, message)

WillBeHeld(button, messages) ==
  \/ /\ button \in held
     /\ \A i \in 1 .. Len(messages) : ~ Releases(messages[i], button)
  \/ \E i \in 1 .. Len(messages) :
       /\ Presses(messages[i], button)
       /\ \A j \in i + 1 .. Len(messages) : ~ Releases(messages[j], button)

ButtonsAgree ==
  LET g == phone.connection
  IN Connected /\ g \notin cut /\ socket[g] = "playing" =>
       \A button \in Button :
         button \in phone.desiredButtons <=> WillBeHeld(button, up[g])

\* An explicit disconnect never reconnects by itself, whatever event or timer
\* comes after it.
StaysDisconnected ==
  [][phone.status = "disconnected" /\ phone'.status # "disconnected" => Connect]_vars

\* The user is not left waiting: an attempt to connect succeeds, fails for good
\* or the page is hidden, and an explicit disconnect releases the buttons in the
\* game, even if what the phone still sent is lost.
SessionSettles ==
  /\ phone.status = "connecting" /\ phone.active
       ~> phone.status # "connecting" \/ ~ phone.active \/ ~ MayStart
  /\ phone.status = "disconnected" ~> held = {}

\* docs/superpowers/plans/2026-08-27-ped-38-mobile-controller.md:23: an
\* unexpected close, a heartbeat timeout and controller-disconnected do
\* reconnect while the page is active.  With one phone, that is: recovery goes
\* on until the user ends it, the retries are used up, or the session is over.
AutoReconnects ==
  [][phone.retryIndex > 0 /\ phone.reconnectEnabled /\ ~ phone'.reconnectEnabled
       => Disconnect \/ phone'.status \in {"expired-token", "server-unavailable"}]_vars
=============================================================================
