---------------------------- MODULE RemoteSession ----------------------------
(***************************************************************************)
(* The pairing session a player starts and ends:                           *)
(*   apps/desktop/src-tauri/src/remote/manager.rs                          *)
(*                                                                         *)
(* Callers run start, end (shutdown is end) and subscribe at the same      *)
(* time; the socket task of the one claimed connection runs the event      *)
(* handler.  Three mutexes are taken one after the other and never         *)
(* together: lifecycle (with its condition variable), model and delivery.  *)
(* A step of this module is one critical section, or one call to the       *)
(* controller server or to the emulator runtime between two of them.       *)
(*                                                                         *)
(* start on a running or busy session, snapshot, and whatever an observer  *)
(* tries from within its callback change nothing: they are ReadSnapshot.   *)
(* Poisoned mutexes are left out; latencies count only as revisions.       *)
(***************************************************************************)
EXTENDS Naturals, FiniteSets

CONSTANTS
  Caller,        \* threads that run the session's commands
  Observer,      \* what subscribe installs
  Connection,    \* identifiers of controller connections
  MaxEpoch,      \* bound: start and end begin that often
  MaxRevision,   \* bound: subscriptions, messages and connections begin
                 \* only below this revision
  None           \* Option::None

ASSUME CallerAssumption == IsFiniteSet(Caller)
ASSUME EpochAssumption == MaxEpoch \in Nat
ASSUME RevisionAssumption == MaxRevision \in Nat

\* A controller server is named by the epoch of the start that launched it.
Server == 1 .. MaxEpoch

Phase == {"Off", "Waiting", "Connected", "Error"}
\* RemoteModel: the phase, the server whose URL is shown, the controller.
Model == [phase : Phase, pairing : Server \cup {None},
          controller : Connection \cup {None}]
Delivery == [revision : Nat, snapshot : Model, observer : Observer \cup {None}]
Idle == [op |-> "Idle", epoch |-> 0]
Operation == {Idle} \cup [op : {"Starting", "Ending"}, epoch : 1 .. MaxEpoch]

VARIABLES
  model,            \* ModelState.model
  observer,         \* ModelState.observer
  revision,         \* ModelState.revision
  lastRevision,     \* DeliveryState.last_revision
  shown,            \* the last snapshot each observer was given
  operation,        \* LifecycleState.operation
  epoch,            \* LifecycleState.epoch
  server,           \* LifecycleState.server
  restartRequired,  \* LifecycleState.restart_required
  caller,           \* the call each caller is in
  status,           \* what became of each controller server
  knock,            \* the server of a socket that showed a valid token
  socket            \* the claimed connection and its event in progress

session   == <<model, observer, revision>>
delivered == <<lastRevision, shown>>
lifecycle == <<operation, epoch, server, restartRequired>>
network   == <<status, knock, socket>>
vars == <<session, delivered, lifecycle, caller, network>>

Init ==
  /\ model = [phase |-> "Off", pairing |-> None, controller |-> None]
  /\ observer = None
  /\ revision = 0
  /\ lastRevision = 0
  /\ shown = [o \in Observer |-> None]
  /\ operation = Idle
  /\ epoch = 0
  /\ server = None
  /\ restartRequired = FALSE
  /\ caller = [c \in Caller |-> [pc |-> "idle"]]
  /\ status = [s \in Server |-> "none"]
  /\ knock = None
  /\ socket = None

-----------------------------------------------------------------------------
(* The model, its revisions, and their delivery.                           *)

WaitForController(s) ==
  [phase |-> "Waiting", pairing |-> s, controller |-> None]

TurnedOff == [phase |-> "Off", pairing |-> None, controller |-> None]
Failed    == [phase |-> "Error", pairing |-> None, controller |-> None]

Disconnected(serverActive) ==
  IF serverActive
    THEN [model EXCEPT !.phase = "Waiting", !.controller = None]
    ELSE TurnedOff

\* update_model: the new model gets the next revision.
UpdateModel(m) ==
  /\ model' = m
  /\ revision' = revision + 1

\* What update_model returns, taken under the same lock.
NextDelivery ==
  [revision |-> revision', snapshot |-> model', observer |-> observer']

\* Mutant: deliveries are not ordered.
PublishUnordered(d) ==
  /\ lastRevision' = d.revision
  /\ shown' = [o \in Observer |-> IF o = d.observer THEN d.snapshot ELSE shown[o]]

\* A delivery older than the last one is dropped.
PublishOrdered(d) ==
  IF d.revision <= lastRevision
    THEN UNCHANGED delivered
    ELSE /\ lastRevision' = d.revision
         /\ shown' = [o \in Observer |->
                        IF o = d.observer THEN d.snapshot ELSE shown[o]]

-----------------------------------------------------------------------------
(* The callers.                                                            *)

At(c, pc) == caller[c].pc = pc
Goto(c, next) == caller' = [caller EXCEPT ![c] = next]

ReadSnapshot(c) == At(c, "idle") /\ UNCHANGED vars

\* The bound on epochs leaves room for those who wait for theirs.
EpochLeft ==
  epoch + Cardinality({c \in Caller : At(c, "wait") \/ At(c, "woken")}) < MaxEpoch

\* Mutant: a stale server is dropped from the lifecycle without a shutdown.
ClaimWithoutShutdown(c, op) ==
  /\ epoch' = epoch + 1
  /\ operation' = [op |-> op, epoch |-> epoch']
  /\ server' = None
  /\ Goto(c, [pc   |-> IF op = "Starting" THEN "launch"
                       ELSE IF server # None THEN "signal" ELSE "off",
              op   |-> op,
              held |-> server])

\* Both start and end claim the lifecycle for their epoch and take the server.
Claim(c, op) ==
  /\ epoch' = epoch + 1
  /\ operation' = [op |-> op, epoch |-> epoch']
  /\ server' = None
  /\ Goto(c, [pc   |-> IF server # None THEN "signal"
                       ELSE IF op = "Starting" THEN "launch" ELSE "off",
              op   |-> op,
              held |-> server])

Start(c) ==
  /\ At(c, "idle") /\ EpochLeft
  /\ operation = Idle
  /\ server # None => restartRequired
  /\ restartRequired' = FALSE
  /\ Claim(c, "Starting")
  /\ UNCHANGED <<session, delivered, network>>

\* end waits on the condition variable while an operation is in progress, and
\* looks again each time it is woken.
End(c) ==
  /\ (At(c, "idle") /\ EpochLeft) \/ At(c, "woken")
  /\ IF operation = Idle
       THEN Claim(c, "Ending")
       ELSE Goto(c, [pc |-> "wait"]) /\ UNCHANGED <<operation, epoch, server>>
  /\ UNCHANGED <<session, delivered, restartRequired, network>>

AfterShutdown(c) == IF caller[c].op = "Starting" THEN "launch" ELSE "off"

\* ControllerServer::shutdown invalidates the token and tells the sockets...
SignalServer(c) ==
  /\ At(c, "signal")
  /\ status' = [status EXCEPT ![caller[c].held] = "closing"]
  /\ Goto(c, [caller[c] EXCEPT !.pc = "join"])
  /\ UNCHANGED <<session, delivered, lifecycle, knock, socket>>

\* Mutant: the server does not count its upgraded sockets.
JoinUncounted(c) ==
  /\ At(c, "join")
  /\ status' = [status EXCEPT ![caller[c].held] = "gone"]
  /\ Goto(c, [caller[c] EXCEPT !.pc = AfterShutdown(c), !.held = None])
  /\ UNCHANGED <<session, delivered, lifecycle, knock, socket>>

\* ... and joins the server's thread, which waits for its socket tasks;
JoinServer(c) ==
  /\ At(c, "join")
  /\ knock # caller[c].held
  /\ socket # None => socket.server # caller[c].held
  /\ status' = [status EXCEPT ![caller[c].held] = "gone"]
  /\ Goto(c, [caller[c] EXCEPT !.pc = AfterShutdown(c), !.held = None])
  /\ UNCHANGED <<session, delivered, lifecycle, knock, socket>>

\* the thread may have panicked: its socket tasks were dropped at an await.
JoinPanickedServer(c) ==
  /\ At(c, "join")
  /\ socket # None => socket.pc \in {"open", "closing"}
  /\ status' = [status EXCEPT ![caller[c].held] = "gone"]
  /\ knock' = None
  /\ socket' = None
  /\ Goto(c, [caller[c] EXCEPT !.pc = "fail", !.held = None])
  /\ UNCHANGED <<session, delivered, lifecycle>>

\* ControllerServer::start through the factory.
LaunchServer(c) ==
  /\ At(c, "launch")
  /\ \/ /\ status' = [status EXCEPT ![epoch] = "bound"]
        /\ Goto(c, [caller[c] EXCEPT !.pc = "install", !.held = epoch])
     \/ /\ UNCHANGED status
        /\ Goto(c, [caller[c] EXCEPT !.pc = "fail"])
  /\ UNCHANGED <<session, delivered, lifecycle, knock, socket>>

\* finish_start.  Its superseded branch is dead code: see NeverSuperseded.
InstallServer(c) ==
  /\ At(c, "install")
  /\ server' = caller[c].held
  /\ restartRequired' = FALSE
  /\ Goto(c, [caller[c] EXCEPT !.pc = "announce", !.held = None])
  /\ UNCHANGED <<session, delivered, operation, epoch, network>>

\* A caller's update of the model, with the delivery it has to publish.
Update(c, m, ok) ==
  /\ UNCHANGED observer
  /\ UpdateModel(m)
  /\ Goto(c, [pc |-> "publish", op |-> caller[c].op, ok |-> ok,
              delivery |-> NextDelivery])

\* From here on a phone can read the pairing URL.
AnnounceServer(c) ==
  /\ At(c, "announce")
  /\ Update(c, WaitForController(server), TRUE)
  /\ status' = [status EXCEPT ![server] = "paired"]
  /\ UNCHANGED <<delivered, lifecycle, knock, socket>>

FailCall(c) ==
  /\ At(c, "fail")
  /\ Update(c, Failed, FALSE)
  /\ UNCHANGED <<delivered, lifecycle, network>>

TurnOff(c) ==
  /\ At(c, "off")
  /\ Update(c, TurnedOff, TRUE)
  /\ UNCHANGED <<delivered, lifecycle, network>>

Subscribe(c, o) ==
  /\ At(c, "idle")
  /\ revision < MaxRevision
  /\ observer' = o
  /\ UpdateModel(model)
  /\ Goto(c, [pc |-> "publish", op |-> "Subscribe", ok |-> TRUE,
              delivery |-> NextDelivery])
  /\ UNCHANGED <<delivered, lifecycle, network>>

PublishCall(c) ==
  /\ At(c, "publish")
  /\ PublishOrdered(caller[c].delivery)
  /\ Goto(c, IF caller[c].op = "Subscribe" THEN [pc |-> "idle"]
             ELSE [pc |-> "complete", op |-> caller[c].op, ok |-> caller[c].ok])
  /\ UNCHANGED <<session, lifecycle, network>>

\* Mutant: the waiters are not notified.
CompleteSilently(c) ==
  /\ At(c, "complete")
  /\ operation' = Idle
  /\ Goto(c, [pc |-> "idle"])
  /\ UNCHANGED <<session, delivered, epoch, server, restartRequired, network>>

\* complete_lifecycle, with notify_all.
Complete(c) ==
  /\ At(c, "complete")
  /\ operation' = Idle
  /\ caller' = [d \in Caller |-> IF d = c THEN [pc |-> "idle"]
                                 ELSE IF At(d, "wait") THEN [pc |-> "woken"]
                                 ELSE caller[d]]
  /\ UNCHANGED <<session, delivered, epoch, server, restartRequired, network>>

-----------------------------------------------------------------------------
(* The sockets.  A phone that has the URL says hello; the token is checked *)
(* before the seat is claimed.  An error of the handler closes the socket, *)
(* and every closing socket is disconnected.                               *)

Knock(s) ==
  /\ knock = None
  /\ status[s] = "paired"
  /\ revision < MaxRevision
  /\ knock' = s
  /\ UNCHANGED <<session, delivered, lifecycle, caller, status, socket>>

\* The seat is taken: ControllerAlreadyConnected.
RejectSocket ==
  /\ knock # None /\ socket # None
  /\ knock' = None
  /\ UNCHANGED <<session, delivered, lifecycle, caller, status, socket>>

ClaimSeat(id) ==
  /\ knock # None /\ socket = None
  /\ knock' = None
  /\ socket' = [server |-> knock, id |-> id, pc |-> "check"]
  /\ UNCHANGED <<session, delivered, lifecycle, caller, status>>

SocketAt(pc) == socket # None /\ socket.pc = pc
SocketGoto(pc) == socket' = [server |-> socket.server, id |-> socket.id, pc |-> pc]

\* Connected: the Error phase refuses before the runtime hears of it.
CheckPhase ==
  /\ SocketAt("check")
  /\ SocketGoto(IF model.phase = "Error" THEN "closing" ELSE "attach")
  /\ UNCHANGED <<session, delivered, lifecycle, caller, status, knock>>

\* The handler's delivery, and where its return value leads.
SocketUpdate(m, next) ==
  /\ UNCHANGED observer
  /\ UpdateModel(m)
  /\ socket' = [server |-> socket.server, id |-> socket.id, pc |-> "publish",
                next |-> next, delivery |-> NextDelivery]

\* runtime.apply_controller_event succeeds or fails.
CallRuntime(from, ok, err) ==
  /\ SocketAt(from)
  /\ SocketGoto(ok) \/ SocketGoto(err)
  /\ UNCHANGED <<session, delivered, lifecycle, caller, status, knock>>

AttachToRuntime    == CallRuntime("attach", "connect", "require")
PlayOnRuntime      == CallRuntime("play", "record", "require")
\* cleanup_connection publishes Disconnected.
ReleaseFromRuntime == CallRuntime("closing", "active", "requireLast")

\* Sending the acceptance to the phone may fail, which closes the socket.
ConnectModel ==
  /\ SocketAt("connect")
  /\ IF model.phase = "Waiting"
       THEN \E next \in {"open", "closing"} :
              SocketUpdate([model EXCEPT !.phase = "Connected",
                                         !.controller = socket.id], next)
       ELSE SocketGoto("closing") /\ UNCHANGED session
  /\ UNCHANGED <<delivered, lifecycle, caller, status, knock>>

PublishSocket ==
  /\ SocketAt("publish")
  /\ PublishOrdered(socket.delivery)
  /\ IF socket.next = "gone" THEN socket' = None ELSE SocketGoto(socket.next)
  /\ UNCHANGED <<session, lifecycle, caller, status, knock>>

ReceiveMessage ==
  /\ SocketAt("open")
  /\ revision < MaxRevision
  /\ SocketGoto("play")
  /\ UNCHANGED <<session, delivered, lifecycle, caller, status, knock>>

\* A latency is recorded and revises the model, but is not delivered.
RecordLatency ==
  /\ SocketAt("record")
  /\ UpdateModel(model)
  /\ SocketGoto("open")
  /\ UNCHANGED <<observer, delivered, lifecycle, caller, status, knock>>

\* The phone left, or its heartbeat or the server's shutdown closes the socket.
CloseSocket ==
  /\ SocketAt("open")
  /\ SocketGoto("closing")
  /\ UNCHANGED <<session, delivered, lifecycle, caller, status, knock>>

ReadServerActive ==
  /\ SocketAt("active")
  /\ SocketGoto(IF server # None THEN "disconnectActive" ELSE "disconnectEnded")
  /\ UNCHANGED <<session, delivered, lifecycle, caller, status, knock>>

DisconnectModel ==
  /\ SocketAt("disconnectActive") \/ SocketAt("disconnectEnded")
  /\ IF model.phase = "Error"
       THEN socket' = None /\ UNCHANGED session
       ELSE SocketUpdate(Disconnected(socket.pc = "disconnectActive"), "gone")
  /\ UNCHANGED <<delivered, lifecycle, caller, status, knock>>

\* publish_runtime_failure marks the lifecycle, then fails the model.
\* Mutant: in the other order the marks are set when nobody needs them.
RequireNoRestart ==
  /\ SocketAt("require") \/ SocketAt("requireLast")
  /\ SocketGoto(IF socket.pc = "require" THEN "fail" ELSE "failLast")
  /\ UNCHANGED <<session, delivered, lifecycle, caller, status, knock>>

RequireRestart ==
  /\ SocketAt("require") \/ SocketAt("requireLast")
  /\ restartRequired' = (server # None)
  /\ SocketGoto(IF socket.pc = "require" THEN "fail" ELSE "failLast")
  /\ UNCHANGED <<session, delivered, operation, epoch, server, caller, status, knock>>

\* The error closes the socket; a cleanup that fails was its last event.
FailSession ==
  /\ SocketAt("fail") \/ SocketAt("failLast")
  /\ SocketUpdate(Failed, IF socket.pc = "fail" THEN "closing" ELSE "gone")
  /\ UNCHANGED <<delivered, lifecycle, caller, status, knock>>

-----------------------------------------------------------------------------
CallerStep(c) ==
  \/ At(c, "woken") /\ End(c)
  \/ SignalServer(c)
  \/ JoinServer(c)
  \/ LaunchServer(c)
  \/ InstallServer(c)
  \/ AnnounceServer(c)
  \/ FailCall(c)
  \/ TurnOff(c)
  \/ PublishCall(c)
  \/ Complete(c)

\* What a socket task does of itself: only its messages wait for the phone.
SocketStep ==
  \/ RejectSocket
  \/ \E id \in Connection : ClaimSeat(id)
  \/ CheckPhase
  \/ AttachToRuntime
  \/ ConnectModel
  \/ PublishSocket
  \/ PlayOnRuntime
  \/ RecordLatency
  \/ ReleaseFromRuntime
  \/ ReadServerActive
  \/ DisconnectModel
  \/ RequireRestart
  \/ FailSession

\* A socket of a closing server is closed, whatever the phone does.
CloseForShutdown ==
  /\ socket # None
  /\ status[socket.server] = "closing"
  /\ CloseSocket

Next ==
  \/ \E c \in Caller : \/ ReadSnapshot(c)
                       \/ Start(c)
                       \/ End(c)
                       \/ \E o \in Observer : Subscribe(c, o)
                       \/ JoinPanickedServer(c)
                       \/ CallerStep(c)
  \/ \E s \in Server : Knock(s)
  \/ ReceiveMessage
  \/ CloseSocket
  \/ SocketStep

Fairness ==
  /\ \A c \in Caller : WF_vars(CallerStep(c))
  /\ WF_vars(SocketStep)
  /\ WF_vars(CloseForShutdown)

Spec == Init /\ [][Next]_vars
FairSpec == Spec /\ Fairness

-----------------------------------------------------------------------------
(* Properties.                                                             *)

StartPc == {"signal", "join", "launch", "install", "announce", "off", "fail"}

CallerState ==
  [pc : {"idle", "wait", "woken"}]
    \cup [pc : StartPc, op : {"Starting", "Ending"}, held : Server \cup {None}]
    \cup [pc : {"publish"}, op : {"Starting", "Ending", "Subscribe"},
          ok : BOOLEAN, delivery : Delivery]
    \cup [pc : {"complete"}, op : {"Starting", "Ending"}, ok : BOOLEAN]

SocketPc == {"check", "attach", "connect", "open", "play", "record", "closing",
             "active", "disconnectActive", "disconnectEnded", "require",
             "requireLast", "fail", "failLast"}

Socket ==
  [server : Server, id : Connection, pc : SocketPc]
    \cup [server : Server, id : Connection, pc : {"publish"},
          next : {"open", "closing", "gone"}, delivery : Delivery]

ASSUME NoneAssumption == None \notin Server \cup Observer \cup Connection \cup Socket

\* The values each variable ranges over.
TypeOK ==
  /\ model \in Model
  /\ observer \in Observer \cup {None}
  /\ revision \in Nat
  /\ lastRevision \in Nat
  /\ shown \in [Observer -> Model \cup {None}]
  /\ operation \in Operation
  /\ epoch \in 0 .. MaxEpoch
  /\ server \in Server \cup {None}
  /\ restartRequired \in BOOLEAN
  /\ caller \in [Caller -> CallerState]
  /\ status \in [Server -> {"none", "bound", "paired", "closing", "gone"}]
  /\ knock \in Server \cup {None}
  /\ socket \in Socket \cup {None}

\* While a phone plays, the session shows it: its own identifier, on the URL
\* of the server it is connected to, although sessions are ended, restarted
\* and fail around it.
OpenSocketIsShown ==
  SocketAt("open") =>
    model = [phase |-> "Connected", pairing |-> socket.server,
             controller |-> socket.id]

\* Between operations the phase tells the truth about the listener: a shown
\* URL can be used, an ended session has no listener, and a failed session
\* that still has one is replaced by the next start.
IdlePhaseIsTrue ==
  operation = Idle =>
    /\ model.phase \in {"Waiting", "Connected"}
         => /\ model.pairing # None
            /\ model.pairing = server
            /\ status[server] = "paired"
    /\ model.phase = "Off" => server = None
    /\ (model.phase = "Error" /\ server # None) => restartRequired

\* At most one controller listener runs at any time, also while start and end
\* replace it outside the lock, and when end succeeds nothing of the session is
\* left: no listener, no socket task that could still reach the emulator.
EndedSessionIsOver ==
  /\ Cardinality({s \in Server : status[s] \in {"bound", "paired", "closing"}}) <= 1
  /\ \A c \in Caller :
       (At(c, "complete") /\ caller[c].op = "Ending" /\ caller[c].ok) =>
         /\ model.phase = "Off"
         /\ server = None
         /\ socket = None /\ knock = None
         /\ \A s \in Server : status[s] \in {"none", "gone"}

Publishing == \/ \E c \in Caller : At(c, "publish")
              \/ SocketAt("publish")

\* However deliveries of concurrent calls overtake each other, the observer
\* in place ends with the latest snapshot.
ObserverConverges ==
  (observer # None /\ ~ Publishing) => shown[observer] = model

\* Every call returns: a start or an end that joins a server with a playing
\* phone, and an end that waits for other calls.
CallsReturn == \A c \in Caller : (~ At(c, "idle")) ~> At(c, "idle")
=============================================================================
