--------------------------- MODULE ControllerServer ---------------------------
(***************************************************************************)
(* The LAN server a phone connects to: crates/gb-network/src/server.rs     *)
(* with the session machine of session.rs.                                 *)
(*                                                                         *)
(* Every upgraded socket runs handle_socket in a task of its own: it waits *)
(* for the hello, checks the token, claims the one controller seat,        *)
(* publishes its events to the sink and cleans up.  shutdown makes the     *)
(* server thread invalidate the token, tell the sockets through a watch    *)
(* channel, stop accepting and wait until no socket task is left.          *)
(*                                                                         *)
(* Every access to the shared atomics, the watch channel, the Notify and   *)
(* the sink is a step.  The contents of messages are left out: a frame is  *)
(* accepted or rejected (its parsing, sequence and rate).                  *)
(***************************************************************************)
EXTENDS Naturals, FiniteSets

CONSTANTS
  Socket,  \* upgrade requests
  None     \* no controller

ASSUME SocketAssumption == IsFiniteSet(Socket)
ASSUME NoneAssumption == None \notin Socket

VARIABLES
  stage,         \* where each socket's task stands
  listening,     \* it subscribed before the watch channel changed
  authenticated, \* SessionMachine.authentication
  emitted,       \* SessionMachine.emitted_disconnect
  claimed,       \* ServerState.controller_claimed
  socketTasks,   \* ServerState.socket_tasks
  tokenValid,    \* ServerState.token_valid
  expired,       \* the time is past ServerState.expires_at
  told,          \* the watch channel was set
  requested,     \* ControllerServer::shutdown sent its signal
  server,        \* where the server thread stands
  notified,      \* its Notified future was woken
  holder,        \* the controller the sink was told of (history)
  finished       \* the controllers taken back from the sink (history)

machine == <<listening, authenticated, emitted>>
sink    == <<holder, finished>>
thread  == <<requested, server>>
seat    == <<claimed, socketTasks>>
token   == <<tokenValid, expired>>
network == <<token, told, thread, notified>>
sockets == <<stage, machine, seat, sink>>
vars == <<sockets, network>>

Init ==
  /\ stage = [s \in Socket |-> "none"]
  /\ listening = {}
  /\ authenticated = {}
  /\ emitted = {}
  /\ claimed = FALSE
  /\ socketTasks = 0
  /\ tokenValid = TRUE
  /\ expired = FALSE
  /\ told = FALSE
  /\ requested = FALSE
  /\ server = "serving"
  /\ notified = FALSE
  /\ holder = None
  /\ finished = {}

-----------------------------------------------------------------------------
(* A socket.                                                               *)

Step(s, from, to) ==
  /\ stage[s] = from
  /\ stage' = [stage EXCEPT ![s] = to]

\* upgrade_controller, for as long as axum serves.
Upgrade(s) ==
  /\ server \in {"serving", "invalidate", "tell", "graceful"}
  /\ Step(s, "none", "upgrading")
  /\ socketTasks' = socketTasks + 1
  /\ UNCHANGED <<machine, claimed, network, sink>>

UpgradeFails(s) ==
  /\ Step(s, "upgrading", "finish")
  /\ UNCHANGED <<machine, seat, network, sink>>

\* A subscription made after the change does not see it as a change.
Subscribe(s) ==
  /\ Step(s, "upgrading", "hello")
  /\ listening' = IF told THEN listening ELSE listening \cup {s}
  /\ UNCHANGED <<authenticated, emitted, seat, network, sink>>

\* No hello in time, a malformed one, or the shutdown: the task ends.
HelloFails(s) ==
  /\ Step(s, "hello", "finish")
  /\ UNCHANGED <<machine, seat, network, sink>>

ReceiveHello(s) ==
  /\ Step(s, "hello", "token")
  /\ UNCHANGED <<machine, seat, network, sink>>

LoadTokenValid(s) ==
  /\ Step(s, "token", IF tokenValid THEN "accept" ELSE "finish")
  /\ UNCHANGED <<machine, seat, network, sink>>

\* accept_hello: the token is this session's and has not expired.
AcceptHello(s) ==
  /\ ~ expired
  /\ Step(s, "accept", "claim")
  /\ authenticated' = authenticated \cup {s}
  /\ UNCHANGED <<listening, emitted, seat, network, sink>>

RejectHello(s) ==
  /\ Step(s, "accept", "finish")
  /\ UNCHANGED <<machine, seat, network, sink>>

\* Mutant: a rejected socket runs the cleanup of a claimed one.
ClaimThenClean(s) ==
  /\ Step(s, "claim", IF claimed THEN "cleanup" ELSE "connect")
  /\ claimed' = TRUE
  /\ UNCHANGED <<machine, socketTasks, network, sink>>

\* compare_exchange: a second controller is rejected, and its authenticated
\* machine is dropped without a disconnect.
ClaimSeat(s) ==
  /\ Step(s, "claim", IF claimed THEN "finish" ELSE "connect")
  /\ claimed' = TRUE
  /\ UNCHANGED <<machine, socketTasks, network, sink>>

\* The sink hears of the controller even if it then returns an error.
PublishConnected(s) ==
  /\ \E to \in {"welcome", "cleanup"} : Step(s, "connect", to)
  /\ holder' = s
  /\ UNCHANGED <<machine, seat, network, finished>>

SendWelcome(s) ==
  /\ \E to \in {"loop", "cleanup"} : Step(s, "welcome", to)
  /\ UNCHANGED <<machine, seat, network, sink>>

\* A valid frame; a ping is answered, an input is published.
ReceiveMessage(s) ==
  /\ Step(s, "loop", "message")
  /\ UNCHANGED <<machine, seat, network, sink>>

AnswerMessage(s) ==
  /\ \E to \in {"loop", "cleanup"} : Step(s, "message", to)
  /\ UNCHANGED <<machine, seat, network, sink>>

\* The phone closed, fell silent for the heartbeat timeout, or sent a frame
\* that is rejected.
LeaveLoop(s) ==
  /\ Step(s, "loop", "cleanup")
  /\ UNCHANGED <<machine, seat, network, sink>>

\* select! sees the watch channel change, in the hello wait or in the loop.
HearShutdown(s) ==
  /\ told /\ s \in listening
  /\ Step(s, "hello", "finish") \/ Step(s, "loop", "cleanup")
  /\ UNCHANGED <<machine, seat, network, sink>>

\* SessionMachine::disconnect gives one event at most.
PublishDisconnected(s) ==
  /\ Step(s, "cleanup", "release")
  /\ IF s \in authenticated \ emitted
       THEN /\ emitted' = emitted \cup {s}
            /\ finished' = finished \cup {s}
            /\ holder' = None
       ELSE UNCHANGED <<emitted, sink>>
  /\ UNCHANGED <<listening, authenticated, seat, network>>

\* Mutant: the seat is free before the disconnect is published.
ReleaseFirst(s) ==
  /\ \/ Step(s, "cleanup", "cleanup") /\ claimed
     \/ Step(s, "release", "finish")
  /\ claimed' = FALSE
  /\ UNCHANGED <<machine, socketTasks, network, sink>>

ReleaseSeat(s) ==
  /\ Step(s, "release", "finish")
  /\ claimed' = FALSE
  /\ UNCHANGED <<machine, socketTasks, network, sink>>

\* finish_socket_task: the count, then the waiter.
FinishTask(s) ==
  /\ Step(s, "finish", "notify")
  /\ socketTasks' = socketTasks - 1
  /\ UNCHANGED <<machine, claimed, network, sink>>

NotifyServer(s) ==
  /\ Step(s, "notify", "done")
  /\ notified' = TRUE
  /\ UNCHANGED <<machine, seat, token, told, thread, sink>>

-----------------------------------------------------------------------------
(* The server thread.                                                      *)

Expire ==
  /\ ~ expired
  /\ expired' = TRUE
  /\ UNCHANGED <<sockets, tokenValid, told, thread, notified>>

\* ControllerServer::shutdown, whose caller then joins the thread.
RequestShutdown ==
  /\ ~ requested
  /\ requested' = TRUE
  /\ UNCHANGED <<sockets, token, told, server, notified>>

ServerStep(from, to) == server = from /\ server' = to

ReceiveRequest ==
  /\ requested
  /\ ServerStep("serving", "invalidate")
  /\ UNCHANGED <<sockets, token, told, requested, notified>>

\* Mutant: the token stays valid.
KeepToken ==
  /\ ServerStep("invalidate", "tell")
  /\ UNCHANGED <<sockets, token, told, requested, notified>>

InvalidateToken ==
  /\ ServerStep("invalidate", "tell")
  /\ tokenValid' = FALSE
  /\ UNCHANGED <<sockets, expired, told, requested, notified>>

\* The graceful shutdown of axum begins.
TellSockets ==
  /\ ServerStep("tell", "graceful")
  /\ told' = TRUE
  /\ UNCHANGED <<sockets, token, requested, notified>>

\* axum::serve returns: no request is under way any more.
ServeReturns ==
  /\ ServerStep("graceful", "register")
  /\ UNCHANGED <<sockets, token, told, requested, notified>>

\* A new Notified future sees the notifications from now on.
Register ==
  /\ ServerStep("register", "load")
  /\ notified' = FALSE
  /\ UNCHANGED <<sockets, token, told, requested>>

\* Mutant: the server does not wait for its sockets.
LoadIgnored ==
  /\ ServerStep("load", "exited")
  /\ UNCHANGED <<sockets, token, told, requested, notified>>

LoadSocketTasks ==
  /\ ServerStep("load", IF socketTasks = 0 THEN "exited" ELSE "await")
  /\ UNCHANGED <<sockets, token, told, requested, notified>>

\* Mutant: the future is made after the count was read.
RegisterLate ==
  /\ \/ /\ ServerStep("await", "waiting")
        /\ notified' = FALSE
     \/ /\ ServerStep("waiting", "register")
        /\ notified
        /\ UNCHANGED notified
  /\ UNCHANGED <<sockets, token, told, requested>>

Await ==
  /\ notified
  /\ ServerStep("await", "register")
  /\ UNCHANGED <<sockets, token, told, requested, notified>>
-----------------------------------------------------------------------------
\* What a socket task does by itself, or the phone makes it do in time: the
\* hello and the heartbeat have deadlines.
SocketStep(s) ==
  \/ UpgradeFails(s)
  \/ Subscribe(s)
  \/ HelloFails(s)
  \/ LoadTokenValid(s)
  \/ AcceptHello(s)
  \/ RejectHello(s)
  \/ ClaimSeat(s)
  \/ PublishConnected(s)
  \/ SendWelcome(s)
  \/ AnswerMessage(s)
  \/ PublishDisconnected(s)
  \/ ReleaseSeat(s)
  \/ FinishTask(s)
  \/ NotifyServer(s)

ThreadStep ==
  \/ ReceiveRequest
  \/ InvalidateToken
  \/ TellSockets
  \/ ServeReturns
  \/ Register
  \/ LoadSocketTasks
  \/ Await

Next ==
  \/ \E s \in Socket : \/ Upgrade(s)
                       \/ ReceiveHello(s)
                       \/ ReceiveMessage(s)
                       \/ LeaveLoop(s)
                       \/ HearShutdown(s)
                       \/ SocketStep(s)
  \/ Expire
  \/ RequestShutdown
  \/ ThreadStep

\* select! picks a ready branch at random, so a task that keeps receiving
\* messages hears the shutdown in the end.  A silent phone is not assumed.
Fairness ==
  /\ \A s \in Socket : WF_vars(SocketStep(s)) /\ SF_vars(HearShutdown(s))
  /\ WF_vars(ThreadStep)

Spec == Init /\ [][Next]_vars
FairSpec == Spec /\ Fairness

-----------------------------------------------------------------------------
(* Properties.                                                             *)

\* Stages in which a socket holds the seat.
Seated == {"connect", "welcome", "loop", "message", "cleanup", "release"}

\* The values each variable ranges over.
TypeOK ==
  /\ stage \in [Socket -> {"none", "upgrading", "hello", "token", "accept", "claim",
                           "finish", "notify", "done"} \cup Seated]
  /\ listening \subseteq Socket
  /\ authenticated \subseteq Socket
  /\ emitted \subseteq Socket
  /\ claimed \in BOOLEAN
  /\ socketTasks \in 0 .. Cardinality(Socket)
  /\ tokenValid \in BOOLEAN
  /\ expired \in BOOLEAN
  /\ told \in BOOLEAN
  /\ requested \in BOOLEAN
  /\ server \in {"serving", "invalidate", "tell", "graceful", "register", "load",
                 "await", "exited"}
  /\ notified \in BOOLEAN
  /\ holder \in Socket \cup {None}
  /\ finished \subseteq Socket

\* The seat is held by at most one socket and by nobody else: a rejected
\* controller neither takes it from its holder nor leaves it locked.
SeatIsExclusive ==
  /\ \A s, t \in Socket : (stage[s] \in Seated /\ stage[t] \in Seated) => s = t
  /\ claimed <=> \E s \in Socket : stage[s] \in Seated

\* A controller that was let in hears the shutdown: a socket that subscribed
\* too late to hear it finds the token invalid.
SeatedSocketListens ==
  \A s \in Socket : stage[s] \in Seated => s \in listening

\* Once the thread that shutdown joins has ended, no socket task is left that
\* could publish to the sink, and every announced controller was taken back.
ExitedServerIsQuiet ==
  server = "exited" =>
    /\ \A s \in Socket : stage[s] \in {"none", "notify", "done"}
    /\ holder = None

\* The sink hears of one controller at a time, from Connected to exactly one
\* Disconnected.
Feed == INSTANCE ControllerFeed
FeedSpec == Feed!Spec

\* shutdown returns although phones keep playing, provided that sending to
\* them does not block and that axum finishes its requests.
ShutdownReturns == requested ~> server = "exited"
=============================================================================
