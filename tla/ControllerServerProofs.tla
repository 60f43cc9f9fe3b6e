------------------------ MODULE ControllerServerProofs ------------------------
(***************************************************************************)
(* What ControllerServer guarantees for any number of sockets: the seat,   *)
(* the shutdown and the feed.                                              *)
(***************************************************************************)
EXTENDS ControllerServer, FiniteSetTheorems, TLAPS

Ended == {"none", "notify", "done"}

\* The sockets that upgrade_controller has counted and finish_socket_task not.
Counted == {s \in Socket : stage[s] \notin Ended}
Counting == socketTasks = Cardinality(Counted)

\* The announced controller is the seated socket, from its Connected to its
\* Disconnected.
Announced == {"welcome", "loop", "message", "cleanup"}
Announcing ==
  /\ \A s \in Socket : stage[s] \in Announced => holder = s
  /\ holder # None => stage[holder] \in Announced

\* A seated machine is authenticated, and gave its disconnect only if it is
\* past its cleanup.
Machines ==
  /\ emitted = finished
  /\ \A s \in Socket :
       /\ stage[s] \in {"claim"} \cup Seated => s \in authenticated
       /\ s \in emitted => stage[s] \in {"release", "finish", "notify", "done"}

\* The token is invalid before the sockets are told, and a socket past the
\* token check subscribed before.
Listening ==
  /\ told => ~ tokenValid
  /\ tokenValid => server \in {"serving", "invalidate"}
  /\ told => server \notin {"serving", "invalidate", "tell"}
  /\ \A s \in Socket :
       /\ stage[s] \in {"hello", "token"} /\ ~ told => s \in listening
       /\ stage[s] \in {"accept", "claim"} \cup Seated => s \in listening

\* The server thread ended: no task is under way.
Quiet == server = "exited" => \A s \in Socket : stage[s] \in Ended

\* The inductive invariant.
IInv ==
  /\ TypeOK
  /\ Counting
  /\ SeatIsExclusive
  /\ Announcing
  /\ Machines
  /\ Listening
  /\ Quiet

USE SocketAssumption, NoneAssumption

\* The set of tasks under way is finite, and has no more members than Socket.
LEMMA CountedBounds ==
  ASSUME NEW S \in SUBSET Socket
  PROVE  IsFiniteSet(S) /\ Cardinality(S) \in 0 .. Cardinality(Socket)
  BY FS_Subset, FS_CardinalityType

\* The invariant holds in the initial state.
LEMMA InvInit == Init => IInv
<1> SUFFICES ASSUME Init PROVE IInv
  OBVIOUS
<1>1. Counted = {}
  BY DEF Init, Counted, Ended
<1>2. Counting
  BY <1>1, FS_EmptySet DEF Counting, Init
<1>3. TypeOK
  <2>1. 0 \in 0 .. Cardinality(Socket)
    BY FS_CardinalityType
  <2> QED
    BY <2>1 DEF Init, TypeOK, Seated
<1>4. SeatIsExclusive /\ Announcing /\ Machines /\ Listening /\ Quiet
  BY DEF Init, SeatIsExclusive, Announcing, Announced, Machines, Listening, Quiet,
         Seated, Ended
<1> QED
  BY <1>2, <1>3, <1>4 DEF IInv

-----------------------------------------------------------------------------
(* The steps, by what they do to the seat.                                 *)

\* Steps of a socket that does not hold the seat, before and after.
Outside(s) ==
  \/ Upgrade(s) \/ UpgradeFails(s) \/ Subscribe(s)
  \/ ReceiveHello(s) \/ HelloFails(s) \/ LoadTokenValid(s)
  \/ AcceptHello(s) \/ RejectHello(s)
  \/ FinishTask(s) \/ NotifyServer(s)

\* Steps of the seated socket between its Connected and its Disconnected.
Playing(s) ==
  SendWelcome(s) \/ ReceiveMessage(s) \/ AnswerMessage(s) \/ LeaveLoop(s)

\* Steps of the server thread, of the caller of shutdown and of the clock.
Elsewhere == Expire \/ RequestShutdown \/ ThreadStep \/ UNCHANGED vars

\* Every step is one of these: handle_socket has no other.
LEMMA Steps ==
  ASSUME [Next]_vars
  PROVE  \/ \E s \in Socket :
              \/ Outside(s) \/ Playing(s) \/ HearShutdown(s) \/ ClaimSeat(s)
              \/ PublishConnected(s) \/ PublishDisconnected(s) \/ ReleaseSeat(s)
         \/ Elsewhere
  BY DEF Next, SocketStep, Outside, Playing, Elsewhere

\* run_server touches nothing of what the sockets share with the sink.
LEMMA ElsewhereKeepsSockets == Elsewhere => UNCHANGED sockets
  BY DEF Elsewhere, ThreadStep, Expire, RequestShutdown, ReceiveRequest,
         InvalidateToken, TellSockets, ServeReturns, Register, LoadSocketTasks,
         Await, vars

-----------------------------------------------------------------------------
(* The seat.                                                               *)

\* compare_exchange lets one socket in, which frees the seat when it leaves.
LEMMA SeatStep ==
  ASSUME TypeOK, SeatIsExclusive, [Next]_vars
  PROVE  SeatIsExclusive'
<1> USE DEF TypeOK, SeatIsExclusive, Seated, Step, seat
<1>1. ASSUME NEW s \in Socket, ClaimSeat(s) PROVE SeatIsExclusive'
  BY <1>1 DEF ClaimSeat
<1>2. ASSUME NEW s \in Socket, ReleaseSeat(s) PROVE SeatIsExclusive'
  BY <1>2 DEF ReleaseSeat
<1>3. ASSUME NEW s \in Socket,
             \/ Playing(s) \/ PublishConnected(s) \/ PublishDisconnected(s)
      PROVE  SeatIsExclusive'
  BY <1>3 DEF Playing, SendWelcome, ReceiveMessage, AnswerMessage, LeaveLoop,
              PublishConnected, PublishDisconnected
<1>4. ASSUME NEW s \in Socket, Outside(s) PROVE SeatIsExclusive'
  BY <1>4 DEF Outside, Upgrade, UpgradeFails, Subscribe, ReceiveHello, HelloFails,
              LoadTokenValid, AcceptHello, RejectHello, FinishTask, NotifyServer
<1>5. ASSUME NEW s \in Socket, HearShutdown(s) PROVE SeatIsExclusive'
  BY <1>5 DEF HearShutdown
<1>6. CASE Elsewhere
  BY <1>6, ElsewhereKeepsSockets DEF sockets
<1> QED
  BY <1>1, <1>2, <1>3, <1>4, <1>5, <1>6, Steps

\* A machine is authenticated before its socket claims the seat, and gives its
\* disconnect in its cleanup.
LEMMA MachinesStep ==
  ASSUME TypeOK, Machines, [Next]_vars
  PROVE  Machines'
<1> USE DEF TypeOK, Machines, Seated, Step, machine, sink
<1>1. ASSUME NEW s \in Socket, PublishDisconnected(s) PROVE Machines'
  BY <1>1 DEF PublishDisconnected
<1>2. ASSUME NEW s \in Socket, Outside(s) PROVE Machines'
  BY <1>2 DEF Outside, Upgrade, UpgradeFails, Subscribe, ReceiveHello, HelloFails,
              LoadTokenValid, AcceptHello, RejectHello, FinishTask, NotifyServer
<1>3. ASSUME NEW s \in Socket,
             \/ Playing(s) \/ HearShutdown(s) \/ ClaimSeat(s)
             \/ PublishConnected(s) \/ ReleaseSeat(s)
      PROVE  Machines'
  BY <1>3 DEF Playing, SendWelcome, ReceiveMessage, AnswerMessage, LeaveLoop,
              HearShutdown, ClaimSeat, PublishConnected, ReleaseSeat
<1>4. CASE Elsewhere
  BY <1>4, ElsewhereKeepsSockets DEF sockets
<1> QED
  BY <1>1, <1>2, <1>3, <1>4, Steps

\* The sink is told of the seated socket only, and that one takes it back.
LEMMA AnnouncingStep ==
  ASSUME TypeOK, SeatIsExclusive, Machines, Announcing, [Next]_vars
  PROVE  Announcing'
<1> USE DEF TypeOK, Announcing, Announced, Seated, Step, sink
<1>1. ASSUME NEW s \in Socket, PublishConnected(s) PROVE Announcing'
  BY <1>1 DEF PublishConnected, SeatIsExclusive
<1>2. ASSUME NEW s \in Socket, PublishDisconnected(s) PROVE Announcing'
  BY <1>2 DEF PublishDisconnected, SeatIsExclusive, Machines
<1>3. ASSUME NEW s \in Socket,
             Playing(s) \/ HearShutdown(s) \/ ClaimSeat(s) \/ ReleaseSeat(s)
      PROVE  Announcing'
  BY <1>3 DEF Playing, SendWelcome, ReceiveMessage, AnswerMessage, LeaveLoop,
              HearShutdown, ClaimSeat, ReleaseSeat
<1>4. ASSUME NEW s \in Socket, Outside(s) PROVE Announcing'
  BY <1>4 DEF Outside, Upgrade, UpgradeFails, Subscribe, ReceiveHello, HelloFails,
              LoadTokenValid, AcceptHello, RejectHello, FinishTask, NotifyServer
<1>5. CASE Elsewhere
  BY <1>5, ElsewhereKeepsSockets DEF sockets
<1> QED
  BY <1>1, <1>2, <1>3, <1>4, <1>5, Steps

-----------------------------------------------------------------------------
(* The shutdown.                                                           *)

\* run_server invalidates the token before it tells the sockets.
LEMMA ListeningStep ==
  ASSUME TypeOK, Listening, [Next]_vars
  PROVE  Listening'
<1> USE DEF TypeOK, Listening, Seated, Step, machine, network, token, thread
<1>1. ASSUME NEW s \in Socket, Subscribe(s) PROVE Listening'
  BY <1>1 DEF Subscribe
<1>2. ASSUME NEW s \in Socket, LoadTokenValid(s) PROVE Listening'
  BY <1>2 DEF LoadTokenValid
<1>3. ASSUME NEW s \in Socket, Outside(s), ~ Subscribe(s), ~ LoadTokenValid(s)
      PROVE  Listening'
  BY <1>3 DEF Outside, Upgrade, UpgradeFails, ReceiveHello, HelloFails, AcceptHello,
              RejectHello, FinishTask, NotifyServer
<1>4. ASSUME NEW s \in Socket,
             \/ Playing(s) \/ HearShutdown(s) \/ ClaimSeat(s)
             \/ PublishConnected(s) \/ PublishDisconnected(s) \/ ReleaseSeat(s)
      PROVE  Listening'
  BY <1>4 DEF Playing, SendWelcome, ReceiveMessage, AnswerMessage, LeaveLoop,
              HearShutdown, ClaimSeat, PublishConnected, PublishDisconnected,
              ReleaseSeat
<1>5. CASE InvalidateToken \/ TellSockets
  BY <1>5 DEF InvalidateToken, TellSockets, ServerStep, sockets
<1>6. CASE Elsewhere /\ ~ InvalidateToken /\ ~ TellSockets
  BY <1>6 DEF Elsewhere, ThreadStep, Expire, RequestShutdown, ReceiveRequest,
              ServeReturns, Register, LoadSocketTasks, Await, ServerStep, vars,
              sockets
<1> QED
  BY <1>1, <1>2, <1>3, <1>4, <1>5, <1>6, Steps

\* upgrade_controller counts a task once, finish_socket_task takes it off once.
LEMMA CountingStep ==
  ASSUME TypeOK, Counting, [Next]_vars
  PROVE  Counting'
<1> USE DEF Counting
<1>1. IsFiniteSet(Counted)
  BY CountedBounds DEF Counted
<1>2. ASSUME NEW s \in Socket, Upgrade(s) PROVE Counting'
  <2>1. s \notin Counted /\ Counted' = Counted \cup {s}
    BY <1>2 DEF Upgrade, Step, TypeOK, Counted, Ended
  <2>2. Cardinality(Counted') = Cardinality(Counted) + 1
    BY <1>1, <2>1, FS_AddElement
  <2> QED
    BY <1>2, <2>2 DEF Upgrade
<1>3. ASSUME NEW s \in Socket, FinishTask(s) PROVE Counting'
  <2>1. s \in Counted /\ Counted' = Counted \ {s}
    BY <1>3 DEF FinishTask, Step, TypeOK, Counted, Ended
  <2>2. Cardinality(Counted') = Cardinality(Counted) - 1
    BY <1>1, <2>1, FS_RemoveElement
  <2> QED
    BY <1>3, <2>2 DEF FinishTask
<1>4. ASSUME NEW s \in Socket, Outside(s), ~ Upgrade(s), ~ FinishTask(s)
      PROVE  Counting'
  <2>1. socketTasks' = socketTasks
    BY <1>4 DEF Outside, UpgradeFails, Subscribe, ReceiveHello, HelloFails,
                LoadTokenValid, AcceptHello, RejectHello, NotifyServer, seat
  <2>2. Counted' = Counted
    BY <1>4 DEF Outside, UpgradeFails, Subscribe, ReceiveHello, HelloFails,
                LoadTokenValid, AcceptHello, RejectHello, NotifyServer, Step, TypeOK,
                Counted, Ended
  <2> QED
    BY <2>1, <2>2
<1>5. ASSUME NEW s \in Socket,
             \/ Playing(s) \/ HearShutdown(s) \/ ClaimSeat(s)
             \/ PublishConnected(s) \/ PublishDisconnected(s) \/ ReleaseSeat(s)
      PROVE  Counting'
  <2> USE DEF Playing, SendWelcome, ReceiveMessage, AnswerMessage, LeaveLoop,
              HearShutdown, ClaimSeat, PublishConnected, PublishDisconnected,
              ReleaseSeat
  <2>1. socketTasks' = socketTasks
    BY <1>5 DEF seat
  <2>2. Counted' = Counted
    BY <1>5 DEF Step, TypeOK, Counted, Ended
  <2> QED
    BY <2>1, <2>2
<1>6. CASE Elsewhere
  <2>1. socketTasks' = socketTasks /\ Counted' = Counted
    BY <1>6, ElsewhereKeepsSockets DEF sockets, seat, Counted
  <2> QED
    BY <2>1
<1> QED
  BY <1>2, <1>3, <1>4, <1>5, <1>6, Steps

\* run_server returns when it reads a count of zero, after the last upgrade.
LEMMA QuietStep ==
  ASSUME TypeOK, Counting, Quiet, [Next]_vars
  PROVE  Quiet'
<1> USE DEF Quiet, TypeOK, Ended, Step
<1>1. ASSUME NEW s \in Socket, Outside(s) PROVE Quiet'
  BY <1>1 DEF Outside, Upgrade, UpgradeFails, Subscribe, ReceiveHello, HelloFails,
              LoadTokenValid, AcceptHello, RejectHello, FinishTask, NotifyServer,
              network, thread
<1>2. ASSUME NEW s \in Socket,
             \/ Playing(s) \/ HearShutdown(s) \/ ClaimSeat(s)
             \/ PublishConnected(s) \/ PublishDisconnected(s) \/ ReleaseSeat(s)
      PROVE  Quiet'
  BY <1>2 DEF Playing, SendWelcome, ReceiveMessage, AnswerMessage, LeaveLoop,
              HearShutdown, ClaimSeat, PublishConnected, PublishDisconnected,
              ReleaseSeat, Seated, network, thread
<1>3. CASE LoadSocketTasks
  <2>1. CASE socketTasks = 0
    <3>1. Counted = {}
      BY <2>1, CountedBounds, FS_EmptySet DEF Counting, Counted
    <3> QED
      BY <1>3, <3>1 DEF LoadSocketTasks, sockets, Counted
  <2>2. CASE socketTasks # 0
    BY <1>3, <2>2 DEF LoadSocketTasks, ServerStep
  <2> QED
    BY <2>1, <2>2
<1>4. CASE Elsewhere /\ ~ LoadSocketTasks
  BY <1>4 DEF Elsewhere, ThreadStep, Expire, RequestShutdown, ReceiveRequest,
              InvalidateToken, TellSockets, ServeReturns, Register, Await,
              ServerStep, vars, sockets, network, thread
<1> QED
  BY <1>1, <1>2, <1>3, <1>4, Steps

-----------------------------------------------------------------------------
(* Type correctness, which needs the count: socket_tasks never underflows. *)

\* Every step keeps the types.
LEMMA TypeStep ==
  ASSUME TypeOK, Counting, [Next]_vars
  PROVE  TypeOK'
<1> USE DEF TypeOK, Seated, Step
<1>1. socketTasks' \in 0 .. Cardinality(Socket)
  BY CountingStep, CountedBounds DEF Counting, Counted
<1>2. ASSUME NEW s \in Socket, Outside(s) PROVE TypeOK'
  <2> USE DEF Outside, Upgrade, UpgradeFails, Subscribe, ReceiveHello, HelloFails,
              LoadTokenValid, AcceptHello, RejectHello, FinishTask, NotifyServer
  <2>1. \E to \in {"upgrading", "hello", "token", "accept", "claim", "finish",
                   "notify", "done"} : stage' = [stage EXCEPT ![s] = to]
    BY <1>2
  <2>2. stage' \in [Socket -> {"none", "upgrading", "hello", "token", "accept",
                               "claim", "finish", "notify", "done"} \cup Seated]
    BY <2>1
  <2>3. /\ listening' \subseteq Socket /\ authenticated' \subseteq Socket
        /\ emitted' \subseteq Socket /\ claimed' \in BOOLEAN
        /\ holder' \in Socket \cup {None} /\ finished' \subseteq Socket
    BY <1>2 DEF machine, seat, sink
  <2>4. UNCHANGED <<token, told, thread>> /\ notified' \in BOOLEAN
    BY <1>2 DEF network
  <2> QED
    BY <1>1, <2>2, <2>3, <2>4 DEF token, thread
<1>3. ASSUME NEW s \in Socket,
             \/ Playing(s) \/ HearShutdown(s) \/ ClaimSeat(s)
             \/ PublishConnected(s) \/ PublishDisconnected(s) \/ ReleaseSeat(s)
      PROVE  TypeOK'
  <2> USE DEF Playing, SendWelcome, ReceiveMessage, AnswerMessage, LeaveLoop,
              HearShutdown, ClaimSeat, PublishConnected, PublishDisconnected,
              ReleaseSeat
  <2>1. \E to \in {"welcome", "loop", "message", "cleanup", "release", "connect",
                   "finish"} : stage' = [stage EXCEPT ![s] = to]
    BY <1>3
  <2>2. stage' \in [Socket -> {"none", "upgrading", "hello", "token", "accept",
                               "claim", "finish", "notify", "done"} \cup Seated]
    BY <2>1
  <2>3. /\ listening' \subseteq Socket /\ authenticated' \subseteq Socket
        /\ emitted' \subseteq Socket /\ claimed' \in BOOLEAN
        /\ holder' \in Socket \cup {None} /\ finished' \subseteq Socket
    BY <1>3 DEF machine, seat, sink
  <2>4. UNCHANGED network
    BY <1>3
  <2> QED
    BY <1>1, <2>2, <2>3, <2>4 DEF network, token, thread
<1>4. CASE Elsewhere
  <2>1. /\ tokenValid' \in BOOLEAN /\ expired' \in BOOLEAN /\ told' \in BOOLEAN
        /\ requested' \in BOOLEAN /\ notified' \in BOOLEAN
        /\ server' \in {"serving", "invalidate", "tell", "graceful", "register",
                        "load", "await", "exited"}
    BY <1>4 DEF Elsewhere, ThreadStep, Expire, RequestShutdown, ReceiveRequest,
         InvalidateToken, TellSockets, ServeReturns, Register, LoadSocketTasks,
         Await, ServerStep, vars, token, network, thread
  <2> QED
    BY <1>1, <1>4, <2>1, ElsewhereKeepsSockets DEF sockets, machine, seat, sink
<1> QED
  BY <1>2, <1>3, <1>4, Steps

-----------------------------------------------------------------------------
(* The theorems.                                                           *)

\* The invariant is inductive.
THEOREM Invariance == Spec => []IInv
<1>1. Init => IInv
  BY InvInit
<1>2. IInv /\ [Next]_vars => IInv'
  BY TypeStep, CountingStep, SeatStep, AnnouncingStep, MachinesStep, ListeningStep,
     QuietStep DEF IInv
<1> QED
  BY <1>1, <1>2, PTL DEF Spec

\* Every variable keeps to its type: in particular socket_tasks, an unsigned
\* counter, never goes below zero.
THEOREM TypeCorrect == Spec => []TypeOK
<1>1. IInv => TypeOK
  BY DEF IInv
<1> QED
  BY <1>1, Invariance, PTL

\* handle_socket: one controller at a time, and the seat is free when nobody
\* holds it.
THEOREM SeatSafety == Spec => []SeatIsExclusive
<1>1. IInv => SeatIsExclusive
  BY DEF IInv
<1> QED
  BY <1>1, Invariance, PTL

\* handle_socket: whoever gets the seat hears the shutdown.
THEOREM SeatedHear == Spec => []SeatedSocketListens
<1>1. IInv => SeatedSocketListens
  BY DEF IInv, Listening, SeatedSocketListens
<1> QED
  BY <1>1, Invariance, PTL

\* run_server: after the join of shutdown no task publishes any more.
THEOREM ExitSafety == Spec => []ExitedServerIsQuiet
<1>1. IInv => ExitedServerIsQuiet
  <2> SUFFICES ASSUME IInv, server = "exited"
               PROVE  /\ \A s \in Socket : stage[s] \in {"none", "notify", "done"}
                      /\ holder = None
    BY DEF ExitedServerIsQuiet
  <2>1. \A s \in Socket : stage[s] \in Ended
    BY DEF IInv, Quiet
  <2>2. holder = None
    BY <2>1 DEF IInv, TypeOK, Announcing, Announced, Ended
  <2> QED
    BY <2>1, <2>2 DEF Ended
<1> QED
  BY <1>1, Invariance, PTL

\* What the sink hears is the feed of ControllerFeed: each controller announced
\* once, and taken back exactly once before the next.
THEOREM Refinement == Spec => FeedSpec
<1>1. Init => Feed!Init
  BY DEF Init, Feed!Init
<1>2. IInv /\ [Next]_vars => [Feed!Next]_Feed!vars
  <2> SUFFICES ASSUME IInv, [Next]_vars
               PROVE  Feed!Next \/ UNCHANGED Feed!vars
    OBVIOUS
  <2> USE DEF Step, Feed!vars
  <2>1. ASSUME NEW s \in Socket, PublishConnected(s) PROVE Feed!Connected(s)
    <3>1. stage[s] = "connect" /\ holder' = s /\ finished' = finished
      BY <2>1 DEF PublishConnected
    <3>2. holder = None
      BY <3>1 DEF IInv, TypeOK, SeatIsExclusive, Announcing, Announced, Seated
    <3>3. s \notin finished
      BY <3>1 DEF IInv, Machines
    <3> QED
      BY <3>1, <3>2, <3>3 DEF Feed!Connected
  <2>2. ASSUME NEW s \in Socket, PublishDisconnected(s)
        PROVE  Feed!Disconnected \/ UNCHANGED Feed!vars
    <3>1. holder = s /\ holder # None
      BY <2>2, NoneAssumption DEF PublishDisconnected, IInv, Announcing, Announced
    <3> QED
      BY <2>2, <3>1 DEF PublishDisconnected, Feed!Disconnected, sink
  <2>3. ASSUME NEW s \in Socket,
               \/ Outside(s) \/ Playing(s) \/ HearShutdown(s)
               \/ ClaimSeat(s) \/ ReleaseSeat(s)
        PROVE  UNCHANGED Feed!vars
    BY <2>3 DEF Outside, Upgrade, UpgradeFails, Subscribe, ReceiveHello, HelloFails,
         LoadTokenValid, AcceptHello, RejectHello, FinishTask, NotifyServer, Playing,
         SendWelcome, ReceiveMessage, AnswerMessage, LeaveLoop, HearShutdown,
         ClaimSeat, ReleaseSeat, sink
  <2>4. CASE Elsewhere
    BY <2>4, ElsewhereKeepsSockets DEF sockets, sink
  <2> QED
    BY <2>1, <2>2, <2>3, <2>4, Steps DEF Feed!Next
<1> QED
  BY <1>1, <1>2, Invariance, PTL DEF Spec, FeedSpec, Feed!Spec
=============================================================================
