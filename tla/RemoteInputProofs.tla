-------------------------- MODULE RemoteInputProofs --------------------------
(***************************************************************************)
(* Proofs about RemoteInput for any number of connections, buttons, queue  *)
(* slots and generations.                                                  *)
(***************************************************************************)
EXTENDS RemoteInput, TLAPS

-----------------------------------------------------------------------------
(* Facts about the data.                                                   *)

\* A controller event turned into a command of the channel is a command.
LEMMA EventCommandType ==
  ASSUME call \in Call, call.step = "send"
  PROVE  /\ EventCommand \in ControllerCommand
         /\ EventCommand \in Command
         /\ EventCommand.op = "controller"
         /\ EventCommand.event = call.event
         /\ EventCommand.generation = call.generation
BY DEF EventCommand, Call, Command, ControllerCommand

\* Only the commands of the handle carry an event and a generation.
LEMMA ControllerCommandShape ==
  ASSUME NEW c \in Command, c.op = "controller"
  PROVE  /\ c \in ControllerCommand
         /\ c.event \in Event
         /\ c.generation \in Generation
BY DEF Command, ControllerCommand, UiCommand

\* None is no value of the optional variables.
LEMMA NoneIsNothing ==
  /\ None \notin Controller
  /\ None \notin Snapshot
  /\ None \notin Core
  /\ None \notin Command
  /\ None \notin Link
  /\ None \notin Call
BY NoneAssumption

\* The state a message leaves pressed is a set of buttons.
LEMMA PressedType ==
  ASSUME NEW event \in Event, NEW base \in SUBSET Button
  PROVE  Pressed(event, base) \in SUBSET Button
BY DEF Pressed, Event

\* Sending appends, receiving takes the head: what the channel then holds.
LEMMA AppendFacts ==
  ASSUME NEW q \in Seq(Command), NEW c \in Command
  PROVE  /\ Append(q, c) \in Seq(Command)
         /\ Len(Append(q, c)) = Len(q) + 1
         /\ \A i \in 1 .. Len(q) : Append(q, c)[i] = q[i]
         /\ Append(q, c)[Len(q) + 1] = c
OBVIOUS

\* recv: the commands behind the first move up by one place.
LEMMA TailFacts ==
  ASSUME NEW q \in Seq(Command), q # <<>>
  PROVE  /\ Head(q) \in Command
         /\ Tail(q) \in Seq(Command)
         /\ Len(Tail(q)) = Len(q) - 1
         /\ Head(q) = q[1]
         /\ \A i \in 1 .. Len(Tail(q)) : Tail(q)[i] = q[i + 1]
OBVIOUS

-----------------------------------------------------------------------------
(* Type correctness.                                                       *)

\* Every variable starts in its type.
LEMMA TypeInit == Init => TypeOK
<1> SUFFICES ASSUME Init PROVE TypeOK
  OBVIOUS
<1>1. queue \in Seq(Command) /\ Len(queue) <= QueueCapacity
  BY CapacityAssumption DEF Init
<1>2. 0 \in 0 .. MaxGeneration
  BY GenerationAssumption
<1>3. held \in IF pc \in {"recheck", "handle"} THEN Command ELSE {None}
  BY DEF Init
<1> QED
  BY <1>1, <1>2, <1>3 DEF Init, TypeOK

\* The publisher's steps keep the types: the queue only grows where there is
\* room.
LEMMA TypePublisher ==
  ASSUME TypeOK,
         \/ \E c \in Connection : Accept(c)
         \/ Refuse \/ PublishMessage \/ PublishDisconnected
         \/ PublishUnknownDisconnected \/ PublisherStep
  PROVE  TypeOK'
<1> USE GenerationAssumption, CapacityAssumption
<1>1. ASSUME NEW c \in Connection, Accept(c) PROVE TypeOK'
  BY <1>1 DEF TypeOK, Accept, Link, worker, remote, barrier, publisher
<1>2. CASE Refuse
  BY <1>2, NoneIsNothing DEF TypeOK, Refuse, Link, worker, remote, barrier, publisher
<1>3. CASE PublishMessage
  <2>1. link \in Link /\ current \in Controller
    BY <1>3, NoneIsNothing DEF TypeOK, PublishMessage
  <2>2. PICK event \in Message(link.id) :
          /\ link' = [link EXCEPT !.buttons = Pressed(event, @)]
          /\ Calling(event, current.generation, "send")
    BY <1>3 DEF PublishMessage
  <2>3. event \in Event
    BY <2>1 DEF Message, Event, Link
  <2>4. link' \in Link
    BY <2>1, <2>2, <2>3, PressedType DEF Link
  <2>5. call' \in Call
    BY <2>1, <2>2, <2>3 DEF Calling, Call, Controller
  <2> QED
    BY <1>3, <2>4, <2>5, NoneIsNothing DEF TypeOK, PublishMessage, worker, remote, barrier
<1>4. CASE PublishDisconnected
  <2>1. link \in Link /\ current \in Controller
    BY <1>4, NoneIsNothing DEF TypeOK, PublishDisconnected, IsCurrent
  <2>2. link' \in Link
    BY <1>4, <2>1 DEF PublishDisconnected, Link
  <2>3. call' \in Call
    BY <1>4, <2>1 DEF PublishDisconnected, Calling, Call, Controller, Event, Link
  <2>4. cancelledThrough' \in 0 .. MaxGeneration
    BY <1>4, <2>1 DEF TypeOK, PublishDisconnected, Controller, Generation
  <2> QED
    BY <1>4, <2>2, <2>3, <2>4, NoneIsNothing DEF TypeOK, PublishDisconnected, worker, remote
<1>5. CASE PublishUnknownDisconnected
  BY <1>5 DEF TypeOK, PublishUnknownDisconnected, worker, remote, barrier
<1>6. CASE PublishConnected
  <2>1. link \in Link
    BY <1>6, NoneIsNothing DEF TypeOK, PublishConnected
  <2> DEFINE event == [kind |-> "connected", id |-> link.id, buttons |-> {}]
  <2>2. event \in Event
    BY <2>1 DEF Event, Link
  <2>3. CASE /\ nextGeneration < MaxGeneration
             /\ nextGeneration' = nextGeneration + 1
             /\ current' = [id |-> link.id, generation |-> nextGeneration']
             /\ Calling(event, nextGeneration', "send")
    <3>1. nextGeneration' \in Generation
      BY <2>3 DEF TypeOK, Generation
    <3>2. current' \in Controller /\ call' \in Call
      BY <2>1, <2>2, <2>3, <3>1 DEF Controller, Calling, Call, Link
    <3> QED
      BY <1>6, <3>1, <3>2 DEF TypeOK, PublishConnected, worker, remote, Generation
  <2>4. CASE /\ nextGeneration = MaxGeneration
             /\ Calling(event, 0, "err")
             /\ UNCHANGED <<nextGeneration, current>>
    <3>1. call' \in Call
      BY <2>2, <2>4 DEF Calling, Call
    <3> QED
      BY <1>6, <2>4, <3>1 DEF TypeOK, PublishConnected, worker, remote
  <2> QED
    BY <1>6, <2>3, <2>4 DEF PublishConnected
<1>7. CASE SendCommand
  <2>1. call \in Call
    BY <1>7, NoneIsNothing DEF TypeOK, SendCommand
  <2>2. EventCommand \in Command
    BY <1>7, <2>1, EventCommandType DEF SendCommand
  <2>3. queue' \in Seq(Command) /\ Len(queue') <= QueueCapacity
    BY <1>7, <2>2, AppendFacts DEF TypeOK, SendCommand, Room
  <2>4. call' \in Call
    BY <1>7, <2>1 DEF SendCommand, Call
  <2> QED
    BY <1>7, <2>3, <2>4 DEF TypeOK, SendCommand, worker, remote, barrier
<1>8. CASE SendFails \/ ResponseTimeout
  <2>1. call \in Call
    BY <1>8, NoneIsNothing DEF TypeOK, SendFails, ResponseTimeout
  <2>2. call' \in Call
    BY <1>8, <2>1 DEF SendFails, ResponseTimeout, Call, Generation
  <2> QED
    BY <1>8, <2>2 DEF TypeOK, SendFails, ResponseTimeout, worker, remote, barrier
<1>9. CASE Return
  <2>1. link' \in Link \cup {None}
    <3>1. link \in Link \cup {None}
      BY DEF TypeOK
    <3>2. CASE call.event.kind = "disconnected"
      BY <1>9, <3>2 DEF Return
    <3>3. link # None
      BY <1>9 DEF Return, TypeOK
    <3>4. CASE call.event.kind # "disconnected" /\ link \in Link
      <4>1. \/ link' = link
            \/ link' = [link EXCEPT !.stage = "open"]
            \/ link' = [link EXCEPT !.stage = "closing"]
        <5>1. CASE call.event.kind = "connected" /\ call.step = "ok"
          BY <1>9, <5>1 DEF Return
        <5>2. CASE call.event.kind = "connected" /\ call.step = "err"
          BY <1>9, <5>2 DEF Return
        <5>3. CASE call.event.kind \in {"sync", "down", "up"}
          BY <1>9, <5>3 DEF Return
        <5> QED
          BY <1>9, <3>4, <5>1, <5>2, <5>3 DEF Return
      <4> QED
        BY <3>4, <4>1 DEF Link
    <3> QED
      BY <3>1, <3>2, <3>3, <3>4
  <2> QED
    BY <1>9, <2>1 DEF TypeOK, Return, worker, remote, barrier
<1> QED
  BY <1>1, <1>2, <1>3, <1>4, <1>5, <1>6, <1>7, <1>8, <1>9 DEF PublisherStep

\* The drain keeps the types of what the worker retains.
LEMMA TypeDrain ==
  ASSUME TypeOK, DrainCancelled
  PROVE  /\ owner' \in Controller \cup {None}
         /\ snapshot' \in Snapshot \cup {None}
         /\ clearedThrough' \in 0 .. MaxGeneration
         /\ core' \in Core \cup {None}
<1>1. CASE cancelledThrough <= clearedThrough
  BY <1>1 DEF TypeOK, DrainCancelled
<1>2. CASE ~ (cancelledThrough <= clearedThrough)
  <2>1. core' \in Core \cup {None}
    BY <1>2 DEF TypeOK, DrainCancelled, Core
  <2> QED
    BY <1>2, <2>1 DEF TypeOK, DrainCancelled
<1> QED
  BY <1>1, <1>2

\* Applying an event keeps the types.
LEMMA TypeApply ==
  ASSUME TypeOK, NEW event \in Event, NEW g \in Generation, ApplyEvent(event, g)
  PROVE  /\ owner' \in Controller \cup {None}
         /\ snapshot' \in Snapshot \cup {None}
         /\ core' \in Core \cup {None}
<1>1. CASE event.kind = "disconnected"
  BY <1>1 DEF TypeOK, ApplyEvent
<1>2. CASE event.kind = "connected"
  BY <1>2 DEF TypeOK, ApplyEvent, Controller, Event
<1>3. CASE event.kind \notin {"disconnected", "connected"}
  <2> DEFINE state == Pressed(event, BaseState(g))
  <2>1. BaseState(g) \in SUBSET Button
    BY DEF TypeOK, BaseState, Snapshot
  <2>2. state \in SUBSET Button
    BY <2>1, PressedType
  <2>3. /\ owner' = [id |-> event.id, generation |-> g]
        /\ snapshot' = [generation |-> g, state |-> state]
        /\ core' = IF core = None THEN None ELSE [core EXCEPT !.remote = state]
    BY <1>3 DEF ApplyEvent
  <2>4. core' \in Core \cup {None}
    BY <2>2, <2>3 DEF TypeOK, Core
  <2> QED
    BY <2>2, <2>3, <2>4 DEF Controller, Snapshot, Event
<1> QED
  BY <1>1, <1>2, <1>3

\* The user interface's and the worker's steps keep the types.
LEMMA TypeWorker ==
  ASSUME TypeOK,
         \/ \E command \in UiCommand : UiRequest(command)
         \/ Shutdown \/ WorkerStep
  PROVE  TypeOK'
<1> USE GenerationAssumption, CapacityAssumption
<1>1. ASSUME NEW command \in UiCommand, UiRequest(command) PROVE TypeOK'
  <2>1. queue' \in Seq(Command) /\ Len(queue') <= QueueCapacity
    BY <1>1, AppendFacts DEF TypeOK, UiRequest, Room, Command
  <2> QED
    BY <1>1, <2>1 DEF TypeOK, UiRequest, worker, remote, barrier, publisher
<1>2. CASE Shutdown
  <2>1. [op |-> "shutdown"] \in Command
    BY DEF Command
  <2>2. queue' \in Seq(Command) /\ Len(queue') <= QueueCapacity
    BY <1>2, <2>1, AppendFacts DEF TypeOK, Shutdown, Room
  <2> QED
    BY <1>2, <2>2 DEF TypeOK, Shutdown, worker, remote, barrier, publisher
<1>3. CASE WorkerDrain
  <2>1. held' \in IF pc' \in {"recheck", "handle"} THEN Command ELSE {None}
    BY <1>3 DEF TypeOK, WorkerDrain
  <2> QED
    BY <1>3, <2>1, TypeDrain DEF TypeOK, WorkerDrain, barrier, publisher
<1>4. CASE WorkerTick
  BY <1>4 DEF TypeOK, WorkerTick, remote, barrier, publisher
<1>5. CASE WorkerNoTick \/ WorkerReceiveTimeout
  BY <1>5 DEF TypeOK, WorkerNoTick, WorkerReceiveTimeout, remote, barrier, publisher
<1>6. CASE WorkerReceive
  <2>1. /\ queue' \in Seq(Command)
        /\ Len(queue') <= QueueCapacity
        /\ held' \in Command
    BY <1>6, TailFacts DEF TypeOK, WorkerReceive
  <2> QED
    BY <1>6, <2>1 DEF TypeOK, WorkerReceive, remote, barrier, publisher
<1>7. CASE HandleControllerEvent
  <2>1. held \in Command /\ held.event \in Event /\ held.generation \in Generation
    BY <1>7, ControllerCommandShape DEF TypeOK, HandleControllerEvent, Handling
  <2>2. /\ owner' \in Controller \cup {None}
        /\ snapshot' \in Snapshot \cup {None}
        /\ core' \in Core \cup {None}
    BY <1>7, <2>1, TypeApply DEF TypeOK, HandleControllerEvent
  <2>3. call' \in Call \cup {None} /\ (call' # None => link # None)
    <3>1. CASE call' = call
      BY <3>1 DEF TypeOK
    <3>2. CASE call # None /\ call.step = "wait" /\ call' = [call EXCEPT !.step = "ok"]
      BY <3>2 DEF TypeOK, Call
    <3> QED
      BY <1>7, <3>1, <3>2 DEF HandleControllerEvent, ReplyTo
  <2> QED
    BY <1>7, <2>2, <2>3 DEF TypeOK, HandleControllerEvent, Handled, barrier
<1>8. CASE HandleOpenRom
  <2>1. core' \in Core \cup {None}
    BY <1>8 DEF TypeOK, HandleOpenRom, Core, Retained, Snapshot
  <2> QED
    BY <1>8, <2>1 DEF TypeOK, HandleOpenRom, Handled, remote, barrier, publisher
<1>9. CASE HandleStart \/ HandlePause \/ HandleOther
  BY <1>9 DEF TypeOK, HandleStart, HandlePause, HandleOther, Handled, CoreLoaded,
              remote, barrier, publisher
<1>10. CASE HandleRestart
  <2>1. core' \in Core \cup {None}
    BY <1>10 DEF TypeOK, HandleRestart, Core, Retained, Snapshot
  <2> QED
    BY <1>10, <2>1 DEF TypeOK, HandleRestart, Handled, remote, barrier, publisher
<1>11. CASE HandleClose
  BY <1>11 DEF TypeOK, HandleClose, Handled, remote, barrier, publisher
<1>12. CASE HandleKeyboard
  <2>1. held.buttons \in SUBSET Button
    BY <1>12 DEF TypeOK, HandleKeyboard, Handling, Command, ControllerCommand, UiCommand
  <2>2. core' \in Core \cup {None}
    BY <1>12, <2>1 DEF TypeOK, HandleKeyboard, Core
  <2> QED
    BY <1>12, <2>2 DEF TypeOK, HandleKeyboard, Handled, remote, barrier, publisher
<1>13. CASE HandleShutdown
  <2>1. queue' \in Seq(Command) /\ Len(queue') <= QueueCapacity
    BY <1>13 DEF HandleShutdown
  <2>2. call' \in Call \cup {None} /\ (call' # None => link # None)
    BY <1>13 DEF TypeOK, HandleShutdown, Call, Generation
  <2> QED
    BY <1>13, <2>1, <2>2 DEF TypeOK, HandleShutdown, remote, barrier
<1> QED
  BY <1>1, <1>2, <1>3, <1>4, <1>5, <1>6, <1>7, <1>8, <1>9, <1>10, <1>11, <1>12,
     <1>13 DEF WorkerStep

\* The variables keep their types and the channel its bound in every behaviour:
\* no sender ever passes COMMAND_QUEUE_CAPACITY.
THEOREM TypeCorrect == Spec => []TypeOK
<1>1. TypeOK /\ [Next]_vars => TypeOK'
  <2> SUFFICES ASSUME TypeOK, [Next]_vars PROVE TypeOK'
    OBVIOUS
  <2>1. CASE UNCHANGED vars
    BY <2>1 DEF TypeOK, vars, worker, remote, barrier, publisher
  <2> QED
    BY <2>1, TypePublisher, TypeWorker DEF Next
<1> QED
  BY TypeInit, <1>1, PTL DEF Spec

-----------------------------------------------------------------------------
(* The inductive invariant.                                                *)

\* A command's order depends on the barrier and on the owner only.
LEMMA CommandOrderStable ==
  ASSUME NEW c, CommandOrder(c),
         UNCHANGED <<nextGeneration, cancelledThrough, owner>>
  PROVE  CommandOrder(c)'
BY DEF CommandOrder, IsMessage

\* The invariant holds at the start.
LEMMA InvInit == Init => IInv
<1> SUFFICES ASSUME Init PROVE IInv
  OBVIOUS
<1>1. TypeOK
  BY TypeInit
<1>2. Len(queue) = 0
  BY DEF Init
<1> QED
  BY <1>1, <1>2 DEF Init, IInv, RetainedMatchesCore, GenerationOrder,
     PublisherOrder, CallOrder, ChannelOrder

\* The steps that change neither the barrier, the channel nor the worker.
LEMMA InvLink ==
  ASSUME IInv, TypeOK',
         \/ \E c \in Connection : Accept(c)
         \/ Refuse \/ PublishUnknownDisconnected
         \/ SendFails \/ ResponseTimeout \/ Return
  PROVE  IInv'
<1> USE DEF worker, remote, barrier, publisher
<1>1. UNCHANGED <<barrier, queue, worker>>
  BY DEF Accept, Refuse, PublishUnknownDisconnected, SendFails,
         ResponseTimeout, Return
<1>2. RetainedMatchesCore' /\ GenerationOrder'
  BY <1>1 DEF IInv, RetainedMatchesCore, RetainedState, GenerationOrder
<1>3. /\ \A i \in 1 .. Len(queue') : CommandOrder(queue[i])'
      /\ held' # None => CommandOrder(held)'
      /\ (pc = "handle" /\ held.op = "controller")
           => /\ held.generation <= clearedThrough + 1
              /\ held.event.kind = "disconnected"
                   => held.generation <= clearedThrough
  BY <1>1, CommandOrderStable DEF IInv, ChannelOrder
<1>4. PublisherOrder' /\ CallOrder' /\ ~ (call' # None /\ call'.step = "wait")
  <2>1. ASSUME NEW c \in Connection, Accept(c)
        PROVE  PublisherOrder' /\ CallOrder' /\ call' = None
    BY <2>1, NoneIsNothing DEF Accept, IInv, PublisherOrder, CallOrder
  <2>2. CASE Refuse
    <3>1. link' \in Link /\ link'.stage = "closing" /\ link'.id = link.id
          /\ link \in Link
      BY <2>2 DEF Refuse, IInv, TypeOK, Link
    <3> QED
      BY <2>2, <3>1, NoneIsNothing DEF Refuse, IInv, PublisherOrder, CallOrder
  <2>3. CASE PublishUnknownDisconnected
    BY <2>3 DEF PublishUnknownDisconnected, IsCurrent, IInv, PublisherOrder,
                CallOrder
  <2>4. CASE SendFails \/ ResponseTimeout
    <3>0. call \in Call /\ call' = [call EXCEPT !.step = "err"]
      BY <2>4 DEF SendFails, ResponseTimeout, IInv, TypeOK
    <3>1. /\ call' # None
          /\ call'.step = "err"
          /\ call'.event = call.event
          /\ link' = link
      <4>1. call'.step = "err" /\ call'.event = call.event
        BY <3>0 DEF Call
      <4>2. call' \in Call
        BY <3>0 DEF Call, Generation
      <4> QED
        BY <2>4, <4>1, <4>2, NoneIsNothing DEF SendFails, ResponseTimeout
    <3> QED
      BY <2>4, <1>1, <3>1 DEF SendFails, ResponseTimeout, IInv, PublisherOrder,
                              CallOrder, IsMessage
  <2>5. CASE Return
    <3>1. call \in Call /\ link \in Link /\ call' = None
      BY <2>5 DEF Return, IInv, TypeOK
    <3>2. CASE call.event.kind = "disconnected"
      BY <2>5, <1>1, <3>1, <3>2 DEF Return, IInv, PublisherOrder, CallOrder
    <3>3. CASE /\ call.event.kind # "disconnected"
               /\ link' = [link EXCEPT !.stage = "closing"]
      <4>1. link' # None /\ link'.stage = "closing" /\ link'.id = link.id
        BY <3>1, <3>3, NoneIsNothing DEF Link
      <4> QED
        BY <1>1, <3>1, <4>1 DEF IInv, PublisherOrder, CallOrder
    <3>4. CASE /\ call.event.kind = "connected"
               /\ call.step = "ok"
               /\ link' = [link EXCEPT !.stage = "open"]
      <4>1. link' # None /\ link'.stage = "open" /\ link'.id = link.id
        BY <3>1, <3>4, NoneIsNothing DEF Link
      <4> QED
        BY <2>5, <1>1, <3>1, <3>4, <4>1 DEF Return, IInv, PublisherOrder, CallOrder
    <3>5. CASE IsMessage(call.event) /\ link' = link
      BY <2>5, <1>1, <3>1, <3>5 DEF Return, IInv, PublisherOrder, CallOrder, IsMessage
    <3> QED
      BY <2>5, <3>2, <3>3, <3>4, <3>5 DEF Return, IsMessage
  <2> QED
    BY <2>1, <2>2, <2>3, <2>4, <2>5 DEF IInv, CallOrder
<1> QED
  BY <1>1, <1>2, <1>3, <1>4 DEF IInv, ChannelOrder

\* A command stays in order while the barrier only grows.
LEMMA CommandOrderGrows ==
  ASSUME TypeOK, TypeOK', NEW c \in Command, CommandOrder(c),
         nextGeneration <= nextGeneration', cancelledThrough <= cancelledThrough',
         owner' = owner
  PROVE  CommandOrder(c)'
<1>1. CASE c.op = "controller"
  <2>1. c.generation \in Generation
    BY <1>1, ControllerCommandShape
  <2> QED
    BY <1>1, <2>1 DEF CommandOrder, IsMessage, TypeOK, Generation
<1> QED
  BY <1>1 DEF CommandOrder

\* The call a publisher starts.
LEMMA CallingFacts ==
  ASSUME NEW event \in Event, NEW g \in 0 .. MaxGeneration,
         NEW step \in {"send", "err"}, step = "send" => g \in Generation,
         Calling(event, g, step)
  PROVE  /\ call' # None
         /\ call'.event = event
         /\ call'.generation = g
         /\ call'.step = step
<1>1. call' \in Call
  BY DEF Calling, Call
<1> QED
  BY <1>1, NoneIsNothing DEF Calling

\* What growing the barrier keeps of the channel and of the worker.
LEMMA ChannelOrderGrows ==
  ASSUME IInv, TypeOK', call = None,
         nextGeneration <= nextGeneration', cancelledThrough <= cancelledThrough',
         UNCHANGED <<queue, worker>>, call'.step = "send"
  PROVE  ChannelOrder'
<1> USE DEF worker, remote
<1>1. \A i \in 1 .. Len(queue') : CommandOrder(queue[i])'
  BY CommandOrderGrows DEF IInv, TypeOK, ChannelOrder
<1>2. held' # None => CommandOrder(held)'
  BY CommandOrderGrows DEF IInv, TypeOK, ChannelOrder
<1> QED
  BY <1>1, <1>2 DEF IInv, ChannelOrder

\* Preparing an event moves the barrier by at most one generation.
LEMMA InvPublish ==
  ASSUME IInv, TypeOK', PublishConnected \/ PublishMessage \/ PublishDisconnected
  PROVE  IInv'
<1> USE DEF worker, remote, barrier, publisher
<1>1. /\ call = None /\ link # None /\ link \in Link
      /\ UNCHANGED <<queue, worker>>
      /\ RetainedMatchesCore'
  BY DEF PublishConnected, PublishMessage, PublishDisconnected, IInv, TypeOK,
         RetainedMatchesCore, RetainedState
<1>2. CASE PublishConnected
  <2>1. /\ current = None /\ link.stage = "accepted" /\ link' = link
        /\ cancelledThrough' = cancelledThrough
        /\ cancelledThrough = nextGeneration
    BY <1>1, <1>2 DEF PublishConnected, IInv, PublisherOrder, GenerationOrder
  <2> DEFINE event == [kind |-> "connected", id |-> link.id, buttons |-> {}]
  <2>2. CASE /\ nextGeneration < MaxGeneration
             /\ nextGeneration' = nextGeneration + 1
             /\ current' = [id |-> link.id, generation |-> nextGeneration']
             /\ Calling(event, nextGeneration', "send")
    <3>a. nextGeneration' \in Generation
      BY <2>2 DEF IInv, TypeOK, Generation
    <3>b. event \in Event /\ link.id \in Connection
      BY <1>1 DEF Event, Link
    <3>1. /\ current' # None
          /\ current'.id = link.id
          /\ current'.generation = nextGeneration + 1
      <4>1. current' \in Controller
        BY <2>2, <3>a, <3>b DEF Controller
      <4> QED
        BY <2>2, <4>1, NoneIsNothing
    <3>2. /\ call' # None /\ call'.step = "send"
          /\ call'.event.kind = "connected"
          /\ call'.generation = nextGeneration'
      <4>1. call' # None /\ call'.event = event
            /\ call'.generation = nextGeneration' /\ call'.step = "send"
        BY <2>2, <3>a, <3>b, CallingFacts, GenerationAssumption DEF Generation
      <4> QED
        BY <4>1
    <3>3. GenerationOrder'
      BY <1>1, <2>1, <2>2, <3>1 DEF IInv, GenerationOrder, TypeOK, Controller,
                                   Generation
    <3>4. ChannelOrder'
      BY <1>1, <2>1, <2>2, <3>2, ChannelOrderGrows DEF IInv, TypeOK
    <3> QED
      BY <1>1, <2>1, <3>1, <3>2, <3>3, <3>4
      DEF IInv, PublisherOrder, CallOrder, IsMessage
  <2>3. CASE /\ nextGeneration = MaxGeneration
             /\ Calling(event, 0, "err")
             /\ UNCHANGED <<nextGeneration, current>>
    <3>1. /\ call' # None /\ call'.step = "err"
          /\ call'.event.kind = "connected"
      <4>1. event \in Event
        BY <1>1 DEF Event, Link
      <4>2. call' # None /\ call'.event = event /\ call'.step = "err"
        BY <2>3, <4>1, CallingFacts, GenerationAssumption
      <4> QED
        BY <4>2
    <3>2. /\ \A i \in 1 .. Len(queue') : CommandOrder(queue[i])'
          /\ held' # None => CommandOrder(held)'
      BY <1>1, <2>1, <2>3, CommandOrderStable DEF IInv, ChannelOrder
    <3> QED
      BY <1>1, <2>1, <2>3, <3>1, <3>2 DEF IInv, GenerationOrder, PublisherOrder,
         CallOrder, ChannelOrder, IsMessage
  <2> QED
    BY <1>2, <2>2, <2>3 DEF PublishConnected
<1>3. CASE PublishMessage
  <2>1. PICK event \in Message(link.id) :
          /\ link' = [link EXCEPT !.buttons = Pressed(event, @)]
          /\ Calling(event, current.generation, "send")
    BY <1>3 DEF PublishMessage
  <2>3. /\ call' # None /\ call'.step = "send" /\ IsMessage(call'.event)
        /\ call'.generation = nextGeneration
    <3>1. event \in Event /\ IsMessage(event)
      BY <1>1, <2>1 DEF Message, Event, Link, IsMessage
    <3>2. /\ current.generation \in Generation
          /\ current.generation = nextGeneration
      BY <1>3, NoneIsNothing
      DEF PublishMessage, IInv, GenerationOrder, TypeOK, Controller
    <3>3. call' # None /\ call'.event = event /\ call'.step = "send"
          /\ call'.generation = current.generation
      BY <2>1, <3>1, <3>2, CallingFacts, GenerationAssumption DEF Generation
    <3> QED
      BY <3>1, <3>2, <3>3
  <2>2. /\ link' # None /\ link'.stage = "open" /\ link'.id = link.id
        /\ link.stage = "open" /\ current # None
        /\ UNCHANGED barrier
    <3>1. link'.stage = link.stage /\ link'.id = link.id
      BY <1>1, <2>1 DEF Link
    <3>2. call' # None
      BY <2>3
    <3> QED
      BY <1>3, <3>1, <3>2 DEF PublishMessage, TypeOK
  <2>4. ChannelOrder'
    BY <1>1, <2>2, <2>3, ChannelOrderGrows DEF IInv, TypeOK
  <2> QED
    BY <1>1, <2>2, <2>3, <2>4
    DEF IInv, GenerationOrder, PublisherOrder, CallOrder, IsMessage
<1>4. CASE PublishDisconnected
  <2>1. /\ current # None /\ current \in Controller
        /\ current.generation = nextGeneration
        /\ cancelledThrough = nextGeneration - 1
        /\ cancelledThrough' = nextGeneration
        /\ nextGeneration' = nextGeneration
        /\ current' = None
    BY <1>4 DEF PublishDisconnected, IsCurrent, IInv, GenerationOrder, TypeOK,
                Controller, Generation
  <2>2. link'.stage = "closing" /\ link'.id = link.id
    BY <1>1, <1>4 DEF PublishDisconnected, Link
  <2>3. /\ call' # None /\ call'.step = "send"
        /\ call'.event.kind = "disconnected"
        /\ call'.generation = nextGeneration
    <3> DEFINE event == [kind |-> "disconnected", id |-> link.id, buttons |-> {}]
    <3>1. event \in Event
      BY <1>1 DEF Event, Link
    <3>2. call' # None /\ call'.event = event /\ call'.step = "send"
          /\ call'.generation = current.generation
      BY <1>4, <2>1, <3>1, CallingFacts, GenerationAssumption
      DEF PublishDisconnected, Controller, Generation
    <3> QED
      BY <2>1, <3>2
  <2>4. ChannelOrder'
    BY <1>1, <2>1, <2>3, ChannelOrderGrows DEF IInv, TypeOK
  <2>5. GenerationOrder'
    BY <1>1, <2>1 DEF IInv, GenerationOrder, TypeOK
  <2> QED
    BY <1>1, <2>1, <2>2, <2>3, <2>4, <2>5
    DEF IInv, PublisherOrder, CallOrder, IsMessage, TypeOK
<1> QED
  BY <1>2, <1>3, <1>4

\* A prepared event enters the channel in order.
LEMMA InvSend ==
  ASSUME IInv, TypeOK', SendCommand
  PROVE  IInv'
<1> USE DEF worker, remote, barrier
<1>1. /\ call # None /\ call \in Call /\ call.step = "send"
      /\ call' = [call EXCEPT !.step = "wait"]
      /\ UNCHANGED <<link, barrier, worker>>
      /\ queue' = Append(queue, EventCommand)
  BY DEF SendCommand, IInv, TypeOK
<1>2. /\ call'.step = "wait" /\ call'.event = call.event
      /\ call'.generation = call.generation
  BY <1>1 DEF Call
<1>3. /\ EventCommand \in Command /\ EventCommand.op = "controller"
      /\ EventCommand.event = call.event
      /\ EventCommand.generation = call.generation
      /\ EventCommand' = EventCommand
  BY <1>1, <1>2, EventCommandType DEF EventCommand
<1>4. CommandOrder(EventCommand)
  <2>1. call.generation = nextGeneration /\ nextGeneration \in Nat
    BY <1>1 DEF IInv, CallOrder, TypeOK
  <2>2. call.event.kind = "disconnected" => cancelledThrough = nextGeneration
    BY <1>1 DEF IInv, CallOrder, GenerationOrder
  <2>3. IsMessage(call.event) => owner # None /\ owner.generation = nextGeneration
    BY <1>1 DEF IInv, CallOrder, PublisherOrder, TypeOK
  <2> QED
    BY <1>3, <2>1, <2>2, <2>3 DEF CommandOrder
<1>5. /\ Len(queue') = Len(queue) + 1
      /\ \A i \in 1 .. Len(queue) : queue'[i] = queue[i]
      /\ queue'[Len(queue) + 1] = EventCommand
      /\ Len(queue) \in Nat
  BY <1>1, <1>3, AppendFacts DEF IInv, TypeOK
<1>6. \A i \in 1 .. Len(queue') : CommandOrder(queue'[i])
  BY <1>4, <1>5 DEF IInv, ChannelOrder
<1>7. ChannelOrder'
  <2>1. \A i \in 1 .. Len(queue') : CommandOrder(queue[i])'
    BY <1>1, <1>6 DEF CommandOrder, IsMessage
  <2>2. held' # None => CommandOrder(held)'
    BY <1>1, CommandOrderStable DEF IInv, ChannelOrder
  <2>3. Awaited(EventCommand)'
    <3>1. Len(queue) + 1 \in 1 .. Len(queue')
      BY <1>5
    <3>2. NoEventAfter(Len(queue) + 1)'
      BY <1>1, <1>5 DEF NoEventAfter
    <3> QED
      BY <1>3, <1>5, <3>1, <3>2 DEF Awaited, NoEventAfter
  <2> QED
    BY <1>1, <2>1, <2>2, <2>3 DEF IInv, ChannelOrder
<1>8. RetainedMatchesCore' /\ GenerationOrder'
  BY <1>1 DEF IInv, RetainedMatchesCore, RetainedState, GenerationOrder
<1>9. PublisherOrder' /\ CallOrder'
  <2>1. call' # None
    BY <1>1, <1>2, NoneIsNothing DEF SendCommand, Call
  <2> QED
    BY <1>1, <1>2, <2>1 DEF IInv, TypeOK, PublisherOrder, CallOrder, IsMessage
<1> QED
  BY <1>7, <1>8, <1>9 DEF IInv

\* The awaited command, seen as a command of the channel.
LEMMA AwaitedCommand ==
  ASSUME IInv, call # None, call.step = "wait"
  PROVE  /\ EventCommand.op = "controller"
         /\ EventCommand.event = call.event
         /\ EventCommand.generation = call.generation
         /\ Awaited(EventCommand)
BY DEF IInv, ChannelOrder, EventCommand

\* The user interface queues no controller event.
LEMMA InvUi ==
  ASSUME IInv, TypeOK',
         (\E command \in UiCommand : UiRequest(command)) \/ Shutdown
  PROVE  IInv'
<1> USE DEF worker, remote, barrier, publisher
<1>1. PICK c \in Command : c.op # "controller" /\ queue' = Append(queue, c)
  BY DEF UiRequest, Shutdown, UiCommand, Command
<1>2. UNCHANGED <<publisher, barrier, worker>>
  BY DEF UiRequest, Shutdown
<1>3. /\ Len(queue') = Len(queue) + 1
      /\ \A i \in 1 .. Len(queue) : queue'[i] = queue[i]
      /\ queue'[Len(queue) + 1] = c
      /\ Len(queue) \in Nat
  BY <1>1, AppendFacts DEF IInv, TypeOK
<1>4. \A i \in 1 .. Len(queue') : CommandOrder(queue'[i])
  BY <1>1, <1>3 DEF IInv, ChannelOrder, CommandOrder
<1>5. Awaited(EventCommand) => Awaited(EventCommand)'
  <2>1. \A j \in 0 .. Len(queue) : NoEventAfter(j) => NoEventAfter(j)'
    BY <1>1, <1>3 DEF NoEventAfter
  <2>2. EventCommand' = EventCommand
    BY <1>2 DEF EventCommand
  <2>3. CASE held = EventCommand /\ held # None /\ NoEventAfter(0)
    BY <1>2, <1>3, <2>1, <2>2, <2>3 DEF Awaited
  <2>4. ASSUME NEW i \in 1 .. Len(queue), queue[i] = EventCommand, NoEventAfter(i)
        PROVE  Awaited(EventCommand)'
    BY <1>3, <2>1, <2>2, <2>4 DEF Awaited
  <2> QED
    BY <2>3, <2>4 DEF Awaited
<1>6. ChannelOrder'
  <2>1. \A i \in 1 .. Len(queue') : CommandOrder(queue[i])'
    BY <1>2, <1>4 DEF CommandOrder, IsMessage
  <2>2. held' # None => CommandOrder(held)'
    BY <1>2, CommandOrderStable DEF IInv, ChannelOrder
  <2> QED
    BY <1>2, <1>5, <2>1, <2>2 DEF IInv, ChannelOrder
<1> QED
  BY <1>2, <1>6 DEF IInv, RetainedMatchesCore, RetainedState, GenerationOrder,
     PublisherOrder, CallOrder

\* Ticks, idle rounds and the user's commands touch the core and the phase.
LEMMA InvCore ==
  ASSUME IInv, TypeOK',
         \/ WorkerTick \/ WorkerNoTick \/ WorkerReceiveTimeout
         \/ HandleOpenRom \/ HandleStart \/ HandlePause \/ HandleRestart
         \/ HandleClose \/ HandleKeyboard \/ HandleOther
  PROVE  IInv'
<1> USE DEF worker, remote, barrier, publisher
<1>1. /\ UNCHANGED <<publisher, barrier, queue, remote>>
      /\ pc' # "handle"
      /\ \/ held' = held
         \/ held.op # "controller" /\ held' = None
  BY DEF WorkerTick, WorkerNoTick, WorkerReceiveTimeout, HandleOpenRom,
         HandleStart, HandlePause, HandleRestart, HandleClose, HandleKeyboard,
         HandleOther, Handling, Handled
<1>2. RetainedMatchesCore'
  <2>1. CASE UNCHANGED core
    BY <1>1, <2>1 DEF IInv, RetainedMatchesCore, RetainedState
  <2>2. CASE HandleOpenRom
    BY <2>2 DEF HandleOpenRom, RetainedMatchesCore, RetainedState, Retained
  <2>3. CASE HandleRestart /\ core # None /\ core' # core
    <3>1. /\ core \in Core
          /\ \/ core' = [remote |-> Retained(core.remote), keyboard |-> {}]
             \/ core' = [core EXCEPT !.keyboard = {}]
      BY <2>3 DEF HandleRestart, IInv, TypeOK
    <3>2. core'.remote = Retained(core.remote) \/ core'.remote = core.remote
      BY <3>1 DEF Core
    <3> QED
      BY <1>1, <2>3, <3>2 DEF IInv, RetainedMatchesCore, RetainedState, Retained
  <2>4. CASE HandleClose
    BY <2>4 DEF HandleClose, RetainedMatchesCore
  <2>5. CASE HandleKeyboard /\ core # None
    <3>1. core \in Core /\ core' = [core EXCEPT !.keyboard = held.buttons]
      BY <2>5 DEF HandleKeyboard, IInv, TypeOK
    <3>2. core'.remote = core.remote
      BY <3>1 DEF Core
    <3> QED
      BY <1>1, <2>5, <3>2 DEF IInv, RetainedMatchesCore, RetainedState
  <2>6. CASE HandleKeyboard /\ core = None
    BY <2>6 DEF HandleKeyboard, RetainedMatchesCore
  <2> QED
    BY <2>1, <2>2, <2>3, <2>4, <2>5, <2>6
    DEF WorkerTick, WorkerNoTick, WorkerReceiveTimeout, HandleStart, HandlePause,
        HandleOther, HandleRestart
<1>3. ChannelOrder'
  <2>1. \A i \in 1 .. Len(queue') : CommandOrder(queue[i])'
    BY <1>1, CommandOrderStable DEF IInv, ChannelOrder
  <2>2. held' # None => CommandOrder(held)'
    BY <1>1, CommandOrderStable DEF IInv, ChannelOrder
  <2>3. (call # None /\ call.step = "wait") => Awaited(EventCommand)'
    BY <1>1, AwaitedCommand DEF Awaited, EventCommand, NoEventAfter
  <2> QED
    BY <1>1, <2>1, <2>2, <2>3 DEF IInv, ChannelOrder
<1> QED
  BY <1>1, <1>2, <1>3 DEF IInv, GenerationOrder, PublisherOrder, CallOrder

\* Receiving moves the oldest command into the worker's hand.
LEMMA InvReceive ==
  ASSUME IInv, TypeOK', WorkerReceive
  PROVE  IInv'
<1> USE DEF worker, remote, barrier, publisher
<1>1. /\ UNCHANGED <<publisher, barrier, remote, core>>
      /\ held = None
      /\ held' = queue[1]
      /\ Len(queue) \in Nat \ {0}
      /\ Len(queue') = Len(queue) - 1
      /\ \A i \in 1 .. Len(queue') : queue'[i] = queue[i + 1]
      /\ pc' = "recheck"
  BY TailFacts DEF WorkerReceive, IInv, TypeOK
<1>2. \A i \in 1 .. Len(queue) : CommandOrder(queue[i])
  BY DEF IInv, ChannelOrder
<1>3. \A i \in 1 .. Len(queue') : CommandOrder(queue[i])'
  <2>1. \A i \in 1 .. Len(queue') : i + 1 \in 1 .. Len(queue)
    BY <1>1
  <2>2. \A i \in 1 .. Len(queue') : CommandOrder(queue'[i])
    BY <1>1, <1>2, <2>1
  <2> QED
    BY <1>1, <2>2 DEF CommandOrder, IsMessage
<1>4. CommandOrder(held)'
  <2>1. CommandOrder(held')
    BY <1>1, <1>2
  <2> QED
    BY <1>1, <2>1 DEF CommandOrder, IsMessage
<1>5. (call # None /\ call.step = "wait") => Awaited(EventCommand)'
  <2> SUFFICES ASSUME call # None, call.step = "wait" PROVE Awaited(EventCommand)'
    OBVIOUS
  <2>1. EventCommand' = EventCommand /\ Awaited(EventCommand)
    BY <1>1, AwaitedCommand DEF EventCommand
  <2>2. PICK i \in 1 .. Len(queue) : queue[i] = EventCommand /\ NoEventAfter(i)
    BY <1>1, <2>1 DEF Awaited
  <2>0. NoEventAfter(i - 1)'
    <3>1. ASSUME NEW j \in 1 .. Len(queue'), j > i - 1
          PROVE  queue'[j].op # "controller"
      <4>1. j + 1 \in 1 .. Len(queue) /\ j + 1 > i
        BY <1>1, <3>1
      <4> QED
        BY <1>1, <2>2, <4>1 DEF NoEventAfter
    <3> QED
      BY <3>1 DEF NoEventAfter
  <2>3. CASE i = 1
    <3>1. held' # None
      BY NoneIsNothing, <1>1 DEF TypeOK
    <3> QED
      BY <1>1, <2>0, <2>1, <2>2, <2>3, <3>1 DEF Awaited
  <2>4. CASE i # 1
    <3>1. i - 1 \in 1 .. Len(queue') /\ queue'[i - 1] = EventCommand
      BY <1>1, <2>2, <2>4
    <3> QED
      BY <2>0, <2>1, <3>1 DEF Awaited
  <2> QED
    BY <2>3, <2>4
<1> QED
  BY <1>1, <1>3, <1>4, <1>5 DEF IInv, ChannelOrder, RetainedMatchesCore,
     RetainedState, GenerationOrder, PublisherOrder, CallOrder

\* A drain that fires finds the owner cancelled: it never releases the buttons
\* of a live controller.
LEMMA DrainFindsOwnerCancelled ==
  ASSUME IInv, cancelledThrough > clearedThrough, owner # None
  PROVE  owner.generation <= cancelledThrough
BY DEF IInv, TypeOK, GenerationOrder

\* drain_cancelled_remote_input takes back an owner that apply_controller_event
\* has cancelled, and keeps the invariant.
LEMMA InvDrain ==
  ASSUME IInv, TypeOK', WorkerDrain
  PROVE  IInv'
<1> USE DEF worker, remote, barrier, publisher
<1>1. /\ UNCHANGED <<publisher, barrier, queue, held>>
      /\ clearedThrough' = cancelledThrough
      /\ DrainCancelled
  BY DEF WorkerDrain, DrainCancelled, IInv, TypeOK, GenerationOrder
<1>2. \/ UNCHANGED <<owner, snapshot, core, clearedThrough>>
      \/ /\ owner' = None /\ snapshot' = None
         /\ core # None => core \in Core /\ core' = [core EXCEPT !.remote = {}]
         /\ core = None => core' = None
         /\ owner # None => owner.generation <= cancelledThrough
  <2>1. CASE cancelledThrough <= clearedThrough
    BY <1>1, <2>1 DEF DrainCancelled
  <2>2. CASE ~ (cancelledThrough <= clearedThrough)
    <3>1. owner # None => owner.generation <= cancelledThrough
      BY <2>2, DrainFindsOwnerCancelled DEF IInv, TypeOK
    <3> QED
      BY <1>1, <2>2, <3>1 DEF DrainCancelled, IInv, TypeOK, GenerationOrder
  <2> QED
    BY <2>1, <2>2
<1>3. RetainedMatchesCore'
  BY <1>2 DEF IInv, RetainedMatchesCore, RetainedState, Core
<1>4. GenerationOrder'
  BY <1>1, <1>2 DEF IInv, TypeOK, GenerationOrder
<1>5. owner' = None => (owner = None \/ cancelledThrough >= owner.generation)
  BY <1>2
<1>6. current # None => nextGeneration > cancelledThrough
  BY DEF IInv, TypeOK, GenerationOrder
<1>7. owner' = owner \/ owner' = None
  BY <1>2
<1>8. PublisherOrder'
  <2>1. (link # None /\ link.stage = "open") => owner' = owner
    BY <1>5, <1>6, <1>7 DEF IInv, TypeOK, PublisherOrder
  <2> QED
    BY <1>1, <2>1 DEF IInv, PublisherOrder
<1>9. CallOrder'
  <2>1. (/\ call # None /\ call.step = "ok" /\ call.event.kind = "connected")
          => owner' = owner
    BY <1>5, <1>6, <1>7 DEF IInv, TypeOK, CallOrder
  <2>2. clearedThrough <= clearedThrough' /\ clearedThrough \in Nat
        /\ clearedThrough' \in Nat
    BY <1>1 DEF IInv, TypeOK, GenerationOrder
  <2>3. (call # None /\ call.step = "ok") => call.generation \in Nat
    BY DEF IInv, TypeOK, Call, Generation
  <2> QED
    BY <1>1, <2>1, <2>2, <2>3 DEF IInv, CallOrder
<1>10. ASSUME NEW c \in Command, CommandOrder(c) PROVE CommandOrder(c)'
  <2>1. CASE c.op = "controller"
    <3>1. c.generation \in Generation
      BY <2>1, ControllerCommandShape
    <3>2. (c.generation > cancelledThrough /\ IsMessage(c.event)) => owner' = owner
      BY <1>5, <1>7, <1>10, <2>1, <3>1 DEF CommandOrder, IInv, TypeOK, Generation
    <3> QED
      BY <1>1, <1>10, <2>1, <3>2 DEF CommandOrder, IsMessage
  <2> QED
    BY <2>1 DEF CommandOrder
<1>11. ChannelOrder'
  <2>1. \A i \in 1 .. Len(queue') : CommandOrder(queue[i])'
    BY <1>1, <1>10 DEF IInv, TypeOK, ChannelOrder
  <2>2. held' # None => CommandOrder(held)'
    BY <1>1, <1>10 DEF IInv, TypeOK, ChannelOrder
  <2>3. (pc' = "handle" /\ held'.op = "controller")
          => /\ held'.generation <= clearedThrough' + 1
             /\ held'.event.kind = "disconnected"
                  => held'.generation <= clearedThrough'
    <3> SUFFICES ASSUME pc' = "handle", held.op = "controller"
                 PROVE  /\ held.generation <= cancelledThrough + 1
                        /\ held.event.kind = "disconnected"
                             => held.generation <= cancelledThrough
      BY <1>1
    <3>1. held \in Command /\ CommandOrder(held)
      BY NoneIsNothing DEF WorkerDrain, IInv, TypeOK, ChannelOrder
    <3>2. held.generation \in Generation
      BY <3>1, ControllerCommandShape
    <3> QED
      BY <3>1, <3>2 DEF CommandOrder, IInv, TypeOK, GenerationOrder, Generation
  <2>4. (call # None /\ call.step = "wait") => Awaited(EventCommand)'
    BY <1>1, AwaitedCommand DEF Awaited, EventCommand, NoEventAfter
  <2> QED
    BY <1>1, <2>1, <2>2, <2>3, <2>4 DEF ChannelOrder
<1> QED
  BY <1>3, <1>4, <1>8, <1>9, <1>11 DEF IInv

\* An event that is not cancelled belongs to the newest generation, which is
\* the first the worker has not cleared.
LEMMA LiveCommandIsNewest ==
  ASSUME IInv, HandleControllerEvent, held.generation > cancelledThrough
  PROVE  /\ held \in Command /\ held.event \in Event
         /\ held.generation \in Generation
         /\ held.generation = nextGeneration
         /\ held.generation = cancelledThrough + 1
         /\ held.generation = clearedThrough + 1
<1>1. held # None /\ held \in Command /\ held.op = "controller" /\ pc = "handle"
  BY NoneIsNothing DEF HandleControllerEvent, Handling, IInv, TypeOK
<1>2. held.event \in Event /\ held.generation \in Generation
  BY <1>1, ControllerCommandShape
<1>3. held.generation <= nextGeneration /\ held.generation <= clearedThrough + 1
  BY <1>1 DEF IInv, ChannelOrder, CommandOrder
<1> QED
  BY <1>1, <1>2, <1>3 DEF IInv, TypeOK, GenerationOrder, Generation

\* handle_command keeps the invariant, one step per command.
LEMMA InvHandle ==
  ASSUME IInv, TypeOK', HandleControllerEvent
  PROVE  IInv'
<1> USE DEF worker, remote, barrier
<1>1. /\ UNCHANGED <<link, barrier, queue, clearedThrough>>
      /\ pc = "handle" /\ pc' = "drain" /\ held' = None
      /\ held \in Command /\ held.op = "controller" /\ held # None
  BY NoneIsNothing DEF HandleControllerEvent, Handling, Handled, IInv, TypeOK
<1>2. \* either nothing is applied, or the newest generation owns the pad
      \/ UNCHANGED <<owner, snapshot, core>>
      \/ /\ owner' # None
         /\ owner'.generation = held.generation
         /\ held.generation > cancelledThrough
         /\ \/ UNCHANGED <<snapshot, core>>
            \/ /\ snapshot' # None
               /\ snapshot'.generation = held.generation
               /\ core' # None => core'.remote = snapshot'.state
  <2>1. CASE Cancelled(held.generation)
    BY <2>1 DEF HandleControllerEvent
  <2>2. CASE ~ Cancelled(held.generation)
    <3>1. held.generation > cancelledThrough
      BY <1>1, <2>2, ControllerCommandShape DEF Cancelled, IInv, TypeOK, Generation
    <3>2. /\ ApplyEvent(held.event, held.generation)
          /\ held.event \in Event /\ held.generation \in Generation
      BY <2>2, <3>1, LiveCommandIsNewest DEF HandleControllerEvent
    <3> DEFINE state == Pressed(held.event, BaseState(held.generation))
    <3>3. CASE held.event.kind = "disconnected"
      BY <3>2, <3>3 DEF ApplyEvent
    <3>4. owner' = [id |-> held.event.id, generation |-> held.generation]
             => owner' # None /\ owner'.generation = held.generation
      <4>1. [id |-> held.event.id, generation |-> held.generation] \in Controller
        BY <3>2 DEF Controller, Event
      <4> QED
        BY <4>1, NoneIsNothing
    <3>5. CASE held.event.kind = "connected"
      BY <3>1, <3>2, <3>4, <3>5 DEF ApplyEvent
    <3>6. CASE held.event.kind \notin {"disconnected", "connected"}
      <4>1. /\ owner' = [id |-> held.event.id, generation |-> held.generation]
            /\ snapshot' = [generation |-> held.generation, state |-> state]
            /\ core' = IF core = None THEN None ELSE [core EXCEPT !.remote = state]
        BY <3>2, <3>6 DEF ApplyEvent
      <4>2. state \in SUBSET Button
        <5>1. BaseState(held.generation) \in SUBSET Button
          BY DEF IInv, TypeOK, BaseState, Snapshot
        <5> QED
          BY <3>2, <5>1, PressedType
      <4>3. snapshot' \in Snapshot
        BY <3>2, <4>1, <4>2 DEF Snapshot
      <4>4. core' # None => core'.remote = state
        BY <4>1 DEF IInv, TypeOK, Core
      <4> QED
        BY <3>1, <3>4, <4>1, <4>3, <4>4, NoneIsNothing
    <3> QED
      BY <3>3, <3>5, <3>6
  <2> QED
    BY <2>1, <2>2
<1>3. held.generation > cancelledThrough
        => /\ held.generation = nextGeneration
           /\ held.generation = clearedThrough + 1
  BY LiveCommandIsNewest
<1>4. RetainedMatchesCore'
  BY <1>2 DEF IInv, RetainedMatchesCore, RetainedState
<1>5. GenerationOrder'
  BY <1>1, <1>2, <1>3 DEF IInv, TypeOK, GenerationOrder
<1>6. \* a newest owner stays a newest owner
      (owner # None /\ owner.generation = nextGeneration)
        => owner' # None /\ owner'.generation = nextGeneration
  BY <1>2, <1>3
<1>7. PublisherOrder'
  <2>1. call' = None <=> call = None
    BY NoneIsNothing DEF HandleControllerEvent, ReplyTo, TypeOK, IInv, Call
  <2> QED
    BY <1>1, <1>6, <2>1 DEF IInv, PublisherOrder
<1>8. CallOrder'
  <2>1. CASE call' = call
    BY <1>1, <1>6, <2>1 DEF IInv, CallOrder
  <2>2. CASE /\ call # None /\ call.step = "wait"
             /\ NoEventAfter(0)
             /\ call' = [call EXCEPT !.step = "ok"]
    <3>1. call \in Call /\ EventCommand = held
      BY <2>2, AwaitedCommand DEF Awaited, NoEventAfter, IInv, TypeOK
    <3>2. /\ call'.event = call.event /\ call'.step = "ok"
          /\ call'.generation = call.generation
          /\ held.event = call.event /\ held.generation = call.generation
      BY <2>2, <3>1, AwaitedCommand DEF Call
    <3>3. CASE call.event.kind = "connected"
      <4>1. held.generation = nextGeneration /\ cancelledThrough = nextGeneration - 1
        BY <2>2, <3>2, <3>3 DEF IInv, CallOrder, GenerationOrder
      <4>2. ApplyEvent(held.event, held.generation)
        BY <4>1 DEF HandleControllerEvent, Cancelled, IInv, TypeOK
      <4>3. /\ held.event \in Event /\ held.generation \in Generation
            /\ owner' = [id |-> held.event.id, generation |-> held.generation]
        BY <1>1, <3>2, <3>3, <4>2, ControllerCommandShape DEF ApplyEvent
      <4>4. owner' # None /\ owner'.generation = nextGeneration
        <5>1. owner' \in Controller
          BY <4>3 DEF Controller, Event
        <5> QED
          BY <4>1, <4>3, <5>1, NoneIsNothing
      <4> QED
        BY <1>1, <2>2, <3>2, <3>3, <4>4 DEF IInv, CallOrder, IsMessage
    <3>4. CASE call.event.kind = "disconnected"
      <4>1. held.generation <= clearedThrough
        BY <1>1, <3>2, <3>4 DEF IInv, ChannelOrder
      <4> QED
        BY <1>1, <2>2, <3>2, <3>4, <4>1 DEF IInv, CallOrder, IsMessage
    <3>5. CASE call.event.kind \notin {"connected", "disconnected"}
      BY <1>1, <2>2, <3>2, <3>5 DEF IInv, CallOrder, IsMessage
    <3> QED
      BY <3>3, <3>4, <3>5
  <2> QED
    BY <2>1, <2>2 DEF HandleControllerEvent, ReplyTo
<1>9. ASSUME NEW c \in Command, CommandOrder(c) PROVE CommandOrder(c)'
  <2>1. CASE c.op = "controller"
    <3>1. c.generation \in Generation
      BY <2>1, ControllerCommandShape
    <3>2. (c.generation > cancelledThrough /\ IsMessage(c.event))
            => owner' # None /\ owner'.generation = c.generation
      <4>1. c.generation <= nextGeneration
        BY <1>9, <2>1 DEF CommandOrder
      <4>2. c.generation > cancelledThrough => c.generation = nextGeneration
        BY <3>1, <4>1 DEF IInv, TypeOK, GenerationOrder, Generation
      <4> QED
        BY <1>6, <1>9, <2>1, <4>2 DEF CommandOrder
    <3> QED
      BY <1>1, <1>9, <2>1, <3>2 DEF CommandOrder, IsMessage
  <2> QED
    BY <2>1 DEF CommandOrder
<1>10. ChannelOrder'
  <2>1. \A i \in 1 .. Len(queue') : CommandOrder(queue[i])'
    BY <1>1, <1>9 DEF IInv, TypeOK, ChannelOrder
  <2>2. (call' # None /\ call'.step = "wait") => Awaited(EventCommand)'
    <3> SUFFICES ASSUME call' # None, call'.step = "wait"
                 PROVE  Awaited(EventCommand)'
      OBVIOUS
    <3>1. call' = call
      BY DEF HandleControllerEvent, ReplyTo, IInv, TypeOK, Call
    <3>2. call # None /\ call.step = "wait" /\ ~ NoEventAfter(0)
      <4>1. call # None /\ call.step = "wait" /\ call \in Call
        BY <3>1 DEF IInv, TypeOK
      <4>2. [call EXCEPT !.step = "ok"].step = "ok"
        BY <4>1 DEF Call
      <4> QED
        BY <3>1, <4>1, <4>2 DEF HandleControllerEvent, ReplyTo
    <3>3. /\ EventCommand' = EventCommand
          /\ \E i \in 1 .. Len(queue) : queue[i] = EventCommand /\ NoEventAfter(i)
      BY <3>1, <3>2, AwaitedCommand DEF Awaited, EventCommand
    <3> QED
      BY <1>1, <3>3 DEF Awaited, NoEventAfter
  <2> QED
    BY <1>1, <2>1, <2>2 DEF ChannelOrder
<1> QED
  BY <1>4, <1>5, <1>7, <1>8, <1>10 DEF IInv

\* The worker's exit drops the channel and turns a waiting caller away.
LEMMA InvShutdown ==
  ASSUME IInv, TypeOK', HandleShutdown
  PROVE  IInv'
<1> USE DEF remote, barrier
<1>1. /\ UNCHANGED <<link, barrier, remote>>
      /\ core' = None /\ held' = None /\ pc' = "stopped"
      /\ Len(queue') = 0
  BY DEF HandleShutdown
<1>2. call' = call \/ (call # None /\ call \in Call /\ call' = [call EXCEPT !.step = "err"])
  BY DEF HandleShutdown, IInv, TypeOK
<1>3. ~ (call' # None /\ call'.step = "wait")
  <2>1. CASE call # None /\ call.step = "wait"
    BY <2>1 DEF HandleShutdown, IInv, TypeOK, Call
  <2>2. CASE ~ (call # None /\ call.step = "wait")
    BY <2>2 DEF HandleShutdown
  <2> QED
    BY <2>1, <2>2
<1>4. PublisherOrder' /\ CallOrder'
  <2>1. CASE call' = call
    BY <1>1, <2>1 DEF IInv, PublisherOrder, CallOrder
  <2>2. CASE call # None /\ call \in Call /\ call' = [call EXCEPT !.step = "err"]
    <3>1. call'.step = "err" /\ call'.event = call.event
      BY <2>2 DEF Call
    <3>2. call' # None
      BY <2>2, NoneIsNothing DEF Call, Generation
    <3> QED
      BY <1>1, <2>2, <3>1, <3>2 DEF IInv, PublisherOrder, CallOrder, IsMessage
  <2> QED
    BY <1>2, <2>1, <2>2
<1> QED
  BY <1>1, <1>3, <1>4 DEF IInv, RetainedMatchesCore, GenerationOrder, ChannelOrder

\* Every step preserves the invariant.
LEMMA InvNext == IInv /\ [Next]_vars => IInv'
<1> SUFFICES ASSUME IInv, [Next]_vars PROVE IInv'
  OBVIOUS
<1>1. TypeOK'
  <2>1. CASE UNCHANGED vars
    BY <2>1 DEF IInv, TypeOK, vars, worker, remote, barrier, publisher
  <2> QED
    BY <2>1, TypePublisher, TypeWorker DEF IInv, Next
<1>2. CASE UNCHANGED vars
  <2>1. UNCHANGED <<link, call, current, nextGeneration, cancelledThrough, queue,
                    pc, held, owner, snapshot, clearedThrough, core>>
    BY <1>2 DEF vars, worker, remote, barrier, publisher
  <2> QED
    BY <1>1, <2>1 DEF IInv, RetainedMatchesCore, RetainedState, GenerationOrder,
       PublisherOrder, CallOrder, ChannelOrder, CommandOrder, Awaited,
       NoEventAfter, EventCommand, IsMessage
<1> QED
  BY <1>1, <1>2, InvLink, InvPublish, InvSend, InvUi, InvCore, InvReceive,
     InvDrain, InvHandle, InvShutdown DEF Next, PublisherStep, WorkerStep

\* The strengthening IInv holds in every reachable state: what apply_controller_event
\* publishes, cancels and sends stays in generation order up to the worker.
THEOREM InductiveInvariant == Spec => []IInv
BY InvInit, InvNext, PTL DEF Spec

-----------------------------------------------------------------------------
(* What follows from it.                                                   *)

\* However connections, ROM loads, restarts and late commands interleave, the
\* core and the worker's snapshot agree on the remote buttons.
THEOREM CoreShowsRetainedInput == Spec => []RetainedMatchesCore
<1>1. IInv => RetainedMatchesCore
  BY DEF IInv
<1> QED
  BY <1>1, InductiveInvariant, PTL

-----------------------------------------------------------------------------
(* The buttons of a live connection.                                       *)

\* A command of an earlier connection is cancelled, while one is current.
LEMMA OlderIsCancelled ==
  ASSUME IInv, current # None, NEW c \in Command, c.op = "controller", Older(c)
  PROVE  Cancelled(c.generation)
<1>1. c.generation \in Generation
  BY ControllerCommandShape
<1> QED
  BY <1>1 DEF Older, Cancelled, IInv, TypeOK, GenerationOrder, Generation

\* A connection that plays has a number, and its buttons are under that number.
LEMMA PlayingFacts ==
  ASSUME IInv, link # None, link.stage = "open"
  PROVE  /\ current # None /\ owner # None /\ owner.generation = nextGeneration
         /\ snapshot # None => snapshot.generation = nextGeneration
         /\ cancelledThrough = nextGeneration - 1
         /\ clearedThrough = cancelledThrough
         /\ BaseState(nextGeneration) = RetainedState
         /\ call # None /\ call.step # "err" => IsMessage(call.event)
<1>1. /\ current # None /\ owner # None /\ owner.generation = nextGeneration
      /\ snapshot # None => snapshot.generation = nextGeneration
  BY DEF IInv, PublisherOrder, GenerationOrder
<1>2. cancelledThrough = nextGeneration - 1 /\ clearedThrough = cancelledThrough
  BY <1>1 DEF IInv, TypeOK, GenerationOrder
<1>3. BaseState(nextGeneration) = RetainedState
  BY <1>1 DEF BaseState, RetainedState
<1>4. call # None /\ call.step # "err" => IsMessage(call.event)
  <2> SUFFICES ASSUME call # None PROVE IsMessage(call.event)
    OBVIOUS
  <2>1. call.event.kind # "connected" /\ call.event.kind # "disconnected"
    BY <1>1 DEF IInv, CallOrder
  <2>2. call.event \in Event
    BY DEF IInv, TypeOK, Call
  <2> QED
    BY <2>1, <2>2 DEF IsMessage, Event
<1> QED
  BY <1>1, <1>2, <1>3, <1>4

LEMMA LiveInit == Init => LiveInv
BY InvInit DEF Init, LiveInv, LiveChannel, LiveButtons

\* What only depends on the channel, the hand and the number.
LEMMA OlderStays ==
  ASSUME UNCHANGED <<queue, held, nextGeneration>>
  PROVE  /\ AllOlder => AllOlder'
         /\ (OneIsNewest /\ EventCommand' = EventCommand) => OneIsNewest'
BY DEF AllOlder, OneIsNewest, Older, NoEventAfter

\* The steps that change neither the barrier, the channel nor the worker.
LEMMA LiveLink ==
  ASSUME LiveInv, IInv',
         \/ \E c \in Connection : Accept(c)
         \/ Refuse \/ PublishUnknownDisconnected
         \/ SendFails \/ ResponseTimeout \/ Return
  PROVE  LiveInv'
<1> USE DEF worker, remote, barrier, publisher
<1>1. UNCHANGED <<barrier, queue, worker>>
  BY DEF Accept, Refuse, PublishUnknownDisconnected, SendFails,
         ResponseTimeout, Return
<1>2. RetainedState' = RetainedState /\ (AllOlder => AllOlder')
  BY <1>1, OlderStays DEF RetainedState
<1>3. ASSUME NEW c \in Connection, Accept(c) PROVE LiveInv'
  <2>1. current' = None /\ call' = None
    BY <1>3 DEF Accept, LiveInv, IInv, PublisherOrder
  <2>2. link' # None /\ link'.stage = "accepted" /\ link'.buttons = {}
    BY <1>3, NoneIsNothing DEF Accept, Link
  <2> QED
    BY <2>1, <2>2 DEF LiveInv, LiveChannel, LiveButtons
<1>4. ASSUME link' = None \/ link'.stage = "closing" PROVE LiveInv'
  BY <1>4 DEF LiveInv, LiveChannel, LiveButtons
<1>5. CASE Refuse
  <2>1. link \in Link /\ link' = [link EXCEPT !.stage = "closing"]
    BY <1>5 DEF Refuse, LiveInv, IInv, TypeOK
  <2> QED
    BY <1>4, <2>1 DEF Link
<1>6. CASE PublishUnknownDisconnected
  BY <1>4, <1>6 DEF PublishUnknownDisconnected
<1>7. CASE SendFails \/ ResponseTimeout
  <2>1. call \in Call /\ call' = [call EXCEPT !.step = "err"] /\ link' = link
    BY <1>7 DEF SendFails, ResponseTimeout, LiveInv, IInv, TypeOK
  <2>2. call'.step = "err" /\ call' \in Call
    BY <2>1 DEF Call, Generation
  <2>3. call' # None
    BY <2>2, NoneIsNothing
  <2> QED
    BY <1>1, <2>1, <2>2, <2>3 DEF LiveInv, LiveChannel, LiveButtons
<1>8. CASE Return
  <2>1. link \in Link /\ link # None /\ call # None /\ call' = None
    BY <1>8 DEF Return, LiveInv, IInv, TypeOK
  <2>2. \/ link' = None
        \/ link' = [link EXCEPT !.stage = "closing"]
        \/ /\ call.event.kind = "connected" /\ call.step = "ok"
           /\ link' = [link EXCEPT !.stage = "open"]
        \/ IsMessage(call.event) /\ call.step = "ok" /\ link' = link
    BY <1>8 DEF Return, IsMessage
  <2>3. CASE link' = None
    BY <1>4, <2>3
  <2>4. CASE link' = [link EXCEPT !.stage = "closing"]
    BY <1>4, <2>1, <2>4 DEF Link
  <2>5. CASE /\ call.event.kind = "connected" /\ call.step = "ok"
             /\ link' = [link EXCEPT !.stage = "open"]
    <3>1. /\ link.stage = "accepted" /\ current # None
          /\ owner # None /\ owner.generation = nextGeneration
      BY <2>1, <2>5 DEF LiveInv, IInv, CallOrder
    <3>2. AllOlder'
      BY <1>2, <2>1, <2>5, <3>1 DEF LiveInv, LiveChannel
    <3>3. link.buttons = {} /\ (snapshot # None => snapshot.generation < nextGeneration)
      BY <2>1, <2>5, <3>1 DEF LiveInv, LiveButtons
    <3>4. snapshot = None
      BY <3>1, <3>3 DEF LiveInv, IInv, GenerationOrder, TypeOK
    <3>5. link'.stage = "open" /\ link'.buttons = {}
      BY <2>1, <2>5, <3>3 DEF Link
    <3>6. RetainedState' = {}
      BY <1>2, <3>4 DEF RetainedState
    <3> QED
      BY <2>1, <3>2, <3>5, <3>6 DEF LiveInv, LiveChannel, LiveButtons
  <2>6. CASE IsMessage(call.event) /\ call.step = "ok" /\ link' = link
    <3>1. link.stage = "open"
      BY <2>1, <2>6 DEF LiveInv, IInv, CallOrder
    <3>2. current # None
      BY <2>1, <3>1, PlayingFacts DEF LiveInv
    <3>3. AllOlder'
      BY <1>2, <2>1, <2>6, <3>1, <3>2 DEF LiveInv, LiveChannel
    <3>4. RetainedState' = link'.buttons
      BY <1>2, <2>1, <2>6, <3>1 DEF LiveInv, LiveButtons
    <3> QED
      BY <2>1, <2>6, <3>1, <3>3, <3>4 DEF LiveInv, LiveChannel, LiveButtons
  <2> QED
    BY <2>2, <2>3, <2>4, <2>5, <2>6
<1> QED
  BY <1>3, <1>5, <1>6, <1>7, <1>8

\* A new connection makes every command older; a message is what changes the
\* buttons of the phone.
LEMMA LivePublish ==
  ASSUME LiveInv, IInv', PublishConnected \/ PublishMessage \/ PublishDisconnected
  PROVE  LiveInv'
<1> USE DEF worker, remote, barrier, publisher
<1>1. /\ call = None /\ link # None /\ link \in Link
      /\ UNCHANGED <<queue, worker>>
      /\ RetainedState' = RetainedState
  BY DEF PublishConnected, PublishMessage, PublishDisconnected, LiveInv, IInv, TypeOK,
         RetainedState
<1>2. CASE PublishConnected
  <2>1. link' = link /\ link.stage = "accepted" /\ current = None /\ link.buttons = {}
    BY <1>1, <1>2 DEF PublishConnected, LiveInv, IInv, PublisherOrder, LiveButtons
  <2> DEFINE event == [kind |-> "connected", id |-> link.id, buttons |-> {}]
  <2>2. event \in Event
    BY <1>1 DEF Event, Link
  <2>3. CASE /\ nextGeneration' = nextGeneration + 1
             /\ Calling(event, nextGeneration', "send")
    <3>1. ASSUME NEW c \in Command, CommandOrder(c) PROVE Older(c)'
      <4>1. CASE c.op = "controller"
        <5>1. c.generation \in Generation /\ c.generation <= nextGeneration
          BY <3>1, <4>1, ControllerCommandShape DEF CommandOrder
        <5>2. nextGeneration \in Nat
          BY GenerationAssumption DEF LiveInv, IInv, TypeOK
        <5>3. c.generation < nextGeneration'
          BY <2>3, <5>1, <5>2 DEF Generation
        <5> QED
          BY <5>3 DEF Older
      <4> QED
        BY <4>1 DEF Older
    <3>2. AllOlder'
      <4>1. \A i \in 1 .. Len(queue') : queue[i] \in Command /\ CommandOrder(queue[i])
        BY <1>1 DEF LiveInv, IInv, TypeOK, ChannelOrder
      <4>2. held # None => held \in Command /\ CommandOrder(held)
        BY DEF LiveInv, IInv, TypeOK, ChannelOrder
      <4>3. held' # None => Older(held)'
        BY <1>1, <3>1, <4>2
      <4>4. \A i \in 1 .. Len(queue') : Older(queue[i])'
        BY <1>1, <3>1, <4>1
      <4> QED
        BY <4>3, <4>4 DEF AllOlder
    <3>3. nextGeneration' \in Generation
      BY <2>3, GenerationAssumption DEF LiveInv, IInv, TypeOK, Generation
    <3>4. call' # None /\ call'.step = "send"
      BY <2>2, <2>3, <3>3, CallingFacts, GenerationAssumption DEF Generation
    <3>5. snapshot' # None => snapshot'.generation < nextGeneration'
      BY <1>1, <2>3 DEF LiveInv, IInv, TypeOK, GenerationOrder
    <3> QED
      BY <2>1, <3>2, <3>4, <3>5 DEF LiveInv, LiveChannel, LiveButtons
  <2>4. CASE /\ Calling(event, 0, "err")
             /\ UNCHANGED <<nextGeneration, current>>
    <3>1. call' # None /\ call'.step = "err"
      BY <2>2, <2>4, CallingFacts, GenerationAssumption
    <3> QED
      BY <2>1, <2>4, <3>1 DEF LiveInv, LiveChannel, LiveButtons
  <2> QED
    BY <1>2, <2>3, <2>4 DEF PublishConnected
<1>3. CASE PublishMessage
  <2>1. PICK event \in Message(link.id) :
          /\ link' = [link EXCEPT !.buttons = Pressed(event, @)]
          /\ Calling(event, current.generation, "send")
    BY <1>3 DEF PublishMessage
  <2>2. link.stage = "open" /\ current # None /\ UNCHANGED barrier
    BY <1>3 DEF PublishMessage
  <2>3. AllOlder' /\ RetainedState = link.buttons
    <3>1. AllOlder /\ RetainedState = link.buttons
      BY <1>1, <2>2 DEF LiveInv, LiveChannel, LiveButtons
    <3> QED
      BY <1>1, <2>2, <3>1, OlderStays
  <2>4. call' # None /\ call'.step = "send" /\ call'.event = event
    <3>1. event \in Event
      BY <1>1, <2>1 DEF Message, Event, Link
    <3>2. current.generation \in Generation
      BY <2>2 DEF LiveInv, IInv, TypeOK, Controller
    <3> QED
      BY <2>1, <3>1, <3>2, CallingFacts, GenerationAssumption DEF Generation
  <2>5. link'.stage = "open" /\ link'.buttons = Pressed(event, link.buttons)
    BY <1>1, <2>1, <2>2 DEF Link
  <2>6. Pressed(call'.event, RetainedState') = link'.buttons
    BY <1>1, <2>3, <2>4, <2>5
  <2>7. Pressed(call.event, RetainedState)' = Pressed(call'.event, RetainedState')
    BY DEF Pressed
  <2> QED
    BY <2>3, <2>4, <2>5, <2>6, <2>7 DEF LiveInv, LiveChannel, LiveButtons
<1>4. CASE PublishDisconnected
  <2>1. link'.stage = "closing"
    BY <1>1, <1>4 DEF PublishDisconnected, Link
  <2> QED
    BY <2>1 DEF LiveInv, LiveChannel, LiveButtons
<1> QED
  BY <1>2, <1>3, <1>4

\* The event enters the channel as the newest.
LEMMA LiveSend ==
  ASSUME LiveInv, IInv', SendCommand
  PROVE  LiveInv'
<1> USE DEF worker, remote, barrier
<1>1. /\ call # None /\ call \in Call /\ call.step = "send"
      /\ call' = [call EXCEPT !.step = "wait"]
      /\ UNCHANGED <<link, barrier, worker>>
      /\ queue' = Append(queue, EventCommand)
  BY DEF SendCommand, LiveInv, IInv, TypeOK
<1>2. /\ call'.step = "wait" /\ call'.event = call.event
      /\ call'.generation = call.generation /\ call' # None
  <2>1. call'.step = "wait" /\ call'.event = call.event /\ call'.generation = call.generation
    BY <1>1 DEF Call
  <2>2. call' \in Call
    BY <1>1 DEF Call
  <2> QED
    BY <2>1, <2>2, NoneIsNothing
<1>3. EventCommand' = EventCommand /\ EventCommand \in Command
  BY <1>1, <1>2, EventCommandType DEF EventCommand
<1>4. /\ Len(queue') = Len(queue) + 1
      /\ \A i \in 1 .. Len(queue) : queue'[i] = queue[i]
      /\ queue'[Len(queue) + 1] = EventCommand
      /\ Len(queue) \in Nat
  BY <1>1, <1>3, AppendFacts DEF LiveInv, IInv, TypeOK
<1>5. AllOlder => OneIsNewest'
  <2> SUFFICES ASSUME AllOlder PROVE OneIsNewest'
    OBVIOUS
  <2>0. PICK last \in Nat : last = Len(queue) + 1
    BY <1>4
  <2>1. last \in 1 .. Len(queue') /\ queue'[last] = EventCommand'
    BY <1>3, <1>4, <2>0
  <2>2. NoEventAfter(last)'
    BY <1>4, <2>0 DEF NoEventAfter
  <2>3. \A j \in 1 .. last - 1 : Older(queue[j])'
    BY <1>1, <1>4, <2>0 DEF AllOlder, Older
  <2>4. held' # None => Older(held)'
    BY <1>1 DEF AllOlder, Older
  <2>5. \E i \in 1 .. Len(queue') :
          queue'[i] = EventCommand' /\ NoEventAfter(i)' /\ \A j \in 1 .. i - 1 : Older(queue[j])'
    BY <2>1, <2>2, <2>3
  <2> QED
    BY <2>4, <2>5 DEF OneIsNewest
<1>6. LiveChannel'
  BY <1>1, <1>2, <1>5 DEF LiveInv, LiveChannel
<1>7. LiveButtons'
  <2>1. RetainedState' = RetainedState
    BY <1>1 DEF RetainedState
  <2>2. Pressed(call.event, RetainedState)' = Pressed(call.event, RetainedState)
    BY <1>2, <2>1 DEF Pressed
  <2> QED
    BY <1>1, <1>2, <2>1, <2>2 DEF LiveInv, LiveButtons
<1> QED
  BY <1>6, <1>7 DEF LiveInv

\* What a command that is no event changes of the channel.
LEMMA LiveUi ==
  ASSUME LiveInv, IInv',
         (\E command \in UiCommand : UiRequest(command)) \/ Shutdown
  PROVE  LiveInv'
<1> USE DEF worker, remote, barrier, publisher
<1>1. PICK c \in Command : c.op # "controller" /\ queue' = Append(queue, c)
  BY DEF UiRequest, Shutdown, UiCommand, Command
<1>2. UNCHANGED <<publisher, barrier, worker>>
  BY DEF UiRequest, Shutdown
<1>3. /\ Len(queue') = Len(queue) + 1
      /\ \A i \in 1 .. Len(queue) : queue'[i] = queue[i]
      /\ queue'[Len(queue) + 1] = c
      /\ Len(queue) \in Nat
  BY <1>1, AppendFacts DEF LiveInv, IInv, TypeOK
<1>4. \A i \in 1 .. Len(queue) : Older(queue[i]) => Older(queue[i])'
  BY <1>2, <1>3 DEF Older
<1>5. held' = held /\ (Older(held) => Older(held)') /\ EventCommand' = EventCommand
  BY <1>2 DEF Older, EventCommand
<1>6. AllOlder => AllOlder'
  <2>1. \A i \in Nat : i = Len(queue) + 1 => Older(queue[i])'
    BY <1>1, <1>3 DEF Older
  <2> QED
    BY <1>3, <1>4, <1>5, <2>1 DEF AllOlder
<1>7. OneIsNewest => OneIsNewest'
  <2>1. \A j \in 0 .. Len(queue) : NoEventAfter(j) => NoEventAfter(j)'
    BY <1>1, <1>3 DEF NoEventAfter
  <2>2. CASE held # None /\ held = EventCommand /\ NoEventAfter(0)
    BY <1>3, <1>5, <2>1, <2>2 DEF OneIsNewest
  <2>3. ASSUME held # None => Older(held), NEW i \in 1 .. Len(queue),
               queue[i] = EventCommand, NoEventAfter(i),
               \A j \in 1 .. i - 1 : Older(queue[j])
        PROVE  OneIsNewest'
    <3>1. i \in 1 .. Len(queue') /\ queue'[i] = EventCommand'
      BY <1>3, <1>5, <2>3
    <3>2. NoEventAfter(i)'
      BY <2>1, <2>3
    <3>3. \A j \in 1 .. i - 1 : Older(queue[j])'
      BY <1>3, <1>4, <2>3
    <3>4. held' # None => Older(held)'
      BY <1>5, <2>3
    <3> QED
      BY <3>1, <3>2, <3>3, <3>4 DEF OneIsNewest
  <2> QED
    BY <2>2, <2>3 DEF OneIsNewest
<1>8. LiveChannel'
  BY <1>2, <1>6, <1>7 DEF LiveInv, LiveChannel
<1>9. LiveButtons'
  BY <1>2 DEF LiveInv, LiveButtons, RetainedState, Pressed
<1> QED
  BY <1>8, <1>9 DEF LiveInv

\* Ticks, idle rounds and the user's commands are no events.
LEMMA LiveCore ==
  ASSUME LiveInv, IInv',
         \/ WorkerTick \/ WorkerNoTick \/ WorkerReceiveTimeout
         \/ HandleOpenRom \/ HandleStart \/ HandlePause \/ HandleRestart
         \/ HandleClose \/ HandleKeyboard \/ HandleOther
  PROVE  LiveInv'
<1> USE DEF worker, remote, barrier, publisher
<1>1. /\ UNCHANGED <<publisher, barrier, queue, remote>>
      /\ \/ held' = held
         \/ held.op # "controller" /\ held' = None
  BY DEF WorkerTick, WorkerNoTick, WorkerReceiveTimeout, HandleOpenRom,
         HandleStart, HandlePause, HandleRestart, HandleClose, HandleKeyboard,
         HandleOther, Handling, Handled
<1>2. EventCommand' = EventCommand /\ EventCommand.op = "controller"
  BY <1>1 DEF EventCommand
<1>3. AllOlder => AllOlder'
  BY <1>1 DEF AllOlder, Older
<1>4. OneIsNewest => OneIsNewest'
  BY <1>1, <1>2 DEF OneIsNewest, Older, NoEventAfter
<1>5. LiveChannel'
  BY <1>1, <1>3, <1>4 DEF LiveInv, LiveChannel
<1>6. LiveButtons'
  BY <1>1 DEF LiveInv, LiveButtons, RetainedState, Pressed
<1> QED
  BY <1>5, <1>6 DEF LiveInv

\* The newest command moves up, at last into the hand.
LEMMA LiveReceive ==
  ASSUME LiveInv, IInv', WorkerReceive
  PROVE  LiveInv'
<1> USE DEF worker, remote, barrier, publisher
<1>1. /\ UNCHANGED <<publisher, barrier, remote, core>>
      /\ held = None
      /\ held' = queue[1]
      /\ Len(queue) \in Nat \ {0}
      /\ Len(queue') = Len(queue) - 1
      /\ \A i \in 1 .. Len(queue') : queue'[i] = queue[i + 1]
  BY TailFacts DEF WorkerReceive, LiveInv, IInv, TypeOK
<1>2. EventCommand' = EventCommand
  BY <1>1 DEF EventCommand
<1>3. /\ Older(queue[1]) => Older(held)'
      /\ \A i \in 1 .. Len(queue') : Older(queue[i + 1]) => Older(queue[i])'
  BY <1>1 DEF Older
<1>4. AllOlder => AllOlder'
  <2> SUFFICES ASSUME AllOlder PROVE AllOlder'
    OBVIOUS
  <2>1. 1 \in 1 .. Len(queue) /\ \A i \in 1 .. Len(queue') : i + 1 \in 1 .. Len(queue)
    BY <1>1
  <2> QED
    BY <1>3, <2>1 DEF AllOlder
<1>5. OneIsNewest => OneIsNewest'
  <2> SUFFICES ASSUME OneIsNewest PROVE OneIsNewest'
    OBVIOUS
  <2>1. PICK i \in 1 .. Len(queue) : queue[i] = EventCommand /\ NoEventAfter(i)
                                     /\ \A j \in 1 .. i - 1 : Older(queue[j])
    BY <1>1 DEF OneIsNewest
  <2>2. NoEventAfter(i - 1)'
    <3>1. ASSUME NEW j \in 1 .. Len(queue'), j > i - 1
          PROVE  queue'[j].op # "controller"
      <4>1. j + 1 \in 1 .. Len(queue) /\ j + 1 > i
        BY <1>1, <3>1
      <4> QED
        BY <1>1, <2>1, <4>1 DEF NoEventAfter
    <3> QED
      BY <3>1 DEF NoEventAfter
  <2>3. CASE i = 1
    <3>1. held' = EventCommand' /\ NoEventAfter(0)'
      BY <1>1, <1>2, <2>1, <2>2, <2>3
    <3>2. held' # None
      BY <1>1, NoneIsNothing DEF LiveInv, IInv, TypeOK
    <3> QED
      BY <3>1, <3>2 DEF OneIsNewest
  <2>4. CASE i # 1
    <3>1. i - 1 \in 1 .. Len(queue') /\ queue'[i - 1] = EventCommand'
      BY <1>1, <1>2, <2>1, <2>4
    <3>2. Older(held)'
      BY <1>3, <2>1, <2>4
    <3>3. \A j \in 1 .. (i - 1) - 1 : Older(queue[j])'
      <4>1. ASSUME NEW j \in 1 .. (i - 1) - 1 PROVE Older(queue[j])'
        <5>1. j + 1 \in 1 .. i - 1 /\ j \in 1 .. Len(queue')
          BY <1>1, <2>1, <4>1
        <5> QED
          BY <1>3, <2>1, <5>1
      <4> QED
        BY <4>1
    <3> QED
      BY <2>2, <3>1, <3>2, <3>3 DEF OneIsNewest
  <2> QED
    BY <2>3, <2>4
<1>6. LiveChannel'
  BY <1>1, <1>4, <1>5 DEF LiveInv, LiveChannel
<1>7. LiveButtons'
  BY <1>1 DEF LiveInv, LiveButtons, RetainedState, Pressed
<1> QED
  BY <1>6, <1>7 DEF LiveInv

\* The barrier has nothing to clear while a connection plays.
LEMMA LiveDrain ==
  ASSUME LiveInv, IInv', WorkerDrain
  PROVE  LiveInv'
<1> USE DEF barrier, publisher
<1>1. UNCHANGED <<publisher, barrier, queue, held>> /\ DrainCancelled
  BY DEF WorkerDrain
<1>2. EventCommand' = EventCommand
  BY <1>1 DEF EventCommand
<1>3. (AllOlder => AllOlder') /\ (OneIsNewest => OneIsNewest')
  BY <1>1, <1>2, OlderStays
<1>4. LiveChannel'
  BY <1>1, <1>3 DEF LiveInv, LiveChannel
<1>5. snapshot' = snapshot \/ snapshot' = None
  BY <1>1 DEF DrainCancelled
<1>6. ASSUME link # None, link.stage = "open" PROVE snapshot' = snapshot
  <2>1. clearedThrough = cancelledThrough /\ cancelledThrough \in Nat
    BY <1>6, PlayingFacts DEF LiveInv, IInv, TypeOK
  <2> QED
    BY <1>1, <2>1 DEF DrainCancelled
<1>7. LiveButtons'
  BY <1>1, <1>5, <1>6 DEF LiveInv, LiveButtons, RetainedState, Pressed
<1> QED
  BY <1>4, <1>7 DEF LiveInv

\* What the handler finds in its hand: an event of an earlier connection, or
\* the one that the caller waits for.
LEMMA HeldIsOlderOrAwaited ==
  ASSUME LiveInv, Handling("controller"),
         link # None, link.stage # "closing", call # None => call.step # "err"
  PROVE  \/ Cancelled(held.generation)
         \/ /\ call # None /\ call.step = "wait" /\ current # None
            /\ held = EventCommand /\ NoEventAfter(0)
<1>1. held \in Command /\ held # None /\ held.op = "controller" /\ CommandOrder(held)
  BY NoneIsNothing DEF Handling, LiveInv, IInv, TypeOK, ChannelOrder
<1>2. CASE current = None
  BY <1>1, <1>2 DEF CommandOrder, Cancelled, LiveInv, IInv, GenerationOrder
<1>3. ASSUME current # None, Older(held) PROVE Cancelled(held.generation)
  BY <1>1, <1>3, OlderIsCancelled DEF LiveInv
<1>4. ASSUME current # None, ~ Older(held)
      PROVE  /\ call # None /\ call.step = "wait"
             /\ held = EventCommand /\ NoEventAfter(0)
  <2>1. ~ AllOlder
    BY <1>1, <1>4 DEF AllOlder
  <2>2. call # None /\ call.step \notin {"send", "ok"}
    BY <1>4, <2>1 DEF LiveInv, LiveChannel
  <2>3. call.step = "wait"
    BY <2>2 DEF LiveInv, IInv, TypeOK, Call
  <2>4. OneIsNewest
    BY <1>4, <2>2, <2>3 DEF LiveInv, LiveChannel
  <2> QED
    BY <1>1, <1>4, <2>2, <2>3, <2>4 DEF OneIsNewest
<1> QED
  BY <1>2, <1>3, <1>4

\* The handler passes over what is cancelled, and the awaited event makes the
\* retained buttons those of the phone.
LEMMA LiveHandle ==
  ASSUME LiveInv, IInv', HandleControllerEvent
  PROVE  LiveInv'
<1>1. /\ Handling("controller") /\ held' = None /\ ReplyTo
      /\ UNCHANGED <<link, current, nextGeneration, cancelledThrough, queue>>
  BY DEF HandleControllerEvent, Handled, barrier
<1>2. CASE link = None \/ link.stage = "closing"
  BY <1>1, <1>2 DEF LiveInv, LiveChannel, LiveButtons
<1>3. CASE call # None /\ call.step = "err"
  <2>1. call' = call
    BY <1>1, <1>3 DEF ReplyTo
  <2> QED
    BY <1>1, <1>3, <2>1 DEF LiveInv, LiveChannel, LiveButtons
<1>4. ASSUME link # None, link.stage # "closing", call # None => call.step # "err",
             Cancelled(held.generation),
             ~ (call # None /\ call.step = "wait" /\ current # None
                /\ held = EventCommand /\ NoEventAfter(0))
      PROVE  LiveInv'
  <2>1. UNCHANGED <<owner, snapshot, core>>
    BY <1>4 DEF HandleControllerEvent
  <2>2. AllOlder => AllOlder'
    BY <1>1 DEF AllOlder, Older
  <2>3. CASE current # None
    <3>1. CASE call # None /\ call.step = "wait"
      <4>1. OneIsNewest
        BY <1>4, <2>3, <3>1 DEF LiveInv, LiveChannel
      <4>2. PICK i \in 1 .. Len(queue) : queue[i] = EventCommand /\ NoEventAfter(i)
                                         /\ \A j \in 1 .. i - 1 : Older(queue[j])
        BY <1>4, <2>3, <3>1, <4>1 DEF OneIsNewest
      <4>3. Len(queue) \in Nat
        BY DEF LiveInv, IInv, TypeOK
      <4>4. queue[i].op = "controller" /\ i > 0
        BY <4>2, <4>3 DEF EventCommand
      <4>5. ~ NoEventAfter(0)
        BY <4>2, <4>4 DEF NoEventAfter
      <4>6. call' = call
        BY <1>1, <4>5 DEF ReplyTo
      <4>7. queue'[i] = EventCommand' /\ NoEventAfter(i)'
            /\ \A j \in 1 .. i - 1 : Older(queue[j])'
        BY <1>1, <4>2, <4>6 DEF EventCommand, NoEventAfter, Older
      <4>8. OneIsNewest'
        BY <1>1, <4>2, <4>7 DEF OneIsNewest
      <4> QED
        BY <1>1, <2>1, <3>1, <4>6, <4>8
        DEF LiveInv, LiveChannel, LiveButtons, RetainedState, Pressed
    <3>2. CASE ~ (call # None /\ call.step = "wait")
      <4>1. call' = call
        BY <1>1, <3>2 DEF ReplyTo
      <4> QED
        BY <1>1, <2>1, <2>2, <3>2, <4>1
        DEF LiveInv, LiveChannel, LiveButtons, RetainedState, Pressed
    <3> QED
      BY <3>1, <3>2
  <2>4. CASE current = None
    <3>1. link.stage # "open"
      BY <1>4, <2>4, PlayingFacts DEF LiveInv
    <3>2. call' # None => call # None /\ call.step # "err"
      BY <1>1, <1>4 DEF ReplyTo
    <3> QED
      BY <1>1, <1>4, <2>1, <2>4, <3>1, <3>2 DEF LiveInv, LiveChannel, LiveButtons
  <2> QED
    BY <2>3, <2>4
<1>5. ASSUME link # None, link.stage # "closing",
             call # None, call.step = "wait", current # None,
             held = EventCommand, NoEventAfter(0)
      PROVE  LiveInv'
  <2>1. call \in Call /\ call' = [call EXCEPT !.step = "ok"]
    BY <1>1, <1>5 DEF ReplyTo, LiveInv, IInv, TypeOK
  <2>2. call' # None /\ call'.step = "ok"
    <3>1. call' \in Call /\ call'.step = "ok"
      BY <1>5, <2>1 DEF Call
    <3> QED
      BY <3>1, NoneIsNothing
  <2>3. AllOlder'
    <3>1. ASSUME NEW i \in 1 .. Len(queue) PROVE queue[i].op # "controller"
      BY <1>5, <3>1 DEF NoEventAfter, LiveInv, IInv, TypeOK
    <3> QED
      BY <1>1, <3>1 DEF AllOlder, Older
  <2>4. LiveChannel'
    BY <2>2, <2>3 DEF LiveChannel
  <2>5. held.event = call.event /\ held.generation = nextGeneration
    BY <1>5 DEF EventCommand, LiveInv, IInv, CallOrder
  <2>6. CASE link.stage = "accepted"
    <3>1. call.event.kind = "connected"
      <4>1. ~ IsMessage(call.event) /\ call.event.kind # "disconnected"
        BY <1>5, <2>6 DEF LiveInv, IInv, CallOrder
      <4>2. call.event \in Event
        BY <2>1 DEF Call
      <4> QED
        BY <4>1, <4>2 DEF IsMessage, Event
    <3>2. snapshot' = snapshot
      BY <2>5, <3>1 DEF HandleControllerEvent, ApplyEvent
    <3> QED
      BY <1>1, <1>5, <2>2, <2>4, <2>6, <3>2 DEF LiveInv, LiveButtons
  <2>7. CASE link.stage = "open"
    <3>1. IsMessage(call.event) /\ BaseState(nextGeneration) = RetainedState
          /\ cancelledThrough = nextGeneration - 1
      BY <1>5, <2>7, PlayingFacts DEF LiveInv
    <3>2. ~ Cancelled(held.generation)
      BY <2>5, <3>1 DEF Cancelled, LiveInv, IInv, TypeOK
    <3>3. ApplyEvent(call.event, nextGeneration)
      BY <2>5, <3>2 DEF HandleControllerEvent
    <3>4. snapshot' = [generation |-> nextGeneration, state |-> Pressed(call.event, RetainedState)]
      BY <3>1, <3>3 DEF ApplyEvent, IsMessage
    <3>5. Pressed(call.event, RetainedState) = link.buttons
      BY <1>5, <2>7 DEF LiveInv, LiveButtons
    <3>6. snapshot' # None
      <4>1. snapshot' \in Snapshot \cup {None} 
        BY DEF IInv, TypeOK
      <4>2. owner' # None
        BY <1>1, <2>7, <1>5 DEF IInv, PublisherOrder
      <4>3. nextGeneration \in Generation /\ link.buttons \in SUBSET Button
        BY <1>5, <2>5 DEF LiveInv, IInv, TypeOK, PublisherOrder, Controller, Link, GenerationOrder
      <4>4. [generation |-> nextGeneration, state |-> link.buttons] \in Snapshot
        BY <4>3 DEF Snapshot
      <4> QED
        BY <3>4, <3>5, <4>4, NoneAssumption
    <3>7. RetainedState' = link'.buttons
      BY <1>1, <3>4, <3>5, <3>6 DEF RetainedState
    <3> QED
      BY <1>1, <2>2, <2>4, <2>7, <3>7 DEF LiveInv, LiveButtons
  <2> QED
    BY <1>5, <2>6, <2>7 DEF LiveInv, IInv, TypeOK, Link
<1> QED
  BY <1>1, <1>2, <1>3, <1>4, <1>5, HeldIsOlderOrAwaited

\* With the worker gone the channel is empty, and a caller gets an error.
LEMMA LiveShutdown ==
  ASSUME LiveInv, IInv', HandleShutdown
  PROVE  LiveInv'
<1>1. /\ UNCHANGED <<link, current, nextGeneration, snapshot>>
      /\ held' = None /\ queue' = <<>>
      /\ call' = IF call # None /\ call.step = "wait"
                   THEN [call EXCEPT !.step = "err"] ELSE call
  BY DEF HandleShutdown, barrier, remote
<1>2. AllOlder'
  BY <1>1 DEF AllOlder
<1>3. CASE call # None /\ call.step = "wait"
  <2>1. call \in Call /\ call' = [call EXCEPT !.step = "err"]
    BY <1>1, <1>3 DEF LiveInv, IInv, TypeOK
  <2>2. call' \in Call /\ call'.step = "err"
    BY <2>1 DEF Call, Generation
  <2>3. call' # None
    BY <2>2, NoneIsNothing
  <2> QED
    BY <1>1, <2>2, <2>3 DEF LiveInv, LiveChannel, LiveButtons
<1>4. CASE ~ (call # None /\ call.step = "wait")
  BY <1>1, <1>2, <1>4 DEF LiveInv, LiveChannel, LiveButtons, RetainedState, Pressed
<1> QED
  BY <1>3, <1>4

LEMMA LiveNext == LiveInv /\ [Next]_vars => LiveInv'
<1> SUFFICES ASSUME LiveInv, [Next]_vars PROVE LiveInv'
  OBVIOUS
<1>1. IInv'
  BY InvNext DEF LiveInv
<1>2. CASE UNCHANGED vars
  BY <1>1, <1>2 DEF LiveInv, LiveChannel, LiveButtons, vars, publisher, barrier, worker, remote,
     AllOlder, OneIsNewest, Older, NoEventAfter, EventCommand, RetainedState, Pressed
<1>3. CASE Next
  BY <1>1, <1>3, LiveLink, LivePublish, LiveSend, LiveUi, LiveCore, LiveReceive,
     LiveDrain, LiveHandle, LiveShutdown
  DEF Next, PublisherStep, WorkerStep
<1> QED
  BY <1>2, <1>3

\* While a phone plays and no report of its is under way, the game holds
\* exactly the buttons that the phone reported, for any number of connections,
\* any size of the channel and whatever commands, late or of earlier
\* connections, still wait in it (runtime.rs: prepare, the handler's check of
\* the barrier, apply_controller_event).
THEOREM LiveButtonsReachTheGame == Spec => []LiveControllerReachesGame
<1>1. LiveInv => LiveControllerReachesGame
  BY DEF LiveInv, LiveButtons, LiveControllerReachesGame
<1> QED
  BY <1>1, LiveInit, LiveNext, PTL DEF Spec

\* A disconnection that was reported back as done left nothing behind, for any
\* queue length and any number of calls that timed out before.
THEOREM DisconnectBarrier == Spec => []AnsweredDisconnectIsComplete
<1>1. IInv => AnsweredDisconnectIsComplete
  <2> SUFFICES ASSUME IInv, call # None, call.step = "ok",
                      call.event.kind = "disconnected"
               PROVE  /\ RetainedState = {}
                      /\ owner = None
                      /\ core # None => core.remote = {}
    BY DEF AnsweredDisconnectIsComplete
  <2>1. call.generation = nextGeneration /\ nextGeneration <= clearedThrough
    BY DEF IInv, CallOrder
  <2>2. owner = None
    BY <2>1 DEF IInv, TypeOK, GenerationOrder
  <2> QED
    BY <2>2 DEF IInv, GenerationOrder, RetainedMatchesCore, RetainedState
<1> QED
  BY <1>1, InductiveInvariant, PTL

\* The worker implements the promise of RemotePad: its drain is a release, a
\* connected event that is not cancelled takes a free pad, an input event is a
\* play of the holder, and every other step leaves the pad alone.
THEOREM ImplementsRemotePad == Spec => PadSpec
<1> DEFINE holder == IF owner = None THEN 0 ELSE owner.generation
<1>1. Init => Pad!Init
  BY DEF Init, Pad!Init, RetainedState
<1>2. IInv /\ IInv' /\ [Next]_vars => [Pad!Next]_(Pad!vars)
  <2> SUFFICES ASSUME IInv, IInv', [Next]_vars
               PROVE  Pad!Next \/ UNCHANGED Pad!vars
    BY DEF Pad!vars
  <2> USE DEF worker, remote, barrier, publisher
  <2>1. CASE UNCHANGED <<owner, snapshot, clearedThrough>>
    BY <2>1 DEF Pad!vars, RetainedState
  <2>2. CASE WorkerDrain
    <3>1. CASE cancelledThrough <= clearedThrough
      BY <2>2, <3>1 DEF WorkerDrain, DrainCancelled, Pad!vars, RetainedState
    <3>2. CASE ~ (cancelledThrough <= clearedThrough)
      <4>1. /\ clearedThrough' = cancelledThrough
            /\ cancelledThrough > clearedThrough
            /\ cancelledThrough \in 1 .. MaxGeneration
        BY <2>2, <3>2, GenerationAssumption DEF WorkerDrain, DrainCancelled,
           IInv, TypeOK
      <4>2. holder <= cancelledThrough
        BY <4>1, DrainFindsOwnerCancelled DEF IInv, TypeOK, GenerationOrder
      <4>3. owner' = None /\ snapshot' = None
        BY <2>2, <3>2, <4>1, DrainFindsOwnerCancelled
        DEF WorkerDrain, DrainCancelled, IInv, TypeOK, GenerationOrder
      <4> QED
        BY <4>1, <4>2, <4>3 DEF Pad!Next, Pad!Release, Pad!Generation, RetainedState
    <3> QED
      BY <3>1, <3>2
  <2>3. CASE HandleControllerEvent
    <3>1. CASE Cancelled(held.generation)
      BY <2>1, <2>3, <3>1 DEF HandleControllerEvent
    <3>2. CASE ~ Cancelled(held.generation)
      <4>1. held # None /\ held \in Command /\ held.op = "controller"
        BY <2>3, NoneIsNothing DEF HandleControllerEvent, Handling, IInv, TypeOK
      <4>2. held.generation > cancelledThrough
        BY <3>2, <4>1, ControllerCommandShape DEF Cancelled, IInv, TypeOK, Generation
      <4>3. /\ held.event \in Event /\ held.generation \in Generation
            /\ held.generation = clearedThrough + 1
            /\ clearedThrough' = clearedThrough
            /\ ApplyEvent(held.event, held.generation)
        BY <2>3, <3>2, <4>2, LiveCommandIsNewest DEF HandleControllerEvent
      <4>4. owner # None => owner.generation = held.generation
        BY <4>3 DEF IInv, GenerationOrder
      <4>5. CASE held.event.kind = "disconnected"
        BY <2>1, <4>3, <4>5 DEF ApplyEvent
      <4>6. CASE held.event.kind # "disconnected"
        <5>1. owner' = [id |-> held.event.id, generation |-> held.generation]
          BY <4>3, <4>6 DEF ApplyEvent
        <5>2. owner' # None /\ owner'.generation = held.generation
          <6>1. owner' \in Controller
            BY <4>3, <5>1 DEF Controller, Event
          <6> QED
            BY <5>1, <6>1, NoneIsNothing
        <5>3. CASE held.event.kind = "connected"
          <6>1. snapshot' = snapshot
            BY <4>3, <5>3 DEF ApplyEvent
          <6> QED
            BY <4>3, <4>4, <5>2, <6>1
            DEF Pad!Next, Pad!Attach, Pad!vars, Pad!Generation, RetainedState, Generation
        <5>4. CASE held.event.kind # "connected"
          <6>1. owner # None
            BY <4>1, <4>2, <4>3, <4>6, <5>4
            DEF IInv, ChannelOrder, CommandOrder, IsMessage, Event
          <6>2. RetainedState' \in SUBSET Button
            BY DEF IInv, TypeOK, RetainedState, Snapshot
          <6>3. holder # 0 /\ holder' = holder
            BY <4>3, <4>4, <5>2, <6>1 DEF Generation
          <6> QED
            BY <4>3, <6>2, <6>3 DEF Pad!Next, Pad!Play
        <5> QED
          BY <5>3, <5>4
      <4> QED
        BY <4>5, <4>6
    <3> QED
      BY <3>1, <3>2
  <2>4. \/ WorkerDrain \/ HandleControllerEvent
        \/ UNCHANGED <<owner, snapshot, clearedThrough>>
    BY DEF Next, PublisherStep, WorkerStep, vars, Accept, Refuse, PublishConnected,
       PublishMessage, PublishDisconnected, PublishUnknownDisconnected, SendCommand,
       SendFails, ResponseTimeout, Return, UiRequest, Shutdown, WorkerTick,
       WorkerNoTick, WorkerReceive, WorkerReceiveTimeout, HandleOpenRom, HandleStart,
       HandlePause, HandleRestart, HandleClose, HandleKeyboard, HandleOther,
       HandleShutdown
  <2> QED
    BY <2>1, <2>2, <2>3, <2>4
<1> QED
  BY <1>1, <1>2, InductiveInvariant, PTL DEF Spec, PadSpec, Pad!Spec
=============================================================================
