------------------------ MODULE RemoteSessionProofs ------------------------
(* The session of any number of callers, observers and phones: what an      *)
(* observer was given last, what a phone is shown, and what an end leaves.   *)
EXTENDS RemoteSession, FiniteSetTheorems, TLAPS

(* The strengthened invariant: the epochs, the deliveries and the session.  *)

Waiting == {c \in Caller : At(c, "wait") \/ At(c, "woken")}
InSession(c) == caller[c].pc \in StartPc

\* Every caller that waits will find an epoch; one in the session has its own.
Epochs ==
  /\ epoch + Cardinality(Waiting) <= MaxEpoch
  /\ \A c \in Caller : InSession(c) => epoch \in Server

Typed == TypeOK /\ Epochs

\* The deliveries that are under way.
Pending == {caller[c].delivery : c \in {d \in Caller : At(d, "publish")}}
             \cup (IF SocketAt("publish") THEN {socket.delivery} ELSE {})

\* The latest delivery is on its way and will not be dropped ...
Coming(d) ==
  /\ d.snapshot = model /\ d.observer = observer
  /\ lastRevision < d.revision
  /\ \A e \in Pending : e = d \/ e.revision < d.revision

\* ... or it arrived, and all that is on its way will be dropped.
Arrived ==
  /\ observer # None => shown[observer] = model
  /\ \A e \in Pending : e.revision <= lastRevision

Delivering ==
  /\ lastRevision <= revision
  /\ \A e \in Pending : e.revision <= revision
  /\ Arrived \/ \E d \in Pending : Coming(d)

\* The lifecycle belongs to one call at a time.
Busy(c) == \/ InSession(c) \/ At(c, "complete")
           \/ At(c, "publish") /\ caller[c].op # "Subscribe"

Exclusive ==
  /\ \A c \in Caller : Busy(c) => operation # Idle
  /\ \A c, d \in Caller : Busy(c) /\ Busy(d) => c = d

Holds(c, s) == caller[c].pc \in {"signal", "join", "install"} /\ caller[c].held = s

HasEnded(c) == /\ At(c, "publish") \/ At(c, "complete")
               /\ caller[c].op = "Ending" /\ caller[c].ok

\* What the call that has the lifecycle knows of the server.
Knows(c) ==
  /\ (InSession(c) /\ ~ At(c, "announce")) => server = None
  /\ caller[c].pc \in {"launch", "install", "announce"} => caller[c].op = "Starting"
  /\ At(c, "signal") => caller[c].held # None /\ status[caller[c].held] = "paired"
  /\ At(c, "join") => caller[c].held # None /\ status[caller[c].held] = "closing"
  /\ At(c, "install") => caller[c].held # None /\ status[caller[c].held] = "bound"
  /\ At(c, "announce") => server # None /\ status[server] = "bound"
  /\ HasEnded(c) => server = None /\ model.phase = "Off"

\* A server that runs is the one installed, or held by the call.
Running(s) == status[s] \in {"bound", "paired", "closing"}

Listening ==
  /\ \A s \in Server : Running(s) => s = server \/ \E c \in Caller : Holds(c, s)
  /\ server # None => \/ status[server] = "paired"
                      \/ status[server] = "bound" /\ \E c \in Caller : At(c, "announce")

\* A socket is one of a server whose URL was shown, and whose URL is shown.
Serves(s) == status[s] \in {"paired", "closing"}
Playing == /\ socket # None
           /\ \/ socket.pc \in {"open", "play", "record"}
              \/ socket.pc = "publish" /\ socket.next = "open"

Attached ==
  /\ knock # None => Serves(knock)
  /\ socket # None => Serves(socket.server)
  /\ \A s \in Server :
       (Serves(s) /\ model.phase \in {"Waiting", "Connected"}) => model.pairing = s

\* What the socket task read, or did, before its next step still holds.
Remembers ==
  /\ SocketAt("disconnectEnded") => server = None
  /\ SocketAt("disconnectActive") => model.phase # "Off"
  /\ (SocketAt("fail") \/ SocketAt("failLast")) => (server # None => restartRequired)
  /\ Playing => model = [phase |-> "Connected", pairing |-> socket.server,
                         controller |-> socket.id]

\* Between the calls that change the server the phase tells the truth.
Truthful ==
  /\ model.phase \in {"Waiting", "Connected"} =>
       model.pairing # None /\ model.pairing = server /\ status[server] = "paired"
  /\ model.phase = "Off" => server = None
  /\ (model.phase = "Error" /\ server # None) => restartRequired

Settled == (\A c \in Caller : ~ InSession(c)) => Truthful

Governed == Exclusive /\ \A c \in Caller : Knows(c)
Session == Governed /\ Listening /\ Attached /\ Remembers /\ Settled

SessionInv == Typed /\ Delivering /\ Session

-----------------------------------------------------------------------------
(* Types.                                                                   *)

InCall == [pc : StartPc, op : {"Starting", "Ending"}, held : Server \cup {None}]
InPublish == [pc : {"publish"}, op : {"Starting", "Ending", "Subscribe"},
              ok : BOOLEAN, delivery : Delivery]
InCompletion == [pc : {"complete"}, op : {"Starting", "Ending"}, ok : BOOLEAN]

LEMMA Bounds ==
  /\ MaxEpoch \in Nat /\ MaxRevision \in Nat /\ IsFiniteSet(Caller)
  /\ None \notin Server /\ None \notin Socket /\ None \notin Observer
  BY CallerAssumption, EpochAssumption, RevisionAssumption, NoneAssumption

\* What a caller carries depends on where it is.
LEMMA CallerShape ==
  ASSUME TypeOK, NEW c \in Caller
  PROVE  /\ InSession(c) => caller[c] \in InCall
         /\ At(c, "publish") => caller[c] \in InPublish
         /\ At(c, "complete") => caller[c] \in InCompletion
<1>1. caller[c] \in CallerState
  BY DEF TypeOK
<1>2. CASE caller[c] \in [pc : {"idle", "wait", "woken"}]
  BY <1>2 DEF At, InSession, StartPc
<1>3. CASE caller[c] \in InCall
  BY <1>3 DEF At, InSession, StartPc, InCall
<1>4. CASE caller[c] \in InPublish
  BY <1>4 DEF At, InSession, StartPc, InPublish
<1>5. CASE caller[c] \in InCompletion
  BY <1>5 DEF At, InSession, StartPc, InCompletion
<1> QED
  BY <1>1, <1>2, <1>3, <1>4, <1>5 DEF CallerState, InCall, InPublish, InCompletion

LEMMA SocketShape ==
  ASSUME TypeOK, socket # None
  PROVE  /\ socket \in Socket /\ socket.server \in Server /\ socket.id \in Connection
         /\ socket.pc = "publish" =>
              /\ socket.next \in {"open", "closing", "gone"}
              /\ socket.delivery \in Delivery
<1>1. socket \in Socket
  BY DEF TypeOK
<1> QED
  BY <1>1 DEF Socket, SocketPc

\* The forms that the next state of a caller takes.
LEMMA CallerForms ==
  /\ \A pc \in {"idle", "wait", "woken"} : [pc |-> pc] \in CallerState
  /\ \A r \in InCall : r \in CallerState
  /\ \A r \in InPublish : r \in CallerState
  /\ \A r \in InCompletion : r \in CallerState
  BY DEF CallerState, InCall, InPublish, InCompletion

LEMMA SocketForms ==
  ASSUME NEW s \in Server, NEW id \in Connection
  PROVE  /\ \A pc \in SocketPc : [server |-> s, id |-> id, pc |-> pc] \in Socket
         /\ \A next \in {"open", "closing", "gone"}, d \in Delivery :
              [server |-> s, id |-> id, pc |-> "publish", next |-> next,
               delivery |-> d] \in Socket
  BY DEF Socket

LEMMA Rest ==
  ASSUME TypeOK, NEW c \in Caller, NEW next \in CallerState, Goto(c, next)
  PROVE  /\ caller' \in [Caller -> CallerState]
         /\ caller'[c] = next
         /\ \A d \in Caller \ {c} : caller'[d] = caller[d]
  BY DEF TypeOK, Goto

LEMMA WaitingIsFinite ==
  ASSUME TypeOK
  PROVE  IsFiniteSet(Waiting) /\ Cardinality(Waiting) \in Nat
<1>1. Waiting \in SUBSET Caller
  BY DEF Waiting
<1> QED
  BY <1>1, Bounds, FS_Subset, FS_CardinalityType

\* A caller goes on in its call, or begins or ends a subscription.
LEMMA Moves ==
  ASSUME Typed, NEW c \in Caller, NEW next \in CallerState, Goto(c, next),
         ~ At(c, "wait"), ~ At(c, "woken"), next.pc \notin {"wait", "woken"},
         next.pc \in StartPc => InSession(c), UNCHANGED epoch
  PROVE  caller' \in [Caller -> CallerState] /\ Epochs'
<1>1. /\ caller' \in [Caller -> CallerState] /\ caller'[c] = next
      /\ \A d \in Caller \ {c} : caller'[d] = caller[d]
  BY Rest DEF Typed
<1>2. Waiting' = Waiting
  BY <1>1 DEF Waiting, At
<1> QED
  BY <1>1, <1>2 DEF Typed, Epochs, InSession

\* A call that claims the lifecycle uses the epoch that was kept for it.
LEMMA Claims ==
  ASSUME Typed, NEW c \in Caller, NEW next \in InCall, Goto(c, next),
         \/ At(c, "idle") /\ EpochLeft
         \/ At(c, "woken"),
         epoch' = epoch + 1
  PROVE  /\ caller' \in [Caller -> CallerState] /\ Epochs'
         /\ epoch' \in Server
<1>1. /\ caller' \in [Caller -> CallerState] /\ caller'[c] = next
      /\ \A d \in Caller \ {c} : caller'[d] = caller[d]
  BY Rest, CallerForms DEF Typed
<1>2. next.pc \in StartPc
  BY DEF InCall
<1>3. Waiting' = Waiting \ {c}
  BY <1>1, <1>2 DEF Waiting, At, StartPc
<1>4. /\ Cardinality(Waiting) \in Nat /\ IsFiniteSet(Waiting)
      /\ Cardinality(Waiting') \in Nat
      /\ Cardinality(Waiting') = IF c \in Waiting THEN Cardinality(Waiting) - 1
                                                  ELSE Cardinality(Waiting)
  <2>1. IsFiniteSet(Waiting) /\ Cardinality(Waiting) \in Nat
    BY WaitingIsFinite DEF Typed
  <2>2. IsFiniteSet(Waiting \ {c})
    BY <2>1, FS_RemoveElement
  <2> QED
    BY <1>3, <2>1, <2>2, FS_RemoveElement, FS_CardinalityType
<1>5. epoch' + Cardinality(Waiting') <= MaxEpoch
  <2>1. epoch \in Nat /\ MaxEpoch \in Nat
    BY Bounds DEF Typed, TypeOK
  <2>2. CASE At(c, "woken")
    <3>1. c \in Waiting
      BY <2>2 DEF Waiting
    <3> QED
      BY <1>4, <2>1, <3>1 DEF Typed, Epochs
  <2>3. CASE At(c, "idle") /\ EpochLeft
    <3>1. epoch + Cardinality(Waiting) < MaxEpoch
      BY <2>3 DEF EpochLeft, Waiting
    <3>2. c \notin Waiting
      BY <2>3 DEF Waiting, At
    <3> QED
      BY <1>4, <2>1, <3>1, <3>2
  <2> QED
    BY <2>2, <2>3
<1>6. epoch' \in Server
  BY <1>4, <1>5, Bounds DEF Typed, TypeOK, Server
<1> QED
  BY <1>1, <1>5, <1>6 DEF Epochs, InSession

\* The steps of the sockets leave the callers and their epochs alone.
LEMMA CallersStay ==
  ASSUME Typed, UNCHANGED <<caller, lifecycle>>
  PROVE  Epochs'
<1>1. Waiting' = Waiting
  BY DEF Waiting, At
<1> QED
  BY <1>1 DEF Typed, Epochs, InSession, lifecycle

\* What each variable ranges over, grouped as the actions change them.
SessionTyped == model \in Model /\ observer \in Observer \cup {None} /\ revision \in Nat
DeliveredTyped == lastRevision \in Nat /\ shown \in [Observer -> Model \cup {None}]
LifecycleTyped == /\ operation \in Operation /\ epoch \in 0 .. MaxEpoch
                  /\ server \in Server \cup {None} /\ restartRequired \in BOOLEAN
StatusTyped == status \in [Server -> {"none", "bound", "paired", "closing", "gone"}]

LEMMA TypeParts ==
  /\ TypeOK <=> /\ SessionTyped /\ DeliveredTyped /\ LifecycleTyped
                /\ caller \in [Caller -> CallerState] /\ StatusTyped
                /\ knock \in Server \cup {None} /\ socket \in Socket \cup {None}
  /\ TypeOK' <=> /\ SessionTyped' /\ DeliveredTyped' /\ LifecycleTyped'
                 /\ (caller \in [Caller -> CallerState])' /\ StatusTyped'
                 /\ (knock \in Server \cup {None})' /\ (socket \in Socket \cup {None})'
  BY DEF TypeOK, SessionTyped, DeliveredTyped, LifecycleTyped, StatusTyped

LEMMA PartsStay ==
  /\ (SessionTyped /\ UNCHANGED session) => SessionTyped'
  /\ (DeliveredTyped /\ UNCHANGED delivered) => DeliveredTyped'
  /\ (LifecycleTyped /\ UNCHANGED lifecycle) => LifecycleTyped'
  /\ (StatusTyped /\ UNCHANGED status) => StatusTyped'
  BY DEF SessionTyped, DeliveredTyped, LifecycleTyped, StatusTyped, session, delivered,
         lifecycle

\* The models that the code makes are models.
LEMMA Models ==
  /\ TurnedOff \in Model /\ Failed \in Model
  /\ \A s \in Server \cup {None} : WaitForController(s) \in Model
  /\ SessionTyped =>
       /\ \A active \in BOOLEAN : Disconnected(active) \in Model
       /\ \A id \in Connection :
            [model EXCEPT !.phase = "Connected", !.controller = id] \in Model
  BY DEF TurnedOff, Failed, WaitForController, Disconnected, SessionTyped, Model, Phase

\* A revised model is delivered with its revision and observer.
LEMMA Revises ==
  ASSUME SessionTyped, NEW m \in Model, UpdateModel(m), observer' \in Observer \cup {None}
  PROVE  SessionTyped' /\ NextDelivery \in Delivery
  BY DEF SessionTyped, UpdateModel, NextDelivery, Delivery

LEMMA PublishTyped ==
  ASSUME DeliveredTyped, NEW d \in Delivery, PublishOrdered(d)
  PROVE  DeliveredTyped'
<1>1. d.revision \in Nat /\ d.snapshot \in Model
  BY DEF Delivery
<1>2. CASE d.revision <= lastRevision
  BY <1>2 DEF PublishOrdered, DeliveredTyped, delivered
<1>3. CASE ~ (d.revision <= lastRevision)
  BY <1>1, <1>3 DEF PublishOrdered, DeliveredTyped
<1> QED
  BY <1>2, <1>3

-----------------------------------------------------------------------------
(* The types hold along the steps of the callers ...                        *)

LEMMA ClaimTyped ==
  ASSUME Typed, NEW c \in Caller, NEW op \in {"Starting", "Ending"}, Claim(c, op),
         \/ At(c, "idle") /\ EpochLeft
         \/ At(c, "woken"),
         restartRequired' \in BOOLEAN, UNCHANGED <<session, delivered, network>>
  PROVE  Typed'
<1> DEFINE next == [pc |-> IF server # None THEN "signal"
                           ELSE IF op = "Starting" THEN "launch" ELSE "off",
                    op |-> op, held |-> server]
<1>1. next \in InCall
  BY DEF InCall, StartPc, Typed, TypeOK
<1>2. Goto(c, next) /\ epoch' = epoch + 1
  BY DEF Claim
<1> HIDE DEF next
<1>3. caller' \in [Caller -> CallerState] /\ Epochs' /\ epoch' \in Server
  BY <1>1, <1>2, Claims
<1>4. LifecycleTyped'
  BY <1>3 DEF Claim, LifecycleTyped, Operation, Server
<1> QED
  BY <1>3, <1>4, TypeParts, PartsStay DEF Typed, network

LEMMA EndTyped ==
  ASSUME Typed, NEW c \in Caller, End(c)
  PROVE  Typed'
<1>1. CASE operation = Idle
  BY <1>1, ClaimTyped DEF End, Typed, TypeOK
<1>2. CASE operation # Idle
  <2>1. /\ caller' \in [Caller -> CallerState] /\ caller'[c] = [pc |-> "wait"]
        /\ \A d \in Caller \ {c} : caller'[d] = caller[d]
    BY <1>2, Rest, CallerForms DEF End, Typed
  <2>2. UNCHANGED <<session, delivered, lifecycle, network>>
    BY <1>2 DEF End, lifecycle
  <2>3. Waiting' = Waiting \cup {c}
    BY <2>1 DEF Waiting, At
  <2>4. epoch + Cardinality(Waiting') <= MaxEpoch
    <3>1. /\ IsFiniteSet(Waiting) /\ Cardinality(Waiting) \in Nat /\ epoch \in Nat
          /\ MaxEpoch \in Nat
      BY WaitingIsFinite, Bounds DEF Typed, TypeOK
    <3>2. CASE At(c, "woken")
      <4>1. Waiting' = Waiting
        BY <2>3, <3>2 DEF Waiting
      <4> QED
        BY <4>1 DEF Typed, Epochs
    <3>3. CASE At(c, "idle") /\ EpochLeft
      <4>1. epoch + Cardinality(Waiting) < MaxEpoch
        BY <3>3 DEF EpochLeft, Waiting
      <4>2. c \notin Waiting
        BY <3>3 DEF Waiting, At
      <4>3. Cardinality(Waiting') = Cardinality(Waiting) + 1
        BY <2>3, <3>1, <4>2, FS_AddElement
      <4> QED
        BY <3>1, <4>1, <4>3
    <3> QED
      BY <3>2, <3>3 DEF End
  <2>5. Epochs'
    BY <2>1, <2>2, <2>4 DEF Typed, Epochs, InSession, StartPc, lifecycle
  <2> QED
    BY <2>1, <2>2, <2>5, TypeParts, PartsStay DEF Typed, network
<1> QED
  BY <1>1, <1>2

\* A caller that goes on in its session.
LEMMA GoesOn ==
  ASSUME Typed, NEW c \in Caller, InSession(c), NEW next \in CallerState, Goto(c, next),
         next.pc \notin {"wait", "woken"}, UNCHANGED epoch,
         SessionTyped', LifecycleTyped', StatusTyped', UNCHANGED delivered,
         (knock \in Server \cup {None})', (socket \in Socket \cup {None})'
  PROVE  Typed'
<1>1. ~ At(c, "wait") /\ ~ At(c, "woken")
  BY DEF InSession, StartPc, At
<1>2. caller' \in [Caller -> CallerState] /\ Epochs'
  BY <1>1, Moves
<1> QED
  BY <1>2, TypeParts, PartsStay DEF Typed

LEMMA ServerStepTyped ==
  ASSUME Typed, NEW c \in Caller,
         \/ SignalServer(c) \/ JoinServer(c) \/ JoinPanickedServer(c)
         \/ LaunchServer(c) \/ InstallServer(c)
  PROVE  Typed'
<1>1. InSession(c)
  BY DEF SignalServer, JoinServer, JoinPanickedServer, LaunchServer, InstallServer,
         At, InSession, StartPc
<1>2. caller[c] \in InCall /\ epoch \in Server
  BY <1>1, CallerShape DEF Typed, Epochs
<1>3. \A pc \in StartPc, held \in Server \cup {None} :
        /\ [caller[c] EXCEPT !.pc = pc, !.held = held] \in CallerState
        /\ [caller[c] EXCEPT !.pc = pc] \in CallerState
        /\ [caller[c] EXCEPT !.pc = pc, !.held = held].pc = pc
        /\ [caller[c] EXCEPT !.pc = pc].pc = pc
  <2> SUFFICES ASSUME NEW pc \in StartPc, NEW held \in Server \cup {None}
               PROVE  /\ [caller[c] EXCEPT !.pc = pc, !.held = held] \in InCall
                      /\ [caller[c] EXCEPT !.pc = pc] \in InCall
                      /\ [caller[c] EXCEPT !.pc = pc, !.held = held].pc = pc
                      /\ [caller[c] EXCEPT !.pc = pc].pc = pc
    BY CallerForms
  <2> QED
    BY <1>2 DEF InCall
<1>4. \A pc \in StartPc : pc \notin {"wait", "woken"}
  BY DEF StartPc
<1>5. SessionTyped /\ DeliveredTyped /\ LifecycleTyped /\ StatusTyped
  BY TypeParts DEF Typed
<1>6. CASE SignalServer(c)
  <2>1. StatusTyped'
    BY <1>5, <1>6 DEF SignalServer, StatusTyped
  <2>2. "join" \in StartPc
    BY DEF StartPc
  <2> QED
    BY <1>1, <1>3, <1>4, <1>5, <1>6, <2>1, <2>2, GoesOn, PartsStay
       DEF SignalServer, Typed, TypeOK, lifecycle
<1>7. CASE JoinServer(c)
  <2>1. StatusTyped'
    BY <1>5, <1>7 DEF JoinServer, StatusTyped
  <2>2. AfterShutdown(c) \in StartPc /\ None \in Server \cup {None}
    BY DEF AfterShutdown, StartPc
  <2> QED
    BY <1>1, <1>3, <1>4, <1>5, <1>7, <2>1, <2>2, GoesOn, PartsStay
       DEF JoinServer, Typed, TypeOK, lifecycle
<1>8. CASE JoinPanickedServer(c)
  <2>1. StatusTyped'
    BY <1>5, <1>8 DEF JoinPanickedServer, StatusTyped
  <2>2. "fail" \in StartPc /\ None \in Server \cup {None}
    BY DEF StartPc
  <2> QED
    BY <1>1, <1>3, <1>4, <1>5, <1>8, <2>1, <2>2, GoesOn, PartsStay
       DEF JoinPanickedServer, Typed, TypeOK, lifecycle
<1>9. CASE LaunchServer(c)
  <2>1. StatusTyped'
    BY <1>5, <1>9 DEF LaunchServer, StatusTyped
  <2>2. "install" \in StartPc /\ "fail" \in StartPc /\ epoch \in Server \cup {None}
    BY <1>2 DEF StartPc
  <2>3. \E next \in CallerState : Goto(c, next) /\ next.pc \notin {"wait", "woken"}
    BY <1>3, <1>4, <1>9, <2>2 DEF LaunchServer
  <2> QED
    BY <1>1, <1>5, <1>9, <2>1, <2>3, GoesOn, PartsStay
       DEF LaunchServer, Typed, TypeOK, lifecycle
<1>10. CASE InstallServer(c)
  <2>1. LifecycleTyped'
    BY <1>2, <1>5, <1>10 DEF InstallServer, LifecycleTyped, InCall
  <2>2. "announce" \in StartPc /\ None \in Server \cup {None}
    BY DEF StartPc
  <2> QED
    BY <1>1, <1>3, <1>4, <1>5, <1>10, <2>1, <2>2, GoesOn, PartsStay
       DEF InstallServer, Typed, TypeOK, network
<1> QED
  BY <1>6, <1>7, <1>8, <1>9, <1>10

LEMMA UpdateTyped ==
  ASSUME Typed, NEW c \in Caller, AnnounceServer(c) \/ FailCall(c) \/ TurnOff(c)
  PROVE  Typed'
<1>1. InSession(c)
  BY DEF AnnounceServer, FailCall, TurnOff, At, InSession, StartPc
<1>2. caller[c] \in InCall
  BY <1>1, CallerShape DEF Typed
<1>3. SessionTyped /\ DeliveredTyped /\ LifecycleTyped /\ StatusTyped
  BY TypeParts DEF Typed
<1>4. PICK m \in Model, ok \in BOOLEAN : Update(c, m, ok)
  BY <1>3, Models DEF AnnounceServer, FailCall, TurnOff, LifecycleTyped
<1>5. SessionTyped' /\ NextDelivery \in Delivery
  BY <1>3, <1>4, Revises DEF Update, SessionTyped
<1> DEFINE next == [pc |-> "publish", op |-> caller[c].op, ok |-> ok,
                    delivery |-> NextDelivery]
<1>6. next \in CallerState /\ next.pc = "publish" /\ Goto(c, next)
  BY <1>2, <1>4, <1>5, CallerForms DEF InPublish, InCall, Update
<1> HIDE DEF next
<1>7. StatusTyped' /\ UNCHANGED <<delivered, lifecycle, knock, socket>>
  BY <1>3 DEF AnnounceServer, FailCall, TurnOff, StatusTyped, network
<1> QED
  BY <1>1, <1>3, <1>5, <1>6, <1>7, GoesOn, PartsStay DEF Typed, TypeOK, lifecycle

LEMMA SubscribeTyped ==
  ASSUME Typed, NEW c \in Caller, NEW o \in Observer, Subscribe(c, o)
  PROVE  Typed'
<1>1. SessionTyped /\ DeliveredTyped /\ LifecycleTyped /\ StatusTyped
  BY TypeParts DEF Typed
<1>2. SessionTyped' /\ NextDelivery \in Delivery
  BY <1>1, Revises DEF Subscribe, SessionTyped
<1> DEFINE next == [pc |-> "publish", op |-> "Subscribe", ok |-> TRUE,
                    delivery |-> NextDelivery]
<1>3. next \in CallerState /\ next.pc = "publish" /\ Goto(c, next)
  BY <1>2, CallerForms DEF InPublish, Subscribe
<1> HIDE DEF next
<1>4. caller' \in [Caller -> CallerState] /\ Epochs'
  BY <1>3, Moves DEF Subscribe, At, StartPc, lifecycle
<1> QED
  BY <1>1, <1>2, <1>4, TypeParts, PartsStay DEF Subscribe, Typed, network

LEMMA PublishCallTyped ==
  ASSUME Typed, NEW c \in Caller, PublishCall(c)
  PROVE  Typed'
<1>1. SessionTyped /\ DeliveredTyped /\ LifecycleTyped /\ StatusTyped
  BY TypeParts DEF Typed
<1>2. caller[c] \in InPublish
  BY CallerShape DEF PublishCall, Typed
<1>3. DeliveredTyped'
  BY <1>1, <1>2, PublishTyped DEF PublishCall, InPublish
<1>4. \E next \in CallerState : Goto(c, next) /\ next.pc \in {"idle", "complete"}
  <2>1. CASE caller[c].op = "Subscribe"
    BY <2>1, CallerForms DEF PublishCall
  <2>2. CASE caller[c].op # "Subscribe"
    <3>1. [pc |-> "complete", op |-> caller[c].op, ok |-> caller[c].ok] \in InCompletion
      BY <1>2, <2>2 DEF InPublish, InCompletion
    <3> QED
      BY <2>2, <3>1, CallerForms DEF PublishCall
  <2> QED
    BY <2>1, <2>2
<1>5. caller' \in [Caller -> CallerState] /\ Epochs'
  BY <1>4, Moves DEF PublishCall, At, StartPc, lifecycle
<1> QED
  BY <1>1, <1>3, <1>5, TypeParts, PartsStay DEF PublishCall, Typed, network

LEMMA CompleteTyped ==
  ASSUME Typed, NEW c \in Caller, Complete(c)
  PROVE  Typed'
<1>1. \A d \in Caller :
        /\ d = c => caller'[d] = [pc |-> "idle"]
        /\ (d # c /\ At(d, "wait")) => caller'[d] = [pc |-> "woken"]
        /\ (d # c /\ ~ At(d, "wait")) => caller'[d] = caller[d]
  BY DEF Complete
<1>2. caller' \in [Caller -> CallerState]
  BY CallerForms DEF Complete, Typed, TypeOK
<1>3. Waiting' = Waiting
  BY <1>1 DEF Waiting, At, Complete
<1>4. \A d \in Caller : InSession(d)' => InSession(d)
  BY <1>1 DEF InSession, StartPc
<1>5. Epochs'
  BY <1>3, <1>4 DEF Complete, Epochs, Typed
<1>6. LifecycleTyped'
  BY DEF Complete, Typed, TypeOK, LifecycleTyped, Operation
<1> QED
  BY <1>2, <1>5, <1>6, TypeParts, PartsStay DEF Complete, Typed, network

(* ... and of the sockets.                                                  *)

LEMMA SocketGoes ==
  ASSUME Typed, socket # None, NEW pc \in SocketPc, SocketGoto(pc)
  PROVE  (socket \in Socket \cup {None})'
  BY SocketShape, SocketForms DEF Typed, SocketGoto

LEMMA SocketUpdateTyped ==
  ASSUME Typed, socket # None, NEW m \in Model, NEW next \in {"open", "closing", "gone"},
         SocketUpdate(m, next)
  PROVE  SessionTyped' /\ (socket \in Socket)' /\ (socket \in Socket \cup {None})'
<1>1. SessionTyped /\ socket.server \in Server /\ socket.id \in Connection
  BY SocketShape, TypeParts DEF Typed
<1>2. SessionTyped' /\ NextDelivery \in Delivery
  BY <1>1, Revises DEF SocketUpdate, SessionTyped
<1> QED
  BY <1>1, <1>2, SocketForms DEF SocketUpdate

\* A step of a socket that changes no call, no lifecycle but the mark.
LEMMA SocketSteps ==
  ASSUME Typed, UNCHANGED <<caller, operation, epoch, server, status>>,
         restartRequired' \in BOOLEAN, SessionTyped', DeliveredTyped',
         (knock \in Server \cup {None})', (socket \in Socket \cup {None})'
  PROVE  Typed'
<1>1. Waiting' = Waiting
  BY DEF Waiting, At
<1>2. Epochs' /\ LifecycleTyped' /\ StatusTyped' /\ (caller \in [Caller -> CallerState])'
  BY <1>1, TypeParts DEF Typed, Epochs, InSession, LifecycleTyped, StatusTyped
<1> QED
  BY <1>2, TypeParts DEF Typed

LEMMA SocketStepTyped ==
  ASSUME Typed, \/ \E s \in Server : Knock(s)
                \/ ReceiveMessage \/ CloseSocket \/ SocketStep
  PROVE  Typed'
<1>1. SessionTyped /\ DeliveredTyped /\ LifecycleTyped /\ StatusTyped
  BY TypeParts DEF Typed
<1>2. /\ knock \in Server \cup {None} /\ socket \in Socket \cup {None}
      /\ restartRequired \in BOOLEAN
  BY DEF Typed, TypeOK
<1>3. \A pc : SocketAt(pc) => socket # None
  BY DEF SocketAt
<1>4. CASE (\E s \in Server : Knock(s)) \/ RejectSocket
  BY <1>1, <1>2, <1>4, SocketSteps, PartsStay DEF Knock, RejectSocket, lifecycle
<1>5. CASE \E id \in Connection : ClaimSeat(id)
  <2>1. PICK id \in Connection : ClaimSeat(id)
    BY <1>5
  <2>2. (socket \in Socket \cup {None})' /\ (knock \in Server \cup {None})'
    BY <1>2, <2>1, SocketForms DEF ClaimSeat, SocketPc
  <2> QED
    BY <1>1, <1>2, <2>1, <2>2, SocketSteps, PartsStay DEF ClaimSeat, lifecycle
<1>6. CASE \/ CheckPhase \/ AttachToRuntime \/ PlayOnRuntime \/ ReleaseFromRuntime
           \/ ReceiveMessage \/ CloseSocket \/ ReadServerActive
  <2>1. socket # None /\ \E pc \in SocketPc : SocketGoto(pc)
    BY <1>3, <1>6 DEF CheckPhase, AttachToRuntime, PlayOnRuntime, ReleaseFromRuntime,
       CallRuntime, ReceiveMessage, CloseSocket, ReadServerActive, SocketPc
  <2>2. UNCHANGED <<session, delivered, lifecycle, caller, status, knock>>
    BY <1>6 DEF CheckPhase, AttachToRuntime, PlayOnRuntime, ReleaseFromRuntime,
       CallRuntime, ReceiveMessage, CloseSocket, ReadServerActive
  <2> QED
    BY <1>1, <1>2, <2>1, <2>2, SocketGoes, SocketSteps, PartsStay DEF lifecycle
<1>7. CASE ConnectModel
  <2>1. socket # None /\ UNCHANGED <<delivered, lifecycle, caller, status, knock>>
    BY <1>3, <1>7 DEF ConnectModel
  <2>2. CASE model.phase = "Waiting"
    <3>1. socket.id \in Connection
      BY <2>1, SocketShape DEF Typed
    <3>2. [model EXCEPT !.phase = "Connected", !.controller = socket.id] \in Model
      BY <1>1, <3>1, Models
    <3>3. SessionTyped' /\ (socket \in Socket \cup {None})'
      BY <1>7, <2>1, <2>2, <3>2, SocketUpdateTyped DEF ConnectModel
    <3> QED
      BY <1>1, <1>2, <2>1, <3>3, SocketSteps, PartsStay DEF lifecycle
  <2>3. CASE model.phase # "Waiting"
    <3>1. (socket \in Socket \cup {None})' /\ UNCHANGED session
      BY <1>7, <2>1, <2>3, SocketGoes DEF ConnectModel, SocketPc
    <3> QED
      BY <1>1, <1>2, <2>1, <3>1, SocketSteps, PartsStay DEF lifecycle
  <2> QED
    BY <2>2, <2>3
<1>8. CASE PublishSocket
  <2>1. /\ socket # None /\ socket.delivery \in Delivery
        /\ socket.next \in {"open", "closing", "gone"}
    BY <1>8, SocketShape DEF PublishSocket, SocketAt, Typed
  <2>2. DeliveredTyped'
    BY <1>1, <1>8, <2>1, PublishTyped DEF PublishSocket
  <2>3. (socket \in Socket \cup {None})'
    BY <1>8, <2>1, SocketGoes DEF PublishSocket, SocketPc
  <2> QED
    BY <1>1, <1>2, <1>8, <2>2, <2>3, SocketSteps, PartsStay DEF PublishSocket, lifecycle
<1>9. CASE RecordLatency
  <2>1. (socket \in Socket \cup {None})'
    BY <1>3, <1>9, SocketGoes DEF RecordLatency, SocketPc
  <2>2. SessionTyped'
    BY <1>1, <1>9 DEF RecordLatency, SessionTyped, UpdateModel
  <2> QED
    BY <1>1, <1>2, <1>9, <2>1, <2>2, SocketSteps, PartsStay DEF RecordLatency, lifecycle
<1>10. CASE DisconnectModel
  <2>1. socket # None /\ UNCHANGED <<delivered, lifecycle, caller, status, knock>>
    BY <1>3, <1>10 DEF DisconnectModel
  <2>2. CASE model.phase = "Error"
    BY <1>1, <1>2, <1>10, <2>1, <2>2, SocketSteps, PartsStay DEF DisconnectModel, lifecycle
  <2>3. CASE model.phase # "Error"
    <3>1. SessionTyped' /\ (socket \in Socket \cup {None})'
      BY <1>1, <1>10, <2>1, <2>3, Models, SocketUpdateTyped DEF DisconnectModel
    <3> QED
      BY <1>1, <1>2, <2>1, <3>1, SocketSteps, PartsStay DEF lifecycle
  <2> QED
    BY <2>2, <2>3
<1>11. CASE RequireRestart
  <2>1. (socket \in Socket \cup {None})'
    BY <1>3, <1>11, SocketGoes DEF RequireRestart, SocketPc
  <2> QED
    BY <1>1, <1>2, <1>11, <2>1, SocketSteps, PartsStay DEF RequireRestart, lifecycle
<1>12. CASE FailSession
  <2>1. SessionTyped' /\ (socket \in Socket \cup {None})'
    BY <1>3, <1>12, Models, SocketUpdateTyped DEF FailSession
  <2> QED
    BY <1>1, <1>2, <1>12, <2>1, SocketSteps, PartsStay DEF FailSession, lifecycle
<1> QED
  BY <1>4, <1>5, <1>6, <1>7, <1>8, <1>9, <1>10, <1>11, <1>12 DEF SocketStep

\* What the callers do, one disjunct for each proof below.
CallerSteps(c) ==
  \/ Start(c)
  \/ End(c)
  \/ SignalServer(c) \/ JoinServer(c) \/ JoinPanickedServer(c)
  \/ LaunchServer(c) \/ InstallServer(c)
  \/ AnnounceServer(c) \/ FailCall(c) \/ TurnOff(c)
  \/ \E o \in Observer : Subscribe(c, o)
  \/ PublishCall(c)
  \/ Complete(c)

SocketSide == \/ \E s \in Server : Knock(s)
              \/ ReceiveMessage \/ CloseSocket \/ SocketStep

LEMMA Sides ==
  ASSUME Next
  PROVE  UNCHANGED vars \/ (\E c \in Caller : CallerSteps(c)) \/ SocketSide
  BY DEF Next, ReadSnapshot, CallerStep, CallerSteps, SocketSide

LEMMA TypedStep ==
  ASSUME Typed, [Next]_vars
  PROVE  Typed'
<1>1. CASE UNCHANGED vars
  <2>1. Epochs' /\ UNCHANGED <<session, delivered, lifecycle, caller, network>>
    BY <1>1, CallersStay DEF vars
  <2> QED
    BY <2>1, TypeParts, PartsStay DEF Typed, network
<1>2. ASSUME NEW c \in Caller, CallerSteps(c) PROVE Typed'
  <2>1. CASE Start(c)
    BY <2>1, ClaimTyped DEF Start
  <2>2. CASE End(c)
    BY <2>2, EndTyped
  <2>3. CASE \/ SignalServer(c) \/ JoinServer(c) \/ JoinPanickedServer(c)
             \/ LaunchServer(c) \/ InstallServer(c)
    BY <2>3, ServerStepTyped
  <2>4. CASE AnnounceServer(c) \/ FailCall(c) \/ TurnOff(c)
    BY <2>4, UpdateTyped
  <2>5. CASE \E o \in Observer : Subscribe(c, o)
    BY <2>5, SubscribeTyped
  <2>6. CASE PublishCall(c) \/ Complete(c)
    BY <2>6, PublishCallTyped, CompleteTyped
  <2> QED
    BY <1>2, <2>1, <2>2, <2>3, <2>4, <2>5, <2>6 DEF CallerSteps
<1>3. CASE SocketSide
  BY <1>3, SocketStepTyped DEF SocketSide
<1> QED
  BY <1>1, <1>2, <1>3, Sides

LEMMA TypedInit == Init => Typed
<1> SUFFICES ASSUME Init PROVE Typed
  OBVIOUS
<1>1. \A c \in Caller : caller[c] = [pc |-> "idle"]
  BY DEF Init
<1>2. Waiting = {} /\ epoch = 0
  BY <1>1 DEF Waiting, At, Init
<1>3. Epochs
  BY <1>1, <1>2, FS_EmptySet, Bounds DEF Epochs, InSession, StartPc
<1>4. caller \in [Caller -> CallerState]
  BY CallerForms DEF Init
<1>5. TypeOK
  <2>1. model \in Model /\ operation \in Operation /\ epoch \in 0 .. MaxEpoch
    BY Bounds DEF Init, Model, Phase, Operation, Idle
  <2> QED
    BY <1>4, <2>1 DEF Init, TypeOK
<1> QED
  BY <1>3, <1>5 DEF Typed

-----------------------------------------------------------------------------
(* Deliveries: the latest one arrives, whatever overtakes it.               *)

LEMMA PendingTyped ==
  ASSUME TypeOK
  PROVE  \A d \in Pending : d \in Delivery /\ d.revision \in Nat
<1>1. \A c \in Caller : At(c, "publish") => caller[c].delivery \in Delivery
  BY CallerShape DEF InPublish
<1>2. SocketAt("publish") => socket.delivery \in Delivery
  BY SocketShape DEF SocketAt
<1> QED
  BY <1>1, <1>2 DEF Pending, Delivery

\* What a caller, or the socket, brings to the deliveries when it moves.
LEMMA PendingOfCaller ==
  ASSUME NEW c \in Caller, UNCHANGED socket,
         \A d \in Caller \ {c} : caller'[d] = caller[d]
  PROVE  /\ ~ At(c, "publish") => Pending \subseteq Pending'
         /\ ~ At(c, "publish")' => Pending' \subseteq Pending
         /\ At(c, "publish") => Pending \subseteq Pending' \cup {caller[c].delivery}
         /\ At(c, "publish")' => /\ Pending' \subseteq Pending \cup {caller'[c].delivery}
                                 /\ caller'[c].delivery \in Pending'
  BY DEF Pending, At, SocketAt

LEMMA PendingOfSocket ==
  ASSUME UNCHANGED caller
  PROVE  /\ ~ SocketAt("publish") => Pending \subseteq Pending'
         /\ ~ SocketAt("publish")' => Pending' \subseteq Pending
         /\ SocketAt("publish") => Pending \subseteq Pending' \cup {socket.delivery}
         /\ SocketAt("publish")' => /\ Pending' \subseteq Pending \cup {socket'.delivery}
                                    /\ socket'.delivery \in Pending'
  BY DEF Pending, At, SocketAt

\* Nothing is delivered, and the model and the observer stay.
LEMMA DeliveriesStay ==
  ASSUME Typed, Delivering, Pending' = Pending, UNCHANGED <<model, observer, delivered>>,
         revision' \in {revision, revision + 1}
  PROVE  Delivering'
<1>1. revision \in Nat /\ \A d \in Pending : d.revision \in Nat
  BY PendingTyped DEF Typed, TypeOK
<1>2. lastRevision' <= revision' /\ \A e \in Pending' : e.revision <= revision'
  BY <1>1 DEF Delivering, delivered, Typed, TypeOK
<1>3. Arrived => Arrived'
  BY DEF Arrived, delivered
<1>4. \A d : Coming(d) => Coming(d)'
  BY DEF Coming, delivered
<1> QED
  BY <1>2, <1>3, <1>4 DEF Delivering

\* A new revision is the newest of the deliveries.
LEMMA NewDelivery ==
  ASSUME Typed, Delivering, UNCHANGED delivered, revision' = revision + 1,
         NEW d \in Pending', Pending' \subseteq Pending \cup {d},
         d = [revision |-> revision', snapshot |-> model', observer |-> observer']
  PROVE  Delivering'
<1>1. revision \in Nat /\ lastRevision \in Nat /\ \A e \in Pending : e.revision \in Nat
  BY PendingTyped DEF Typed, TypeOK
<1>2. \A e \in Pending' : e = d \/ (e \in Pending /\ e.revision < d.revision)
  BY <1>1 DEF Delivering
<1>3. Coming(d)'
  BY <1>1, <1>2 DEF Coming, Delivering, delivered
<1> QED
  BY <1>1, <1>2, <1>3 DEF Delivering, delivered

\* A delivery is given to its observer, or dropped.
LEMMA Delivers ==
  ASSUME Typed, Delivering, NEW d \in Pending, PublishOrdered(d), UNCHANGED session,
         Pending' \subseteq Pending, Pending \subseteq Pending' \cup {d}
  PROVE  Delivering'
<1>1. /\ revision \in Nat /\ lastRevision \in Nat /\ \A e \in Pending : e.revision \in Nat
      /\ observer \in Observer \cup {None}
  BY PendingTyped DEF Typed, TypeOK
<1>2. UNCHANGED <<model, observer, revision>>
  BY DEF session
<1>3. CASE d.revision <= lastRevision
  <2>1. UNCHANGED <<lastRevision, shown>>
    BY <1>3 DEF PublishOrdered, delivered
  <2>2. Arrived => Arrived'
    BY <1>2, <2>1 DEF Arrived
  <2>3. \A x \in Pending : Coming(x) => x \in Pending' /\ Coming(x)'
    BY <1>1, <1>2, <1>3, <2>1 DEF Coming
  <2> QED
    BY <1>2, <2>1, <2>2, <2>3 DEF Delivering
<1>4. CASE ~ (d.revision <= lastRevision)
  <2>1. /\ lastRevision' = d.revision
        /\ shown' = [o \in Observer |-> IF o = d.observer THEN d.snapshot ELSE shown[o]]
    BY <1>4 DEF PublishOrdered
  <2>2. lastRevision' <= revision' /\ \A e \in Pending' : e.revision <= revision'
    BY <1>2, <2>1 DEF Delivering
  <2>3. PICK x \in Pending : Coming(x)
    BY <1>4 DEF Delivering, Arrived
  <2>4. CASE x = d
    <3>1. observer # None => shown'[observer] = model
      BY <1>1, <2>1, <2>3, <2>4 DEF Coming
    <3>2. \A e \in Pending' : e.revision <= lastRevision'
      BY <1>1, <2>1, <2>3, <2>4 DEF Coming
    <3> QED
      BY <1>2, <2>2, <3>1, <3>2 DEF Delivering, Arrived
  <2>5. CASE x # d
    <3>1. d.revision < x.revision /\ x \in Pending'
      BY <2>3, <2>5 DEF Coming
    <3>2. Coming(x)'
      BY <1>2, <2>1, <2>3, <3>1 DEF Coming
    <3> QED
      BY <2>2, <3>1, <3>2 DEF Delivering
  <2> QED
    BY <2>4, <2>5
<1> QED
  BY <1>3, <1>4

LEMMA CallerDelivering ==
  ASSUME Typed, Delivering, NEW c \in Caller, CallerSteps(c)
  PROVE  Delivering'
<1>1. caller \in [Caller -> CallerState]
  BY DEF Typed, TypeOK
\* A step of the caller that is not about deliveries.
<1>2. ASSUME NEW next, Goto(c, next), next.pc # "publish", ~ At(c, "publish"),
             UNCHANGED <<session, delivered>>,
             UNCHANGED socket \/ ~ (SocketAt("publish") \/ SocketAt("publish")')
      PROVE  Delivering'
  <2>1. caller'[c] = next /\ \A d \in Caller \ {c} : caller'[d] = caller[d]
    BY <1>1, <1>2 DEF Goto
  <2>2. Pending' = Pending
    BY <1>2, <2>1 DEF Pending, At, SocketAt
  <2> QED
    BY <1>2, <2>2, DeliveriesStay DEF session
\* A step that makes a delivery.
<1>3. ASSUME NEW op, NEW ok, NEW m, UpdateModel(m), ~ At(c, "publish"),
             Goto(c, [pc |-> "publish", op |-> op, ok |-> ok, delivery |-> NextDelivery]),
             UNCHANGED <<delivered, socket>>
      PROVE  Delivering'
  <2>1. /\ caller'[c] = [pc |-> "publish", op |-> op, ok |-> ok, delivery |-> NextDelivery]
        /\ \A d \in Caller \ {c} : caller'[d] = caller[d]
    BY <1>1, <1>3 DEF Goto
  <2>2. Pending' \subseteq Pending \cup {NextDelivery} /\ NextDelivery \in Pending'
    BY <1>3, <2>1, PendingOfCaller DEF At
  <2> QED
    BY <1>3, <2>2, NewDelivery DEF UpdateModel, NextDelivery
<1>4. CASE Start(c) \/ End(c)
  <2>1. \E next : Goto(c, next) /\ next.pc # "publish"
    <3>1. ASSUME NEW op, Claim(c, op)
          PROVE  \E next : Goto(c, next) /\ next.pc # "publish"
      <4> DEFINE next == [pc |-> IF server # None THEN "signal"
                                 ELSE IF op = "Starting" THEN "launch" ELSE "off",
                          op |-> op, held |-> server]
      <4>1. Goto(c, next) /\ next.pc # "publish"
        BY <3>1 DEF Claim
      <4> QED
        BY <4>1
    <3>2. [pc |-> "wait"].pc # "publish"
      OBVIOUS
    <3> QED
      BY <1>4, <3>1, <3>2 DEF Start, End
  <2> QED
    BY <1>2, <1>4, <2>1 DEF Start, End, At, network
<1>5. CASE \/ SignalServer(c) \/ JoinServer(c) \/ JoinPanickedServer(c)
           \/ LaunchServer(c) \/ InstallServer(c)
  <2>1. caller[c] \in InCall /\ ~ At(c, "publish")
    BY <1>5, CallerShape DEF SignalServer, JoinServer, JoinPanickedServer, LaunchServer,
       InstallServer, Typed, At, InSession, StartPc
  <2>2. \A pc, held : /\ [caller[c] EXCEPT !.pc = pc, !.held = held].pc = pc
                      /\ [caller[c] EXCEPT !.pc = pc].pc = pc
    BY <2>1 DEF InCall
  <2>3. \E next : Goto(c, next) /\ next.pc # "publish"
    <3>1. AfterShutdown(c) # "publish"
      BY DEF AfterShutdown
    <3>2. PICK pc, held : /\ pc # "publish"
                          /\ \/ Goto(c, [caller[c] EXCEPT !.pc = pc])
                             \/ Goto(c, [caller[c] EXCEPT !.pc = pc, !.held = held])
      BY <1>5, <3>1 DEF SignalServer, JoinServer, JoinPanickedServer, LaunchServer,
         InstallServer
    <3>3. /\ [caller[c] EXCEPT !.pc = pc, !.held = held].pc = pc
          /\ [caller[c] EXCEPT !.pc = pc].pc = pc
      BY <2>2
    <3>4. CASE Goto(c, [caller[c] EXCEPT !.pc = pc])
      BY <3>2, <3>3, <3>4, Zenon
    <3>5. CASE Goto(c, [caller[c] EXCEPT !.pc = pc, !.held = held])
      BY <3>2, <3>3, <3>5, Zenon
    <3> QED
      BY <3>2, <3>4, <3>5
  <2>4. /\ UNCHANGED <<session, delivered>>
        /\ UNCHANGED socket \/ ~ (SocketAt("publish") \/ SocketAt("publish")')
    BY <1>5 DEF SignalServer, JoinServer, JoinPanickedServer, LaunchServer,
       InstallServer, network, SocketAt
  <2> QED
    BY <1>2, <2>1, <2>3, <2>4
<1>6. CASE AnnounceServer(c) \/ FailCall(c) \/ TurnOff(c)
  <2>1. ~ At(c, "publish") /\ UNCHANGED <<delivered, socket>>
    BY <1>6 DEF AnnounceServer, FailCall, TurnOff, At, network
  <2>2. \E m, ok : Update(c, m, ok)
    BY <1>6 DEF AnnounceServer, FailCall, TurnOff
  <2> QED
    BY <1>3, <2>1, <2>2 DEF Update
<1>7. CASE \E o \in Observer : Subscribe(c, o)
  BY <1>3, <1>7 DEF Subscribe, At, network
<1>8. CASE PublishCall(c)
  <2>1. caller[c].delivery \in Pending
    BY <1>8 DEF PublishCall, Pending
  <2>2. ~ At(c, "publish")' /\ \A d \in Caller \ {c} : caller'[d] = caller[d]
    BY <1>1, <1>8 DEF PublishCall, Goto, At
  <2>3. Pending' \subseteq Pending /\ Pending \subseteq Pending' \cup {caller[c].delivery}
    BY <1>8, <2>2, PendingOfCaller DEF PublishCall, network
  <2> QED
    BY <1>8, <2>1, <2>3, Delivers DEF PublishCall
<1>9. CASE Complete(c)
  <2>1. \A d \in Caller : /\ At(d, "publish")' <=> At(d, "publish")
                          /\ At(d, "publish") => caller'[d] = caller[d]
    BY <1>9 DEF Complete, At
  <2>2. Pending' = Pending
    BY <1>9, <2>1 DEF Pending, Complete, network, SocketAt
  <2> QED
    BY <1>9, <2>2, DeliveriesStay DEF Complete, session
<1> QED
  BY <1>4, <1>5, <1>6, <1>7, <1>8, <1>9 DEF CallerSteps

LEMMA SocketDelivering ==
  ASSUME Typed, Delivering, SocketSide
  PROVE  Delivering'
<1>1. UNCHANGED caller
  BY DEF SocketSide, SocketStep, Knock, ReceiveMessage, CloseSocket, RejectSocket,
     ClaimSeat, CheckPhase, AttachToRuntime, PlayOnRuntime, ReleaseFromRuntime,
     CallRuntime, ConnectModel, PublishSocket, RecordLatency, ReadServerActive,
     DisconnectModel, RequireRestart, FailSession
<1>2. ASSUME ~ SocketAt("publish"), ~ SocketAt("publish")',
             UNCHANGED <<model, observer, delivered>>, revision' \in {revision, revision + 1}
      PROVE  Delivering'
  BY <1>1, <1>2, PendingOfSocket, DeliveriesStay
<1>3. ASSUME NEW m \in Model, NEW next \in {"open", "closing", "gone"},
             SocketUpdate(m, next), ~ SocketAt("publish"), socket # None,
             UNCHANGED delivered
      PROVE  Delivering'
  <2>1. SocketAt("publish")' /\ socket'.delivery = NextDelivery
    BY <1>3, SocketUpdateTyped, Bounds DEF SocketUpdate, SocketAt
  <2>2. Pending' \subseteq Pending \cup {NextDelivery} /\ NextDelivery \in Pending'
    BY <1>1, <1>3, <2>1, PendingOfSocket
  <2> QED
    BY <1>3, <2>2, NewDelivery DEF SocketUpdate, UpdateModel, NextDelivery
<1>4. \A pc : SocketAt(pc) => socket # None
  BY DEF SocketAt
<1>5. \A pc : SocketGoto(pc) /\ pc # "publish" => ~ SocketAt("publish")'
  BY DEF SocketGoto, SocketAt
<1>6. CASE (\E s \in Server : Knock(s)) \/ RejectSocket
  <2>1. Pending' = Pending
    BY <1>1, <1>6 DEF Pending, At, SocketAt, Knock, RejectSocket
  <2> QED
    BY <1>6, <2>1, DeliveriesStay DEF Knock, RejectSocket, session
<1>7. CASE \E id \in Connection : ClaimSeat(id)
  BY <1>2, <1>7 DEF ClaimSeat, SocketAt, session
<1>8. CASE \/ CheckPhase \/ AttachToRuntime \/ PlayOnRuntime \/ ReleaseFromRuntime
           \/ ReceiveMessage \/ CloseSocket \/ ReadServerActive \/ RequireRestart
  <2>1. ~ SocketAt("publish") /\ UNCHANGED <<session, delivered>>
    BY <1>8 DEF CheckPhase, AttachToRuntime, PlayOnRuntime, ReleaseFromRuntime, SocketAt,
       CallRuntime, ReceiveMessage, CloseSocket, ReadServerActive, RequireRestart
  <2>2. ~ SocketAt("publish")'
    BY <1>5, <1>8 DEF CheckPhase, AttachToRuntime, PlayOnRuntime, ReleaseFromRuntime,
       CallRuntime, ReceiveMessage, CloseSocket, ReadServerActive, RequireRestart
  <2> QED
    BY <1>2, <2>1, <2>2 DEF session
<1>9. CASE ConnectModel
  <2>1. socket # None /\ ~ SocketAt("publish") /\ UNCHANGED delivered
    BY <1>9 DEF ConnectModel, SocketAt
  <2>2. CASE model.phase = "Waiting"
    <3>1. [model EXCEPT !.phase = "Connected", !.controller = socket.id] \in Model
      BY <2>1, SocketShape, Models, TypeParts DEF Typed
    <3> QED
      BY <1>3, <1>9, <2>1, <2>2, <3>1 DEF ConnectModel
  <2>3. CASE model.phase # "Waiting"
    BY <1>2, <1>5, <1>9, <2>1, <2>3 DEF ConnectModel, session
  <2> QED
    BY <2>2, <2>3
<1>10. CASE PublishSocket
  <2>1. /\ socket.delivery \in Pending /\ socket.next \in {"open", "closing", "gone"}
    BY <1>4, <1>10, SocketShape DEF PublishSocket, Pending, SocketAt, Typed
  <2>2. ~ SocketAt("publish")'
    BY <1>5, <1>10, <2>1 DEF PublishSocket, SocketAt
  <2>3. Pending' \subseteq Pending /\ Pending \subseteq Pending' \cup {socket.delivery}
    BY <1>1, <1>10, <2>2, PendingOfSocket DEF PublishSocket
  <2> QED
    BY <1>10, <2>1, <2>3, Delivers DEF PublishSocket
<1>11. CASE RecordLatency
  BY <1>2, <1>5, <1>11 DEF RecordLatency, UpdateModel, SocketAt
<1>12. CASE DisconnectModel
  <2>1. socket # None /\ ~ SocketAt("publish") /\ UNCHANGED delivered
    BY <1>12 DEF DisconnectModel, SocketAt
  <2>2. CASE model.phase = "Error"
    BY <1>2, <1>12, <2>1, <2>2 DEF DisconnectModel, session, SocketAt
  <2>3. CASE model.phase # "Error"
    BY <1>3, <1>12, <2>1, <2>3, Models, TypeParts DEF DisconnectModel, Typed
  <2> QED
    BY <2>2, <2>3
<1>13. CASE FailSession
  BY <1>3, <1>4, <1>13, Models DEF FailSession, SocketAt
<1> QED
  BY <1>6, <1>7, <1>8, <1>9, <1>10, <1>11, <1>12, <1>13 DEF SocketSide, SocketStep

LEMMA DeliveringStep ==
  ASSUME Typed, Delivering, [Next]_vars
  PROVE  Delivering'
<1>1. CASE UNCHANGED vars
  <2>1. Pending' = Pending
    BY <1>1 DEF vars, network, Pending, At, SocketAt
  <2> QED
    BY <1>1, <2>1, DeliveriesStay DEF vars, session
<1> QED
  BY <1>1, Sides, CallerDelivering, SocketDelivering

\* However deliveries overtake each other, nothing is on its way only when
\* the observer was given the model.
LEMMA DeliveredIsLatest ==
  ASSUME Delivering
  PROVE  ObserverConverges
<1> SUFFICES ASSUME observer # None, ~ Publishing
             PROVE  shown[observer] = model
  BY DEF ObserverConverges
<1>1. Pending = {}
  BY DEF Publishing, Pending
<1> QED
  BY <1>1 DEF Delivering, Arrived

-----------------------------------------------------------------------------
(* The session: one call at a time, and what it knows of the server.        *)

LEMMA Idlers ==
  /\ \A c \in Caller : ~ Busy(c) => Knows(c) /\ ~ InSession(c) /\ ~ HasEnded(c)
  /\ \A c \in Caller : ~ Busy(c)' => Knows(c)' /\ ~ InSession(c)' /\ ~ HasEnded(c)'
  BY DEF Busy, Knows, HasEnded, InSession, StartPc, At

LEMMA HoldersAreInSession ==
  /\ \A c \in Caller, s \in Server : Holds(c, s) => InSession(c) /\ Busy(c)
  /\ \A c \in Caller, s \in Server : Holds(c, s)' => InSession(c)' /\ Busy(c)'
  BY DEF Holds, InSession, StartPc, Busy

\* The others have no part in a session that a call has.
LEMMA Alone ==
  ASSUME Governed, NEW c \in Caller, Busy(c)
  PROVE  /\ operation # Idle
         /\ \A d \in Caller \ {c} : ~ Busy(d) /\ \A s \in Server : ~ Holds(d, s)
  BY HoldersAreInSession DEF Governed, Exclusive

LEMMA StaysGoverned ==
  ASSUME NEW c \in Caller, \A d \in Caller \ {c} : ~ Busy(d)',
         Busy(c)' => operation' # Idle, Knows(c)'
  PROVE  Governed'
  BY Idlers DEF Governed, Exclusive

\* No socket is left from the launch of the next server on, nor after an end.
LEMMA NoneServes ==
  ASSUME TypeOK, Session, NEW c \in Caller,
         \/ InSession(c) /\ ~ At(c, "signal") /\ ~ At(c, "join")
         \/ HasEnded(c)
  PROVE  /\ \A s \in Server : ~ Serves(s)
         /\ knock = None /\ socket = None
<1>1. Busy(c)
  BY DEF Busy, HasEnded, At
<1>2. ASSUME NEW s \in Server, Serves(s) PROVE FALSE
  <2>1. s = server \/ \E d \in Caller : Holds(d, s)
    BY <1>2 DEF Session, Listening, Serves, Running
  <2>2. CASE s = server
    BY <1>2, <2>2, Bounds DEF Session, Governed, Knows, Serves
  <2>3. CASE \E d \in Caller : Holds(d, s)
    <3>1. Holds(c, s) /\ InSession(c)
      BY <1>1, <2>3, Alone, HoldersAreInSession DEF Session
    <3> QED
      BY <1>2, <3>1 DEF Session, Governed, Knows, Serves, Holds, At, HasEnded, InSession,
         StartPc
  <2> QED
    BY <2>1, <2>2, <2>3
<1>3. knock = None
  BY <1>2 DEF Session, Attached, TypeOK
<1>4. socket = None
  BY <1>2, SocketShape DEF Session, Attached
<1> QED
  BY <1>2, <1>3, <1>4

\* While the installed server has a socket, the phase tells the truth.
LEMMA WhileServed ==
  ASSUME TypeOK, Session, NEW s \in Server, Serves(s)
  PROVE  /\ server # None => server = s /\ Truthful /\ \A c \in Caller : ~ InSession(c)
         /\ \A c \in Caller : ~ HasEnded(c)
<1>1. \A c \in Caller : ~ HasEnded(c)
  BY NoneServes
<1>2. ASSUME server # None
      PROVE  server = s /\ Truthful /\ \A c \in Caller : ~ InSession(c)
  <2>1. \A c \in Caller : InSession(c) => At(c, "announce")
    BY <1>2 DEF Session, Governed, Knows
  <2>2. \A c \in Caller : ~ InSession(c)
    BY <2>1, NoneServes DEF At
  <2>3. Truthful
    BY <2>2 DEF Session, Settled
  <2>4. server = s
    BY <2>2, HoldersAreInSession DEF Session, Listening, Serves, Running
  <2> QED
    BY <2>2, <2>3, <2>4
<1> QED
  BY <1>1, <1>2

LEMMA AttachedStays ==
  ASSUME TypeOK, Attached, UNCHANGED <<model, knock, socket>>,
         \A s \in Server : Serves(s)' <=> Serves(s)
  PROVE  Attached'
<1>1. knock # None => knock \in Server
  BY DEF TypeOK
<1>2. socket # None => socket.server \in Server
  BY SocketShape
<1> QED
  BY <1>1, <1>2 DEF Attached

LEMMA RemembersStays ==
  /\ (Remembers /\ UNCHANGED <<model, socket>> /\ server' \in {server, None}
        /\ (server' # None => restartRequired' = restartRequired)) => Remembers'
  /\ socket' = None => Remembers'
  BY DEF Remembers, SocketAt, Playing

-----------------------------------------------------------------------------
(* ... along the steps of the callers ...                                   *)

\* A caller that has no part in the session, before and after.
LEMMA Aside ==
  ASSUME TypeOK, Session, UNCHANGED <<model, lifecycle, network>>,
         \A d \in Caller : caller'[d] = caller[d] \/ (~ Busy(d) /\ ~ Busy(d)')
  PROVE  Session'
<1>1. UNCHANGED <<operation, epoch, server, restartRequired, status, knock, socket>>
  BY DEF lifecycle, network
<1>2. \A d \in Caller : /\ Busy(d)' <=> Busy(d)
                        /\ InSession(d)' <=> InSession(d)
                        /\ \A s \in Server : Holds(d, s)' <=> Holds(d, s)
                        /\ Busy(d) => caller'[d] = caller[d]
  BY HoldersAreInSession, Idlers DEF Busy, InSession, Holds, At
<1>3. Governed'
  <2>1. \A d \in Caller : Busy(d) => Knows(d)'
    BY <1>1, <1>2 DEF Session, Governed, Knows, InSession, HasEnded, At
  <2> QED
    BY <1>1, <1>2, <2>1, Idlers DEF Session, Governed, Exclusive
<1>4. Listening'
  <2>1. \A d \in Caller : At(d, "announce") => At(d, "announce")'
    BY <1>2, Idlers DEF At, InSession, StartPc, Busy
  <2> QED
    BY <1>1, <1>2, <2>1 DEF Session, Listening, Running
<1>5. Attached'
  BY <1>1, AttachedStays DEF Session, Serves
<1>6. Remembers'
  BY <1>1, RemembersStays DEF Session
<1>7. Settled'
  BY <1>1, <1>2 DEF Session, Settled, Truthful
<1> QED
  BY <1>3, <1>4, <1>5, <1>6, <1>7 DEF Session

LEMMA ClaimSession ==
  ASSUME TypeOK, Session, NEW c \in Caller, NEW op \in {"Starting", "Ending"},
         Claim(c, op), operation = Idle, UNCHANGED <<session, network>>
  PROVE  Session'
<1>1. \A d \in Caller : ~ Busy(d)
  BY DEF Session, Governed, Exclusive
<1>2. /\ caller'[c] = [pc |-> IF server # None THEN "signal"
                              ELSE IF op = "Starting" THEN "launch" ELSE "off",
                       op |-> op, held |-> server]
      /\ \A d \in Caller \ {c} : caller'[d] = caller[d]
      /\ server' = None /\ operation' # Idle
      /\ UNCHANGED <<model, status, knock, socket>>
  BY DEF Claim, Goto, TypeOK, Idle, session, network
<1>3. server # None => status[server] = "paired"
  BY <1>1 DEF Session, Listening, Busy, InSession, StartPc, At
<1>4. InSession(c)' /\ Busy(c)'
  BY <1>2 DEF InSession, StartPc, Busy
<1>5. Knows(c)'
  BY <1>2, <1>3 DEF Knows, HasEnded, At
<1>6. Governed'
  BY <1>1, <1>2, <1>5, StaysGoverned DEF Busy, InSession, At
<1>7. Listening'
  <2> SUFFICES ASSUME NEW s \in Server, Running(s) PROVE Holds(c, s)'
    BY <1>2 DEF Listening, Running
  <2>1. s = server
    BY <1>1, HoldersAreInSession DEF Session, Listening
  <2>2. s # None
    BY Bounds
  <2> QED
    BY <1>2, <2>1, <2>2 DEF Holds
<1>8. Attached'
  BY <1>2, AttachedStays DEF Session, Serves
<1>9. Remembers'
  BY <1>2, RemembersStays DEF Session
<1>10. Settled'
  BY <1>4 DEF Settled
<1> QED
  BY <1>6, <1>7, <1>8, <1>9, <1>10 DEF Session

\* What the session knows when a caller goes on in it.
LEMMA InTheSession ==
  ASSUME TypeOK, Session, NEW c \in Caller, InSession(c), NEW next, Goto(c, next)
  PROVE  /\ caller'[c] = next
         /\ \A d \in Caller \ {c} :
              /\ caller'[d] = caller[d] /\ ~ Busy(d) /\ ~ Busy(d)'
              /\ \A s \in Server : ~ Holds(d, s)
         /\ operation # Idle
         /\ ~ At(c, "announce") => server = None
<1>1. caller'[c] = next /\ \A d \in Caller \ {c} : caller'[d] = caller[d]
  BY DEF TypeOK, Goto
<1>2. /\ operation # Idle
      /\ \A d \in Caller \ {c} : ~ Busy(d) /\ \A s \in Server : ~ Holds(d, s)
  BY Alone DEF Session, Busy
<1>3. \A d \in Caller \ {c} : ~ Busy(d)'
  BY <1>1, <1>2 DEF Busy, InSession, At
<1> QED
  BY <1>1, <1>2, <1>3 DEF Session, Governed, Knows

LEMMA SignalSession ==
  ASSUME TypeOK, Session, NEW c \in Caller, SignalServer(c)
  PROVE  Session'
<1>1. InSession(c) /\ At(c, "signal") /\ caller[c] \in InCall
  BY CallerShape DEF SignalServer, At, InSession, StartPc
<1>2. /\ server = None
      /\ UNCHANGED <<model, operation, server, restartRequired, knock, socket>>
  BY <1>1 DEF SignalServer, Session, Governed, Knows, At, session, lifecycle
<1> PICK h \in Server : h = caller[c].held /\ h # None /\ status[h] = "paired"
  BY <1>1 DEF Session, Governed, Knows, At, InCall
<1>3. /\ caller'[c] = [caller[c] EXCEPT !.pc = "join"]
      /\ \A d \in Caller \ {c} : ~ Busy(d)' /\ \A s \in Server : ~ Holds(d, s)
      /\ operation # Idle
  BY <1>1, InTheSession DEF SignalServer
<1>4. caller'[c].pc = "join" /\ caller'[c].held = h
  BY <1>1, <1>3 DEF InCall
<1>5. status'[h] = "closing" /\ \A s \in Server \ {h} : status'[s] = status[s]
  BY <1>2 DEF SignalServer, TypeOK
<1>6. InSession(c)'
  BY <1>4 DEF InSession, StartPc
<1>7. Governed'
  <2>1. Knows(c)'
    BY <1>2, <1>4, <1>5 DEF Knows, HasEnded, At
  <2> QED
    BY <1>2, <1>3, <2>1, StaysGoverned
<1>8. Listening'
  <2>1. Holds(c, h)'
    BY <1>4 DEF Holds
  <2>2. \A s \in Server \ {h} : ~ Running(s)
    BY <1>2, <1>3, Bounds DEF Session, Listening, Holds
  <2>3. \A s \in Server : Running(s)' => s = h
    BY <1>5, <2>2 DEF Running
  <2> QED
    BY <1>2, <2>1, <2>3 DEF Listening
<1>9. Attached'
  <2>1. \A s \in Server : Serves(s)' <=> Serves(s)
    BY <1>2, <1>5 DEF Serves
  <2> QED
    BY <1>2, <2>1, AttachedStays DEF Session
<1>10. Remembers' /\ Settled'
  BY <1>2, <1>6, RemembersStays DEF Session, Settled
<1> QED
  BY <1>7, <1>8, <1>9, <1>10 DEF Session

\* The server that the call held is gone, with its sockets.
LEMMA JoinSession ==
  ASSUME TypeOK, Session, NEW c \in Caller, JoinServer(c) \/ JoinPanickedServer(c)
  PROVE  Session'
<1> DEFINE h == caller[c].held
<1>1. InSession(c) /\ At(c, "join") /\ caller[c] \in InCall
  BY CallerShape DEF JoinServer, JoinPanickedServer, At, InSession, StartPc
<1>2. /\ server = None /\ h # None /\ h \in Server
      /\ UNCHANGED <<model, operation, server, restartRequired>>
  BY <1>1 DEF JoinServer, JoinPanickedServer, Session, Governed, Knows, At, InCall,
     session, lifecycle
<1>3. PICK pc \in StartPc \ {"signal", "join", "install", "announce"} :
        /\ Goto(c, [caller[c] EXCEPT !.pc = pc, !.held = None])
        /\ pc = "launch" => caller[c].op = "Starting"
  <2>1. /\ AfterShutdown(c) \in StartPc \ {"signal", "join", "install", "announce"}
        /\ AfterShutdown(c) = "launch" => caller[c].op = "Starting"
        /\ "fail" \in StartPc \ {"signal", "join", "install", "announce"}
    BY DEF AfterShutdown, StartPc
  <2>2. CASE JoinServer(c)
    BY <2>1, <2>2 DEF JoinServer
  <2>3. CASE JoinPanickedServer(c)
    BY <2>1, <2>3 DEF JoinPanickedServer
  <2> QED
    BY <2>2, <2>3
<1>4. /\ caller'[c] = [caller[c] EXCEPT !.pc = pc, !.held = None]
      /\ \A d \in Caller \ {c} : ~ Busy(d)' /\ \A s \in Server : ~ Holds(d, s)
      /\ operation # Idle
  BY <1>1, <1>3, InTheSession
<1>5. caller'[c].pc = pc /\ caller'[c].op = caller[c].op
  BY <1>1, <1>4 DEF InCall
<1>6. InSession(c)'
  BY <1>5 DEF InSession
<1>7. status'[h] = "gone" /\ \A s \in Server \ {h} : status'[s] = status[s]
  BY <1>2 DEF JoinServer, JoinPanickedServer, TypeOK
<1>8. \A s \in Server : ~ Running(s)'
  BY <1>2, <1>4, <1>7, Bounds DEF Session, Listening, Holds, Running
<1>9. Governed'
  <2>1. Knows(c)'
    BY <1>2, <1>3, <1>5 DEF Knows, HasEnded, At, StartPc
  <2> QED
    BY <1>2, <1>4, <2>1, StaysGoverned
<1>10. Listening'
  BY <1>2, <1>8 DEF Listening
<1>11. knock' = None /\ socket' = None
  <2>1. CASE JoinPanickedServer(c)
    BY <2>1 DEF JoinPanickedServer
  <2>2. CASE JoinServer(c)
    <3>1. \A s \in Server \ {h} : ~ Serves(s)
      BY <1>7, <1>8 DEF Serves, Running
    <3>2. knock = None
      BY <2>2, <3>1 DEF JoinServer, Session, Attached, TypeOK
    <3>3. socket = None
      BY <2>2, <3>1, SocketShape DEF JoinServer, Session, Attached
    <3> QED
      BY <2>2, <3>2, <3>3 DEF JoinServer
  <2> QED
    BY <2>1, <2>2
<1>12. Attached'
  BY <1>8, <1>11 DEF Attached, Serves, Running
<1>13. Remembers' /\ Settled'
  BY <1>6, <1>11, RemembersStays DEF Settled
<1> QED
  BY <1>9, <1>10, <1>12, <1>13 DEF Session

LEMMA LaunchSession ==
  ASSUME Typed, Session, NEW c \in Caller, LaunchServer(c)
  PROVE  Session'
<1>1. InSession(c) /\ At(c, "launch") /\ caller[c] \in InCall /\ epoch \in Server
  BY CallerShape DEF LaunchServer, At, InSession, StartPc, Typed, Epochs
<1>2. /\ server = None /\ caller[c].op = "Starting" /\ knock = None /\ socket = None
      /\ \A s \in Server : ~ Serves(s)
      /\ UNCHANGED <<model, operation, epoch, server, restartRequired, knock, socket>>
  BY <1>1, NoneServes DEF LaunchServer, Session, Governed, Knows, At, session, lifecycle,
     Typed
<1>3. \A s \in Server : ~ Running(s)
  <2>1. \A d \in Caller, s \in Server : ~ Holds(d, s)
    BY <1>1, Alone DEF Session, Busy, Holds, At
  <2> QED
    BY <1>2, <2>1, Bounds DEF Session, Listening
<1>4. CASE /\ status' = [status EXCEPT ![epoch] = "bound"]
           /\ Goto(c, [caller[c] EXCEPT !.pc = "install", !.held = epoch])
  <2> PICK e \in Server : e = epoch /\ e # None
    BY <1>1, Bounds
  <2>1. /\ caller'[c] = [caller[c] EXCEPT !.pc = "install", !.held = e]
        /\ \A d \in Caller \ {c} : ~ Busy(d)'
        /\ operation # Idle
    BY <1>1, <1>4, InTheSession DEF Typed
  <2>2. /\ caller'[c].pc = "install" /\ caller'[c].held = e
        /\ caller'[c].op = "Starting"
    BY <1>1, <1>2, <2>1 DEF InCall
  <2>3. status'[e] = "bound" /\ \A s \in Server \ {e} : status'[s] = status[s]
    BY <1>4 DEF Typed, TypeOK
  <2>4. InSession(c)' /\ Holds(c, e)'
    BY <2>2 DEF InSession, StartPc, Holds
  <2>5. Governed'
    <3>1. Knows(c)'
      BY <1>2, <2>2, <2>3 DEF Knows, HasEnded, At
    <3> QED
      BY <1>2, <2>1, <3>1, StaysGoverned
  <2>6. Listening'
    <3>1. \A s \in Server : Running(s)' => s = e
      BY <1>3, <2>3 DEF Running
    <3> QED
      BY <1>2, <2>4, <3>1 DEF Listening
  <2>7. \A s \in Server : ~ Serves(s)'
    BY <1>2, <2>3 DEF Serves
  <2>8. Attached' /\ Remembers' /\ Settled'
    BY <1>2, <2>4, <2>7, RemembersStays DEF Attached, Settled
  <2> QED
    BY <2>5, <2>6, <2>8 DEF Session
<1>5. CASE UNCHANGED status /\ Goto(c, [caller[c] EXCEPT !.pc = "fail"])
  <2>1. /\ caller'[c] = [caller[c] EXCEPT !.pc = "fail"]
        /\ \A d \in Caller \ {c} : ~ Busy(d)'
        /\ operation # Idle
    BY <1>1, <1>5, InTheSession DEF Typed
  <2>2. caller'[c].pc = "fail"
    BY <1>1, <2>1 DEF InCall
  <2>3. InSession(c)'
    BY <2>2 DEF InSession, StartPc
  <2>4. Governed'
    <3>1. Knows(c)'
      BY <1>2, <2>2 DEF Knows, HasEnded, At
    <3> QED
      BY <1>2, <2>1, <3>1, StaysGoverned
  <2>5. Listening' /\ Attached' /\ Remembers' /\ Settled'
    BY <1>2, <1>3, <1>5, <2>3, RemembersStays DEF Listening, Running, Attached, Serves,
       Settled
  <2> QED
    BY <2>4, <2>5 DEF Session
<1> QED
  BY <1>4, <1>5 DEF LaunchServer

LEMMA InstallSession ==
  ASSUME TypeOK, Session, NEW c \in Caller, InstallServer(c)
  PROVE  Session'
<1>1. InSession(c) /\ At(c, "install") /\ caller[c] \in InCall
  BY CallerShape DEF InstallServer, At, InSession, StartPc
<1> PICK h \in Server : h = caller[c].held /\ h # None /\ status[h] = "bound"
  BY <1>1 DEF Session, Governed, Knows, At, InCall
<1>2. /\ server = None /\ caller[c].op = "Starting" /\ knock = None /\ socket = None
      /\ \A s \in Server : ~ Serves(s)
      /\ server' = h /\ UNCHANGED <<model, operation, status, knock, socket>>
  BY <1>1, NoneServes DEF InstallServer, Session, Governed, Knows, At, session, network
<1>3. /\ caller'[c] = [caller[c] EXCEPT !.pc = "announce", !.held = None]
      /\ \A d \in Caller \ {c} : ~ Busy(d)' /\ \A s \in Server : ~ Holds(d, s)
      /\ operation # Idle
  BY <1>1, InTheSession DEF InstallServer
<1>4. caller'[c].pc = "announce" /\ caller'[c].op = "Starting"
  BY <1>1, <1>2, <1>3 DEF InCall
<1>5. InSession(c)' /\ At(c, "announce")'
  BY <1>4 DEF InSession, StartPc, At
<1>6. Governed'
  <2>1. Knows(c)'
    BY <1>2, <1>4 DEF Knows, HasEnded, At
  <2> QED
    BY <1>2, <1>3, <2>1, StaysGoverned
<1>7. Listening'
  <2>1. \A s \in Server : Running(s) => s = h
    BY <1>2, <1>3, Bounds DEF Session, Listening, Holds
  <2> QED
    BY <1>2, <1>5, <2>1 DEF Listening, Running
<1>8. Attached' /\ Remembers' /\ Settled'
  BY <1>2, <1>5, RemembersStays DEF Attached, Serves, Settled
<1> QED
  BY <1>6, <1>7, <1>8 DEF Session

\* The call updates the model; no socket is left that could see the old one.
LEMMA UpdateSession ==
  ASSUME Typed, Session, NEW c \in Caller,
         AnnounceServer(c) \/ FailCall(c) \/ TurnOff(c)
  PROVE  Session'
<1>1. /\ InSession(c) /\ ~ At(c, "signal") /\ ~ At(c, "join") /\ caller[c] \in InCall
      /\ At(c, "announce") <=> AnnounceServer(c)
  BY CallerShape DEF AnnounceServer, FailCall, TurnOff, At, InSession, StartPc, Typed
<1>2. /\ knock = None /\ socket = None /\ \A s \in Server : ~ Serves(s)
      /\ UNCHANGED <<operation, server, restartRequired, knock, socket>>
  BY <1>1, NoneServes DEF AnnounceServer, FailCall, TurnOff, lifecycle, network, Typed
<1>3. PICK m, ok : /\ Update(c, m, ok)
                   /\ \/ /\ AnnounceServer(c) /\ m = WaitForController(server)
                         /\ status' = [status EXCEPT ![server] = "paired"]
                      \/ FailCall(c) /\ m = Failed /\ ok = FALSE /\ UNCHANGED status
                      \/ TurnOff(c) /\ m = TurnedOff /\ UNCHANGED status
  BY DEF AnnounceServer, FailCall, TurnOff, network
<1>4. /\ caller'[c] = [pc |-> "publish", op |-> caller[c].op, ok |-> ok,
                       delivery |-> NextDelivery]
      /\ \A d \in Caller \ {c} : ~ Busy(d)' /\ ~ InSession(d)' /\ \A s \in Server : ~ Holds(d, s)
      /\ operation # Idle /\ model' = m
      /\ ~ At(c, "announce") => server = None
  BY <1>1, <1>3, InTheSession, Idlers DEF Update, UpdateModel, Typed
<1>5. caller'[c].pc = "publish" /\ caller'[c].op = caller[c].op /\ caller'[c].ok = ok
  BY <1>4
<1>6. CASE AnnounceServer(c)
  <2> PICK h \in Server : h = server /\ h # None /\ status[h] = "bound"
    BY <1>1, <1>6, Bounds DEF Session, Governed, Knows, Typed, TypeOK
  <2>1. /\ m = WaitForController(h) /\ caller[c].op = "Starting"
        /\ status'[h] = "paired" /\ \A s \in Server \ {h} : status'[s] = status[s]
    BY <1>1, <1>3, <1>6 DEF FailCall, TurnOff, AnnounceServer, At, Session, Governed, Knows,
       Typed, TypeOK
  <2>2. Governed'
    <3>1. Knows(c)'
      BY <1>5, <2>1 DEF Knows, HasEnded, At, InSession, StartPc
    <3> QED
      BY <1>2, <1>4, <3>1, StaysGoverned
  <2>3. \A s \in Server \ {h} : ~ Running(s) /\ ~ Running(s)'
    <3>1. ~ \E s \in Server : Holds(c, s)
      BY <1>1, <1>6 DEF Holds, At
    <3> QED
      BY <1>4, <2>1, <3>1 DEF Session, Listening, Running
  <2>4. Listening'
    BY <1>2, <2>1, <2>3 DEF Listening
  <2>5. Attached'
    BY <1>2, <1>4, <2>1, <2>3 DEF Attached, Serves, Running, WaitForController
  <2>6. Remembers'
    BY <1>2, RemembersStays
  <2>7. Truthful'
    BY <1>2, <1>4, <2>1 DEF Truthful, WaitForController
  <2> QED
    BY <2>2, <2>4, <2>5, <2>6, <2>7 DEF Session, Settled
<1>7. CASE FailCall(c) \/ TurnOff(c)
  <2>1. ~ At(c, "announce") /\ server = None
    BY <1>1, <1>4, <1>7 DEF FailCall, TurnOff, At
  <2>2. /\ m.phase = "Off" \/ (m.phase = "Error" /\ ok = FALSE)
        /\ UNCHANGED status
    BY <1>3, <2>1, <1>1 DEF Failed, TurnedOff
  <2>3. Governed'
    <3>1. Knows(c)'
      BY <1>2, <1>4, <1>5, <2>1, <2>2 DEF Knows, HasEnded, At, InSession, StartPc
    <3> QED
      BY <1>2, <1>4, <3>1, StaysGoverned
  <2>4. \A s \in Server : ~ Running(s)
    <3>1. ~ \E s \in Server : Holds(c, s)
      BY <1>7 DEF Holds, At, FailCall, TurnOff
    <3> QED
      BY <1>4, <2>1, <3>1, Bounds DEF Session, Listening
  <2>5. Listening'
    BY <1>2, <2>1, <2>2, <2>4 DEF Listening, Running
  <2>6. Attached'
    BY <1>2, <2>2 DEF Attached, Serves
  <2>7. Remembers'
    BY <1>2, RemembersStays
  <2>8. Truthful'
    BY <1>2, <1>4, <2>1, <2>2 DEF Truthful
  <2> QED
    BY <2>3, <2>5, <2>6, <2>7, <2>8 DEF Session, Settled
<1> QED
  BY <1>6, <1>7

\* A call that publishes, or completes, leaves the server as it is.
LEMMA PublishSession ==
  ASSUME TypeOK, Session, NEW c \in Caller, PublishCall(c)
  PROVE  Session'
<1>1. /\ At(c, "publish") /\ \A d \in Caller \ {c} : caller'[d] = caller[d]
      /\ UNCHANGED <<model, lifecycle, network>>
  BY DEF PublishCall, Goto, TypeOK, session
<1>2. CASE caller[c].op = "Subscribe"
  <2>1. ~ Busy(c) /\ ~ Busy(c)'
    BY <1>2 DEF PublishCall, Goto, TypeOK, Busy, InSession, StartPc, At
  <2> QED
    BY <1>1, <2>1, Aside
<1>3. CASE caller[c].op # "Subscribe"
  <2>1. caller'[c] = [pc |-> "complete", op |-> caller[c].op, ok |-> caller[c].ok]
    BY <1>3 DEF PublishCall, Goto, TypeOK
  <2>2. UNCHANGED <<operation, epoch, server, restartRequired, status, knock, socket>>
    BY <1>1 DEF lifecycle, network
  <2>3. Busy(c) /\ HasEnded(c)' = HasEnded(c)
    BY <1>1, <1>3, <2>1 DEF Busy, HasEnded, At
  <2>4. /\ operation # Idle
        /\ \A d \in Caller \ {c} : ~ Busy(d)' /\ \A s \in Server : ~ Holds(d, s)
    BY <1>1, <2>3, Alone DEF Session, Busy, InSession, At
  <2>5. Governed'
    <3>1. Knows(c)'
      BY <1>1, <2>1, <2>2, <2>3 DEF Session, Governed, Knows, At, InSession, StartPc
    <3> QED
      BY <2>2, <2>4, <3>1, StaysGoverned
  <2>6. \A d \in Caller : ~ InSession(d)
    BY <1>1, <2>3, <2>4, Alone, Idlers DEF Session, InSession, StartPc, At
  <2>7. Listening'
    <3>1. /\ \A d \in Caller, s \in Server : ~ Holds(d, s)
          /\ \A d \in Caller : ~ At(d, "announce")
      BY <2>6, HoldersAreInSession DEF At, InSession, StartPc
    <3> QED
      BY <2>2, <3>1 DEF Session, Listening, Running
  <2>8. Attached' /\ Remembers'
    BY <1>1, <2>2, AttachedStays, RemembersStays DEF Session, Serves
  <2>9. Truthful'
    BY <1>1, <2>2, <2>6 DEF Session, Settled, Truthful
  <2> QED
    BY <2>5, <2>7, <2>8, <2>9 DEF Session, Settled
<1> QED
  BY <1>2, <1>3

LEMMA CompleteSession ==
  ASSUME TypeOK, Session, NEW c \in Caller, Complete(c)
  PROVE  Session'
<1>1. /\ Busy(c) /\ UNCHANGED <<model, server, restartRequired, status, knock, socket>>
      /\ \A d \in Caller :
           /\ d = c => caller'[d] = [pc |-> "idle"]
           /\ (d # c /\ At(d, "wait")) => caller'[d] = [pc |-> "woken"]
           /\ (d # c /\ ~ At(d, "wait")) => caller'[d] = caller[d]
  BY DEF Complete, Busy, session, network
<1>2. \A d \in Caller : ~ Busy(d)'
  BY <1>1, Alone DEF Session, Busy, InSession, StartPc, At
<1>3. \A d \in Caller : ~ InSession(d)
  BY <1>1, Alone, Idlers DEF Session, Complete, InSession, StartPc, At
<1>4. Governed'
  BY <1>2, Idlers DEF Governed, Exclusive
<1>5. Listening'
  <2>1. /\ \A d \in Caller, s \in Server : ~ Holds(d, s)
        /\ \A d \in Caller : ~ At(d, "announce")
    BY <1>3, HoldersAreInSession DEF At, InSession, StartPc
  <2> QED
    BY <1>1, <2>1 DEF Session, Listening, Running
<1>6. Attached' /\ Remembers'
  BY <1>1, AttachedStays, RemembersStays DEF Session, Serves
<1>7. Truthful'
  BY <1>1, <1>3 DEF Session, Settled, Truthful
<1> QED
  BY <1>4, <1>5, <1>6, <1>7 DEF Session, Settled

LEMMA CallerSession ==
  ASSUME Typed, Session, NEW c \in Caller, CallerSteps(c)
  PROVE  Session'
<1>1. CASE Start(c)
  BY <1>1, ClaimSession DEF Start, Typed
<1>2. CASE End(c)
  <2>1. CASE operation = Idle
    BY <1>2, <2>1, ClaimSession DEF End, Typed
  <2>2. CASE operation # Idle
    <3>1. caller'[c] = [pc |-> "wait"] /\ \A d \in Caller \ {c} : caller'[d] = caller[d]
      BY <1>2, <2>2 DEF End, Goto, Typed, TypeOK
    <3>2. ~ Busy(c) /\ ~ Busy(c)'
      BY <1>2, <3>1 DEF End, Busy, InSession, StartPc, At
    <3>3. UNCHANGED <<model, lifecycle, network>>
      BY <1>2, <2>2 DEF End, session, lifecycle
    <3> QED
      BY <3>1, <3>2, <3>3, Aside DEF Typed
  <2> QED
    BY <2>1, <2>2
<1>3. CASE \E o \in Observer : Subscribe(c, o)
  <2>1. /\ caller'[c].pc = "publish" /\ caller'[c].op = "Subscribe"
        /\ \A d \in Caller \ {c} : caller'[d] = caller[d]
    BY <1>3 DEF Subscribe, Goto, Typed, TypeOK
  <2>2. ~ Busy(c) /\ ~ Busy(c)'
    BY <1>3, <2>1 DEF Subscribe, Busy, InSession, StartPc, At
  <2>3. UNCHANGED <<model, lifecycle, network>>
    BY <1>3 DEF Subscribe, UpdateModel
  <2> QED
    BY <2>1, <2>2, <2>3, Aside DEF Typed
<1>4. CASE SignalServer(c) \/ JoinServer(c) \/ JoinPanickedServer(c)
  BY <1>4, SignalSession, JoinSession DEF Typed
<1>5. CASE LaunchServer(c) \/ InstallServer(c)
  BY <1>5, LaunchSession, InstallSession DEF Typed
<1>6. CASE AnnounceServer(c) \/ FailCall(c) \/ TurnOff(c)
  BY <1>6, UpdateSession
<1>7. CASE PublishCall(c) \/ Complete(c)
  BY <1>7, PublishSession, CompleteSession DEF Typed
<1> QED
  BY <1>1, <1>2, <1>3, <1>4, <1>5, <1>6, <1>7 DEF CallerSteps

-----------------------------------------------------------------------------
(* ... and of the sockets.                                                  *)

\* The callers, and what they know, when a socket takes a step.
LEMMA CallersKeep ==
  ASSUME TypeOK, Session, UNCHANGED <<caller, operation, server, status>>,
         \A c \in Caller : HasEnded(c) => model'.phase = "Off"
  PROVE  Governed' /\ Listening'
<1>1. \A c \in Caller : Knows(c)'
  BY DEF Session, Governed, Knows, InSession, HasEnded, At
<1>2. Exclusive'
  BY DEF Session, Governed, Exclusive, Busy, InSession, At
<1>3. Listening'
  BY DEF Session, Listening, Running, Holds, At
<1> QED
  BY <1>1, <1>2, <1>3 DEF Governed

\* The socket takes a step that leaves the model.
LEMMA SocketTurns ==
  ASSUME TypeOK, Session, UNCHANGED <<caller, operation, server, status, model>>,
         knock' # None => Serves(knock'),
         socket' # None => Serves(socket'.server),
         restartRequired' = restartRequired \/ (server # None => restartRequired'),
         Remembers'
  PROVE  Session'
<1>1. Governed' /\ Listening'
  <2>1. \A c \in Caller : HasEnded(c) => model'.phase = "Off"
    BY DEF Session, Governed, Knows
  <2> QED
    BY <2>1, CallersKeep
<1>2. Attached'
  BY DEF Session, Attached, Serves
<1>3. Settled'
  BY DEF Session, Settled, Truthful, InSession
<1> QED
  BY <1>1, <1>2, <1>3 DEF Session

\* The socket has claimed its server's only seat.
LEMMA Seated ==
  ASSUME TypeOK, Session, socket # None
  PROVE  /\ socket.server \in Server /\ Serves(socket.server)
         /\ \A c \in Caller : ~ HasEnded(c)
         /\ server # None => /\ Truthful /\ server = socket.server
                             /\ \A c \in Caller : ~ InSession(c)
         /\ model.phase \in {"Waiting", "Connected"} => model.pairing = socket.server
<1>1. socket.server \in Server /\ Serves(socket.server)
  BY SocketShape DEF Session, Attached
<1> QED
  BY <1>1, WhileServed DEF Session, Attached

\* The socket updates the model on behalf of its phone.
LEMMA SocketUpdates ==
  ASSUME Typed, Session, NEW m \in Model, NEW next \in {"open", "closing", "gone"},
         socket # None, SocketUpdate(m, next), UNCHANGED <<caller, lifecycle, status, knock>>,
         \/ m = Failed /\ (server # None => restartRequired)
         \/ m = TurnedOff /\ server = None
         \/ /\ model.phase \in {"Waiting", "Connected"} /\ model.pairing = m.pairing
            /\ m.phase \in {"Waiting", "Connected"},
         next = "open" => m = [phase |-> "Connected", pairing |-> socket.server,
                               controller |-> socket.id]
  PROVE  Session'
<1>1. /\ socket'.server = socket.server /\ socket'.id = socket.id
      /\ socket'.pc = "publish" /\ socket'.next = next /\ model' = m
      /\ UNCHANGED <<operation, server, restartRequired>>
  BY DEF SocketUpdate, UpdateModel, lifecycle
<1>2. socket.server \in Server /\ Serves(socket.server) /\ \A c \in Caller : ~ HasEnded(c)
  BY Seated DEF Typed
<1>3. Governed' /\ Listening'
  BY <1>1, <1>2, CallersKeep DEF Typed
<1>4. Attached'
  BY <1>1, <1>2 DEF Session, Attached, Serves, Failed, TurnedOff
<1>5. Remembers'
  BY <1>1 DEF Remembers, SocketAt, Playing
<1>6. Settled'
  BY <1>1 DEF Session, Settled, Truthful, InSession, Failed, TurnedOff
<1> QED
  BY <1>3, <1>4, <1>5, <1>6 DEF Session

LEMMA SocketSession ==
  ASSUME Typed, Session, SocketSide
  PROVE  Session'
<1>1. TypeOK /\ Remembers /\ Attached
  BY DEF Typed, Session
<1>2. \A pc : SocketAt(pc) => socket # None
  BY DEF SocketAt
<1>3. CASE (\E s \in Server : Knock(s)) \/ RejectSocket
  <2>1. /\ UNCHANGED <<caller, operation, server, restartRequired, status, model, socket>>
        /\ knock' # None => Serves(knock')
    BY <1>3 DEF Knock, RejectSocket, session, lifecycle, Serves
  <2>2. Remembers'
    BY <1>1, <2>1, RemembersStays
  <2> QED
    BY <1>1, <2>1, <2>2, SocketTurns DEF Attached
<1>4. CASE \E id \in Connection : ClaimSeat(id)
  <2>1. /\ UNCHANGED <<caller, operation, server, restartRequired, status, model>>
        /\ knock' = None /\ socket'.server = knock /\ socket'.pc = "check"
        /\ knock # None
    BY <1>4 DEF ClaimSeat, session, lifecycle
  <2>2. Remembers'
    BY <2>1 DEF Remembers, SocketAt, Playing
  <2> QED
    BY <1>1, <2>1, <2>2, SocketTurns DEF Attached
\* The socket goes to its next step, and remembers what it must.
<1>5. ASSUME NEW pc, socket # None, SocketGoto(pc), pc # "publish",
             UNCHANGED <<caller, operation, server, status, model, knock>>,
             restartRequired' = restartRequired \/ (server # None => restartRequired'),
             pc = "disconnectEnded" => server = None,
             pc = "disconnectActive" => model.phase # "Off",
             pc \in {"fail", "failLast"} => (server # None => restartRequired'),
             pc \in {"open", "play", "record"} => Playing
      PROVE  Session'
  <2>1. socket'.server = socket.server /\ socket'.id = socket.id /\ socket'.pc = pc
    BY <1>5 DEF SocketGoto
  <2>2. Remembers'
    BY <1>1, <1>5, <2>1 DEF Remembers, SocketAt, Playing
  <2> QED
    BY <1>1, <1>5, <2>1, <2>2, SocketTurns DEF Attached
<1>6. CASE CheckPhase \/ AttachToRuntime \/ ReleaseFromRuntime \/ CloseSocket
  <2>1. PICK pc \in {"closing", "attach", "connect", "require", "active", "requireLast"} :
          SocketGoto(pc)
    BY <1>6 DEF CheckPhase, AttachToRuntime, ReleaseFromRuntime, CallRuntime, CloseSocket
  <2>2. /\ socket # None
        /\ UNCHANGED <<caller, operation, server, restartRequired, status, model, knock>>
    BY <1>2, <1>6 DEF CheckPhase, AttachToRuntime, ReleaseFromRuntime, CallRuntime,
       CloseSocket, session, lifecycle
  <2> QED
    BY <1>5, <2>1, <2>2
<1>7. CASE PlayOnRuntime \/ ReceiveMessage \/ RecordLatency
  <2>1. PICK pc \in {"record", "require", "play", "open"} : SocketGoto(pc)
    BY <1>7 DEF PlayOnRuntime, CallRuntime, ReceiveMessage, RecordLatency
  <2>2. /\ socket # None /\ Playing
        /\ UNCHANGED <<caller, operation, server, restartRequired, status, model, knock>>
    BY <1>7 DEF PlayOnRuntime, CallRuntime, ReceiveMessage, RecordLatency, UpdateModel,
       SocketAt, Playing, session, lifecycle
  <2> QED
    BY <1>5, <2>1, <2>2
<1>8. CASE ReadServerActive
  <2>1. /\ socket # None
        /\ UNCHANGED <<caller, operation, server, restartRequired, status, model, knock>>
    BY <1>2, <1>8 DEF ReadServerActive, session, lifecycle
  <2>2. CASE server # None
    <3>1. model.phase # "Off"
      BY <1>1, <2>1, <2>2, Seated DEF Truthful
    <3> QED
      BY <1>5, <1>8, <2>1, <2>2, <3>1 DEF ReadServerActive
  <2>3. CASE server = None
    BY <1>5, <1>8, <2>1, <2>3 DEF ReadServerActive
  <2> QED
    BY <2>2, <2>3
<1>9. CASE RequireRestart
  BY <1>2, <1>5, <1>9 DEF RequireRestart, session
<1>10. CASE PublishSocket
  <2>1. /\ SocketAt("publish") /\ socket.next \in {"open", "closing", "gone"}
        /\ UNCHANGED <<caller, operation, server, restartRequired, status, model, knock>>
    BY <1>1, <1>2, <1>10, SocketShape DEF PublishSocket, session, lifecycle, SocketAt
  <2>2. CASE socket.next = "gone"
    <3>1. socket' = None
      BY <1>10, <2>2 DEF PublishSocket
    <3> QED
      BY <1>1, <2>1, <3>1, SocketTurns, RemembersStays DEF Attached
  <2>3. CASE socket.next # "gone"
    <3>1. SocketGoto(socket.next) /\ (socket.next = "open" => Playing)
      BY <1>10, <2>1, <2>3 DEF PublishSocket, Playing, SocketAt
    <3> QED
      BY <1>2, <1>5, <2>1, <2>3, <3>1
  <2> QED
    BY <2>2, <2>3
<1>11. CASE ConnectModel
  <2>1. socket # None /\ UNCHANGED <<caller, lifecycle, status, knock>>
    BY <1>2, <1>11 DEF ConnectModel
  <2>2. CASE model.phase = "Waiting"
    <3> DEFINE m == [model EXCEPT !.phase = "Connected", !.controller = socket.id]
    <3>1. socket.id \in Connection /\ m \in Model
      BY <1>1, <2>1, SocketShape, Models, TypeParts
    <3>2. m = [phase |-> "Connected", pairing |-> socket.server, controller |-> socket.id]
      <4>1. model.pairing = socket.server
        BY <1>1, <2>1, <2>2, Seated
      <4>2. model \in Model
        BY <1>1 DEF TypeOK
      <4>3. m.phase = "Connected" /\ m.pairing = socket.server /\ m.controller = socket.id
        BY <4>1, <4>2 DEF Model
      <4> HIDE DEF m
      <4> QED
        BY <3>1, <4>3 DEF Model
    <3>3. m.pairing = model.pairing /\ m.phase = "Connected"
      BY <1>1 DEF TypeOK, Model
    <3>4. \E next \in {"open", "closing"} : SocketUpdate(m, next)
      BY <1>11, <2>2 DEF ConnectModel
    <3> HIDE DEF m
    <3> QED
      BY <2>1, <2>2, <3>1, <3>2, <3>3, <3>4, SocketUpdates
  <2>3. CASE model.phase # "Waiting"
    BY <1>5, <1>11, <2>1, <2>3 DEF ConnectModel, session, lifecycle
  <2> QED
    BY <2>2, <2>3
<1>12. CASE DisconnectModel
  <2>1. socket # None /\ UNCHANGED <<caller, lifecycle, status, knock>>
    BY <1>2, <1>12 DEF DisconnectModel
  <2>2. CASE model.phase = "Error"
    <3>1. socket' = None /\ UNCHANGED model
      BY <1>12, <2>2 DEF DisconnectModel, session
    <3> QED
      BY <1>1, <2>1, <3>1, SocketTurns, RemembersStays DEF Attached, lifecycle
  <2>3. CASE model.phase # "Error" /\ SocketAt("disconnectActive")
    <3> DEFINE m == [model EXCEPT !.phase = "Waiting", !.controller = None]
    <3>1. SocketUpdate(m, "gone")
      BY <1>12, <2>3 DEF DisconnectModel, Disconnected, SocketAt
    <3>2. m \in Model /\ m.pairing = model.pairing /\ m.phase = "Waiting"
      BY <1>1 DEF TypeOK, Model, Phase
    <3>3. model.phase \in {"Waiting", "Connected"}
      BY <1>1, <2>3 DEF TypeOK, Model, Phase, Remembers
    <3> HIDE DEF m
    <3> QED
      BY <2>1, <3>1, <3>2, <3>3, SocketUpdates
  <2>4. CASE model.phase # "Error" /\ SocketAt("disconnectEnded")
    <3>1. SocketUpdate(TurnedOff, "gone") /\ server = None
      BY <1>1, <1>12, <2>4 DEF DisconnectModel, Disconnected, SocketAt, Remembers
    <3> QED
      BY <2>1, <3>1, Models, SocketUpdates
  <2> QED
    BY <1>12, <2>2, <2>3, <2>4 DEF DisconnectModel
<1>13. CASE FailSession
  <2>1. /\ socket # None /\ UNCHANGED <<caller, lifecycle, status, knock>>
        /\ server # None => restartRequired
    BY <1>1, <1>2, <1>13 DEF FailSession, Remembers
  <2>2. \E next \in {"closing", "gone"} : SocketUpdate(Failed, next)
    BY <1>13 DEF FailSession
  <2> QED
    BY <2>1, <2>2, Models, SocketUpdates
<1> QED
  BY <1>3, <1>4, <1>6, <1>7, <1>8, <1>9, <1>10, <1>11, <1>12, <1>13
     DEF SocketSide, SocketStep

LEMMA SessionStep ==
  ASSUME Typed, Session, [Next]_vars
  PROVE  Session'
<1>1. CASE UNCHANGED vars
  BY <1>1, Aside DEF vars, session, Typed
<1> QED
  BY <1>1, Sides, CallerSession, SocketSession

LEMMA SessionInit == Init => Delivering /\ Session
<1> SUFFICES ASSUME Init PROVE Delivering /\ Session
  OBVIOUS
<1>1. /\ \A c \in Caller : caller[c] = [pc |-> "idle"]
      /\ \A s \in Server : status[s] = "none"
      /\ knock = None /\ socket = None /\ server = None /\ observer = None
      /\ model = TurnedOff /\ revision = 0 /\ lastRevision = 0
  BY DEF Init, TurnedOff
<1>2. \A c \in Caller : ~ Busy(c) /\ ~ At(c, "publish")
  BY <1>1 DEF Busy, InSession, StartPc, At
<1>3. Pending = {}
  BY <1>1, <1>2 DEF Pending, SocketAt
<1>4. Delivering
  BY <1>1, <1>3 DEF Delivering, Arrived
<1>5. Governed /\ Listening
  BY <1>1, <1>2, Idlers DEF Governed, Exclusive, Listening, Running
<1>6. Attached /\ Remembers
  BY <1>1 DEF Attached, Serves, Remembers, SocketAt, Playing
<1>7. Settled
  BY <1>1 DEF Settled, Truthful, TurnedOff
<1> QED
  BY <1>4, <1>5, <1>6, <1>7 DEF Session

-----------------------------------------------------------------------------
(* The theorems.                                                            *)

\* The strengthened invariant holds from the start and along every step.
THEOREM SessionInductive == Spec => []SessionInv
<1>1. Init => SessionInv
  BY TypedInit, SessionInit DEF SessionInv
<1>2. SessionInv /\ [Next]_vars => SessionInv'
  BY TypedStep, DeliveringStep, SessionStep DEF SessionInv
<1> QED
  BY <1>1, <1>2, PTL DEF Spec

\* Every variable keeps to its type, epochs below their bound included.
THEOREM SessionTypeCorrect == Spec => []TypeOK
<1>1. SessionInv => TypeOK
  BY DEF SessionInv, Typed
<1> QED
  BY <1>1, SessionInductive, PTL

\* publish_model: whatever overtakes whatever, the observer in place was given
\* the latest snapshot once no delivery is on its way.
THEOREM SnapshotsConverge == Spec => []ObserverConverges
<1>1. SessionInv => ObserverConverges
  BY DeliveredIsLatest DEF SessionInv
<1> QED
  BY <1>1, SessionInductive, PTL

\* handle_connected, handle_disconnected: a phone that plays is the one shown,
\* on the server it is connected to.
THEOREM PlayingPhoneIsShown == Spec => []OpenSocketIsShown
<1>1. SessionInv => OpenSocketIsShown
  BY DEF SessionInv, Session, Remembers, Playing, SocketAt, OpenSocketIsShown
<1> QED
  BY <1>1, SessionInductive, PTL

\* Between operations the phase tells the truth about the listener.
THEOREM PhaseIsTrue == Spec => []IdlePhaseIsTrue
<1>1. ASSUME SessionInv, operation = Idle PROVE Truthful
  <2>1. \A c \in Caller : ~ InSession(c)
    BY <1>1 DEF SessionInv, Session, Governed, Exclusive, Busy
  <2> QED
    BY <1>1, <2>1 DEF SessionInv, Session, Settled
<1>2. SessionInv => IdlePhaseIsTrue
  BY <1>1 DEF IdlePhaseIsTrue, Truthful
<1> QED
  BY <1>2, SessionInductive, PTL

\* end: one listener at any time, and nothing is left of an ended session.
THEOREM EndIsFinal == Spec => []EndedSessionIsOver
<1>1. ASSUME SessionInv
      PROVE  Cardinality({s \in Server : Running(s)}) <= 1
  <2> DEFINE Listeners == {s \in Server : Running(s)}
  <2>1. \A s, t \in Listeners : s = t
    <3> SUFFICES ASSUME NEW s \in Listeners, NEW t \in Listeners PROVE s = t
      OBVIOUS
    <3>1. /\ s = server \/ \E c \in Caller : Holds(c, s)
          /\ t = server \/ \E c \in Caller : Holds(c, t)
      BY <1>1 DEF SessionInv, Session, Listening
    <3>2. \A c \in Caller, x \in Server : Holds(c, x) => server = None /\ Busy(c)
      BY <1>1, HoldersAreInSession DEF SessionInv, Session, Governed, Knows, Holds, At
    <3>3. \A c, d \in Caller : Holds(c, s) /\ Holds(d, t) => s = t
      BY <1>1, <3>2 DEF SessionInv, Session, Governed, Exclusive, Holds
    <3> QED
      BY <3>1, <3>2, <3>3, Bounds
  <2>2. Listeners = {} \/ \E s : Listeners = {s}
    BY <2>1
  <2>3. Cardinality(Listeners) \in {0, 1}
    BY <2>2, FS_EmptySet, FS_Singleton
  <2> QED
    BY <2>3
<1>2. ASSUME SessionInv, NEW c \in Caller, HasEnded(c)
      PROVE  /\ model.phase = "Off" /\ server = None /\ socket = None /\ knock = None
             /\ \A s \in Server : status[s] \in {"none", "gone"}
  <2>1. model.phase = "Off" /\ server = None /\ socket = None /\ knock = None
    BY <1>2, NoneServes DEF SessionInv, Typed, Session, Governed, Knows
  <2>2. Busy(c) /\ ~ InSession(c)
    BY <1>2 DEF HasEnded, Busy, At, InSession, StartPc
  <2>3. \A d \in Caller : ~ InSession(d)
    BY <1>2, <2>2, Alone, Idlers DEF SessionInv, Session
  <2>4. \A s \in Server : ~ Running(s)
    BY <1>2, <2>1, <2>3, HoldersAreInSession, Bounds DEF SessionInv, Session, Listening
  <2>5. \A s \in Server : status[s] \in {"none", "bound", "paired", "closing", "gone"}
    BY <1>2 DEF SessionInv, Typed, TypeOK
  <2> QED
    BY <2>1, <2>4, <2>5 DEF Running
<1>3. SessionInv => EndedSessionIsOver
  BY <1>1, <1>2 DEF EndedSessionIsOver, Running, HasEnded
<1> QED
  BY <1>3, SessionInductive, PTL

=============================================================================
