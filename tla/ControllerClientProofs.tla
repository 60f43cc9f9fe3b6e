------------------------ MODULE ControllerClientProofs ------------------------
(* The phone recovers, keeps to one connection, numbers its messages as the  *)
(* server expects them and agrees with it on the buttons, for any number of  *)
(* connections, buttons, retries and messages on the way.                    *)
EXTENDS ControllerClient, SequenceTheorems, TLAPS

(* The strengthened invariant.                                              *)

\* The phone by itself: when it has a connection, a retry, a heartbeat.
PhoneInv(p) ==
  /\ p.connection # 0 => /\ p.connection = p.generation
                         /\ p.reconnectEnabled /\ ~ p.retryTimer
                         /\ p.status \in {"connecting", "connected"}
  /\ p.status = "connected" => p.connection # 0
  /\ p.status = "disconnected" => ~ p.reconnectEnabled
  /\ ~ p.active => ~ p.retryTimer
  /\ (p.reconnectEnabled /\ p.connection = 0) =>
       IF p.active THEN p.retryTimer ELSE p.recoveryPending
  /\ p.pongDeadlineTimer = p.awaitedPong
  /\ p.nextPingTimer => p.awaitedPong = None
  /\ (p.nextPingTimer \/ p.awaitedPong # None) <=> (p.status = "connected" /\ p.active)

DeadlineOfThePing == deadlines = {phone.awaitedPong} \ {None}

\* What the link, the hello and the welcome of a connection say of the phone's.
Current(g) == Connected /\ phone.connection = g

Linked(g) ==
  /\ link[g] \in {"connecting", "open"} <=> g = phone.connection
  /\ Current(g) => link[g] = "open"
  /\ g > phone.generation => link[g] = "none"

Without(type, s) == \A i \in 1 .. Len(s) : s[i].type # type
Once(type, s) ==
  \A i, j \in 1 .. Len(s) : s[i].type = type /\ s[j].type = type => i = j

Greeted(g) ==
  /\ Once("hello", up[g])
  /\ link[g] \in {"none", "connecting"} =>
       Without("hello", up[g]) /\ socket[g] # "playing"
  /\ socket[g] = "playing" => Without("hello", up[g])

Welcomed(g) ==
  /\ Once("welcome", down[g])
  /\ Current(g) => Without("welcome", down[g]) /\ socket[g] \notin {"none", "hello"}
  /\ socket[g] \in {"none", "hello"} => Without("welcome", down[g])

Links == \A g \in Generation : Linked(g) /\ Greeted(g) /\ Welcomed(g)

PhoneAndLinks == TypeOK /\ PhoneInv(phone) /\ DeadlineOfThePing /\ Links

-----------------------------------------------------------------------------
LEMMA Bounds ==
  /\ MaxSequence \in Nat \ {0} /\ Retries \in Nat
  /\ MaxGeneration \in Nat /\ MaxInTransit \in Nat
  /\ None \notin Sequence /\ None \notin Nat
  /\ \A g \in Generation : g \in Nat /\ g # 0
  /\ \A n \in Sequence : Successor(n) \in Sequence
  BY ClientAssumption DEF Sequence, Generation, Successor

(* The methods of the session, on its fields.                               *)

\* What no timer and no retry changes.
SameUse(p, q) ==
  /\ q.desiredButtons = p.desiredButtons /\ q.generation = p.generation
  /\ q.active = p.active /\ q.nextSequence = p.nextSequence

NoHeartbeat(p) == ~ p.nextPingTimer /\ p.awaitedPong = None /\ p.pongDeadlineTimer = None

LEMMA CancelledHeartbeat ==
  ASSUME NEW p \in Phone
  PROVE  LET q == CancelHeartbeat(p)
         IN /\ q \in Phone /\ SameUse(p, q) /\ NoHeartbeat(q)
            /\ q.status = p.status /\ q.connection = p.connection
            /\ q.reconnectEnabled = p.reconnectEnabled /\ q.retryIndex = p.retryIndex
            /\ q.recoveryPending = p.recoveryPending /\ q.retryTimer = p.retryTimer
  BY DEF CancelHeartbeat, Phone, SameUse, NoHeartbeat

LEMMA CancelledTimers ==
  ASSUME NEW p \in Phone
  PROVE  LET q == CancelAllTimers(p)
         IN /\ q \in Phone /\ SameUse(p, q) /\ NoHeartbeat(q) /\ ~ q.retryTimer
            /\ q.status = p.status /\ q.connection = p.connection
            /\ q.reconnectEnabled = p.reconnectEnabled /\ q.retryIndex = p.retryIndex
            /\ q.recoveryPending = p.recoveryPending
  BY DEF CancelAllTimers, CancelHeartbeat, Phone, SameUse, NoHeartbeat

\* A phone that lost its connection while it recovers.
LEMMA RetryScheduled ==
  ASSUME NEW p \in Phone, p.connection = 0, p.reconnectEnabled, ~ p.retryTimer
  PROVE  LET q == ScheduleRetry(p)
         IN /\ q \in Phone /\ SameUse(p, q) /\ q.connection = 0
            /\ q.status \in {"connecting", "server-unavailable"} /\ PhoneInv(q)
<1> DEFINE h == CancelHeartbeat(p)
<1>1. /\ h \in Phone /\ SameUse(p, h) /\ NoHeartbeat(h) /\ h.connection = 0
      /\ h.reconnectEnabled /\ h.retryIndex = p.retryIndex /\ ~ h.retryTimer
  BY CancelledHeartbeat
<1> HIDE DEF h
<1>2. CASE ~ p.active
  <2>1. ScheduleRetry(p) = [h EXCEPT !.recoveryPending = TRUE, !.status = "connecting"]
    BY <1>2 DEF ScheduleRetry, h
  <2> DEFINE q == [h EXCEPT !.recoveryPending = TRUE, !.status = "connecting"]
  <2>2. /\ q \in Phone /\ SameUse(h, q) /\ NoHeartbeat(q) /\ q.connection = 0
        /\ q.recoveryPending /\ q.status = "connecting" /\ ~ q.retryTimer
    BY <1>1 DEF Phone, Status, SameUse, NoHeartbeat
  <2> HIDE DEF q
  <2> QED
    BY <1>1, <1>2, <2>1, <2>2 DEF PhoneInv, SameUse, NoHeartbeat, q
<1>3. CASE p.active /\ p.retryIndex = Retries
  <2>1. ScheduleRetry(p) =
          [h EXCEPT !.reconnectEnabled = FALSE, !.status = "server-unavailable"]
    BY <1>3 DEF ScheduleRetry, h
  <2> DEFINE q == [h EXCEPT !.reconnectEnabled = FALSE, !.status = "server-unavailable"]
  <2>2. /\ q \in Phone /\ SameUse(h, q) /\ NoHeartbeat(q) /\ q.connection = 0
        /\ ~ q.reconnectEnabled /\ q.status = "server-unavailable" /\ ~ q.retryTimer
    BY <1>1 DEF Phone, Status, SameUse, NoHeartbeat
  <2> HIDE DEF q
  <2> QED
    BY <1>1, <1>3, <2>1, <2>2 DEF PhoneInv, SameUse, NoHeartbeat, q
<1>4. CASE p.active /\ p.retryIndex # Retries
  <2>1. ScheduleRetry(p) = [h EXCEPT !.retryIndex = @ + 1, !.status = "connecting",
                                     !.retryTimer = TRUE]
    BY <1>4 DEF ScheduleRetry, h
  <2> DEFINE q == [h EXCEPT !.retryIndex = @ + 1, !.status = "connecting",
                            !.retryTimer = TRUE]
  <2>2. h.retryIndex + 1 \in 0 .. Retries
    BY <1>1, <1>4, Bounds DEF Phone
  <2>3. /\ q \in Phone /\ SameUse(h, q) /\ NoHeartbeat(q) /\ q.connection = 0
        /\ q.reconnectEnabled /\ q.status = "connecting" /\ q.retryTimer
    BY <1>1, <2>2 DEF Phone, Status, SameUse, NoHeartbeat
  <2> HIDE DEF q
  <2> QED
    BY <1>1, <1>4, <2>1, <2>3 DEF PhoneInv, SameUse, NoHeartbeat, q
<1> QED
  BY <1>2, <1>3, <1>4 DEF Phone

\* What an opened, or postponed, connection leaves of the phone.
Opens(p, q) ==
  /\ q \in Phone /\ PhoneInv(q) /\ q.status = "connecting"
  /\ q.desiredButtons = p.desiredButtons /\ q.nextSequence = p.nextSequence
  /\ \/ q.connection = p.generation + 1 /\ q.generation = p.generation + 1
     \/ q.connection = 0 /\ q.generation = p.generation

LEMMA ConnectionStarted ==
  ASSUME NEW p \in Phone, p.connection = 0, p.reconnectEnabled, ~ p.retryTimer,
         p.generation < MaxGeneration
  PROVE  Opens(p, StartConnection(p))
<1> DEFINE h == CancelHeartbeat(p)
           r == [h EXCEPT !.status = "connecting"]
<1>1. /\ h \in Phone /\ SameUse(p, h) /\ NoHeartbeat(h) /\ h.connection = 0
      /\ h.reconnectEnabled /\ ~ h.retryTimer
  BY CancelledHeartbeat
<1> HIDE DEF h
<1>2. /\ r \in Phone /\ SameUse(p, r) /\ NoHeartbeat(r) /\ r.connection = 0
      /\ r.reconnectEnabled /\ ~ r.retryTimer /\ r.status = "connecting"
  BY <1>1 DEF Phone, Status, SameUse, NoHeartbeat
<1>3. p.generation + 1 \in Generation /\ p.generation \in Nat
  BY Bounds DEF Phone, Generation
<1>4. StartConnection(p) = IF ~ r.active THEN [r EXCEPT !.recoveryPending = TRUE]
                           ELSE [r EXCEPT !.generation = @ + 1,
                                          !.connection = p.generation + 1]
  BY DEF StartConnection, h
<1> HIDE DEF r
<1>5. CASE ~ r.active
  <2> DEFINE q == [r EXCEPT !.recoveryPending = TRUE]
  <2>1. /\ q \in Phone /\ SameUse(r, q) /\ NoHeartbeat(q) /\ q.connection = 0
        /\ q.recoveryPending /\ q.status = "connecting" /\ ~ q.retryTimer
    BY <1>2 DEF Phone, SameUse, NoHeartbeat
  <2>2. StartConnection(p) = q
    BY <1>4, <1>5
  <2> HIDE DEF q
  <2> QED
    BY <1>2, <1>5, <2>1, <2>2 DEF PhoneInv, Opens, SameUse, NoHeartbeat
<1>6. CASE r.active
  <2> DEFINE q == [r EXCEPT !.generation = @ + 1, !.connection = p.generation + 1]
  <2>1. r.generation + 1 = p.generation + 1 /\ r.generation + 1 \in 0 .. MaxGeneration
    BY <1>2, <1>3, Bounds DEF SameUse, Generation
  <2>2. /\ q \in Phone /\ NoHeartbeat(q) /\ q.connection = p.generation + 1
        /\ q.generation = p.generation + 1 /\ q.active /\ q.reconnectEnabled
        /\ q.status = "connecting" /\ ~ q.retryTimer
        /\ q.desiredButtons = r.desiredButtons /\ q.nextSequence = r.nextSequence
    BY <1>2, <1>3, <1>6, <2>1 DEF Phone, NoHeartbeat
  <2>3. StartConnection(p) = q
    BY <1>4, <1>6
  <2> HIDE DEF q
  <2> QED
    BY <1>2, <1>3, <2>2, <2>3, Bounds DEF PhoneInv, Opens, SameUse, NoHeartbeat
<1> QED
  BY <1>5, <1>6


-----------------------------------------------------------------------------
(* Messages on the way.                                                     *)

LEMMA MessageTypes ==
  /\ Msg("hello") \in UpMessage /\ Msg("close") \in UpMessage
  /\ \A buttons \in SUBSET Button, n \in Sequence : StateSync(buttons, n) \in UpMessage
  /\ \A type \in {"button-down", "button-up"}, button \in Button, n \in Sequence :
       Delta(type, button, n) \in UpMessage
  /\ \A n \in Sequence : Ping(n) \in UpMessage
  /\ \A type \in {"open", "welcome", "controller-disconnected", "close"} :
       Msg(type) \in DownMessage /\ Msg(type).type = type
  /\ \A reason \in Reason : [type |-> "rejected", reason |-> reason] \in DownMessage
  /\ \A n \in Sequence : [type |-> "pong", sequence |-> n] \in DownMessage
<1>1. \A type \in {"hello", "close"} : Msg(type) \in [type : {"hello", "close"}]
  BY DEF Msg
<1>2. \A buttons \in SUBSET Button, n \in Sequence :
        StateSync(buttons, n)
          \in [type : {"state-sync"}, buttons : SUBSET Button, sequence : Sequence]
  BY DEF StateSync
<1>3. \A type \in {"button-down", "button-up"}, button \in Button, n \in Sequence :
        Delta(type, button, n)
          \in [type : {"button-down", "button-up"}, button : Button, sequence : Sequence]
  BY DEF Delta
<1>4. \A n \in Sequence : Ping(n) \in [type : {"ping"}, sequence : Sequence]
  BY DEF Ping
<1>5. \A type \in {"open", "welcome", "controller-disconnected", "close"} :
        /\ Msg(type) \in [type : {"open", "welcome", "controller-disconnected", "close"}]
        /\ Msg(type).type = type
  BY DEF Msg
<1>6. \A reason \in Reason :
        [type |-> "rejected", reason |-> reason] \in [type : {"rejected"}, reason : Reason]
  OBVIOUS
<1>7. \A n \in Sequence :
        [type |-> "pong", sequence |-> n] \in [type : {"pong"}, sequence : Sequence]
  OBVIOUS
<1> QED
  BY <1>1, <1>2, <1>3, <1>4, <1>5, <1>6, <1>7 DEF UpMessage, DownMessage

LEMMA RestOf ==
  ASSUME NEW S, NEW s \in Seq(S), s # <<>>
  PROVE  /\ Tail(s) \in Seq(S) /\ Head(s) = s[1] /\ Head(s) \in S
         /\ Len(s) \in Nat \ {0} /\ Len(Tail(s)) = Len(s) - 1
         /\ \A i \in 1 .. Len(Tail(s)) : Tail(s)[i] = s[i + 1] /\ i + 1 \in 1 .. Len(s)
<1>1. /\ Tail(s) \in Seq(S) /\ Head(s) \in S /\ Len(Tail(s)) = Len(s) - 1
      /\ \A i \in 1 .. Len(Tail(s)) : Tail(s)[i] = s[i + 1]
  BY HeadTailProperties
<1>2. Head(s) = s[1] /\ Len(s) \in Nat \ {0}
  BY EmptySeq, LenProperties
<1> QED
  BY <1>1, <1>2

LEMMA Joined ==
  ASSUME NEW S, NEW s \in Seq(S), NEW t \in Seq(S)
  PROVE  /\ s \o t \in Seq(S) /\ Len(s) \in Nat /\ Len(t) \in Nat
         /\ Len(s \o t) = Len(s) + Len(t)
         /\ \A i \in 1 .. Len(s) + Len(t) :
              /\ i <= Len(s) => i \in 1 .. Len(s) /\ (s \o t)[i] = s[i]
              /\ i > Len(s) => i - Len(s) \in 1 .. Len(t) /\ (s \o t)[i] = t[i - Len(s)]
<1>1. Len(s) \in Nat /\ Len(t) \in Nat
  BY LenProperties
<1>2. /\ s \o t \in Seq(S) /\ Len(s \o t) = Len(s) + Len(t)
      /\ \A i \in 1 .. Len(s) + Len(t) :
           (s \o t)[i] = IF i <= Len(s) THEN s[i] ELSE t[i - Len(s)]
  BY ConcatProperties
<1> QED
  BY <1>1, <1>2

LEMMA OnceOfRest ==
  ASSUME NEW S, NEW type, NEW s \in Seq(S), s # <<>>, Once(type, s)
  PROVE  /\ Once(type, Tail(s))
         /\ Without(type, s) => Without(type, Tail(s))
         /\ Head(s).type = type => Without(type, Tail(s))
  BY RestOf DEF Once, Without

LEMMA OnceOfJoined ==
  ASSUME NEW S, NEW type, NEW s \in Seq(S), NEW t \in Seq(S), Once(type, s)
  PROVE  /\ Without(type, t) => Once(type, s \o t)
         /\ Without(type, t) /\ Without(type, s) => Without(type, s \o t)
         /\ (Without(type, s) /\ Len(t) = 1) => Once(type, s \o t)
<1>1. Without(type, t) => Once(type, s \o t)
  BY Joined DEF Once, Without
<1>2. Without(type, t) /\ Without(type, s) => Without(type, s \o t)
  BY Joined DEF Without
<1>3. ASSUME Without(type, s), Len(t) = 1
      PROVE  Once(type, s \o t)
  <2>1. \A i \in 1 .. Len(s) + 1 : (s \o t)[i].type = type => i = Len(s) + 1
    BY <1>3, Joined DEF Without
  <2> QED
    BY <1>3, <2>1, Joined DEF Once
<1> QED
  BY <1>1, <1>2, <1>3

LEMMA NothingOnTheWay ==
  /\ \A type : Once(type, <<>>) /\ Without(type, <<>>)
  /\ <<>> \in Seq(DownMessage) /\ <<>> \in Seq(UpMessage)
  BY DEF Once, Without

-----------------------------------------------------------------------------
(* What a step does to the phone.                                           *)

\* The phone gave up its connection, or had none.
Ends(p, q) ==
  /\ q \in Phone /\ PhoneInv(q) /\ q.connection = 0 /\ q.status # "connected"
  /\ q.generation = p.generation
  /\ p.status = "disconnected" => q.status = "disconnected"

LEMMA ConnectionEnded ==
  ASSUME NEW p \in Phone, PhoneInv(p)
  PROVE  LET q == ScheduleRetry(CancelHeartbeat([p EXCEPT !.connection = 0]))
         IN Ends(p, q) /\ SameUse(p, q)
<1> DEFINE n == [p EXCEPT !.connection = 0]
           h == CancelHeartbeat(n)
<1>1. /\ n \in Phone /\ SameUse(p, n) /\ n.connection = 0 /\ n.status = p.status
      /\ n.reconnectEnabled = p.reconnectEnabled /\ n.retryTimer = p.retryTimer
      /\ n.recoveryPending = p.recoveryPending
  BY DEF Phone, SameUse
<1> HIDE DEF n
<1>2. /\ h \in Phone /\ SameUse(p, h) /\ NoHeartbeat(h) /\ h.connection = 0
      /\ h.status = p.status /\ h.reconnectEnabled = p.reconnectEnabled
      /\ h.retryTimer = p.retryTimer /\ h.recoveryPending = p.recoveryPending
  BY <1>1, CancelledHeartbeat DEF SameUse
<1> HIDE DEF h
<1>3. CASE h.reconnectEnabled /\ ~ h.retryTimer
  <2>1. p.status # "disconnected"
    BY <1>2, <1>3 DEF PhoneInv
  <2> QED
    BY <1>2, <1>3, <2>1, RetryScheduled DEF Ends, SameUse, h, n
<1>4. CASE ~ h.reconnectEnabled \/ h.retryTimer
  <2>1. ScheduleRetry(h) = h
    BY <1>4 DEF ScheduleRetry
  <2>2. p.connection = 0 /\ p.status # "connected"
    BY <1>2, <1>4 DEF PhoneInv
  <2>3. Ends(p, h)
    BY <1>2, <1>4, <2>2 DEF PhoneInv, Ends, SameUse, NoHeartbeat
  <2> QED
    BY <1>2, <2>1, <2>3 DEF h, n
<1> QED
  BY <1>3, <1>4, <1>2 DEF Phone

\* A phone that recovers gives up its connection, whatever is left of the ping.
LEMMA RecoveryStarted ==
  ASSUME NEW p \in Phone, p.reconnectEnabled, ~ p.retryTimer
  PROVE  LET q == CloseForRecovery(p)
         IN /\ q \in Phone /\ PhoneInv(q) /\ q.connection = 0 /\ SameUse(p, q)
            /\ q.status \in {"connecting", "server-unavailable"}
<1> DEFINE n == [p EXCEPT !.connection = 0]
<1>1. /\ n \in Phone /\ SameUse(p, n) /\ n.connection = 0
      /\ n.reconnectEnabled /\ ~ n.retryTimer
  BY DEF Phone, SameUse
<1>2. CloseForRecovery(p) = ScheduleRetry(n)
  BY DEF CloseForRecovery
<1> HIDE DEF n
<1> QED
  BY <1>1, <1>2, RetryScheduled DEF SameUse

LEMMA FailedForGood ==
  ASSUME NEW p \in Phone, NEW status \in {"expired-token", "controller-in-use",
                                          "server-unavailable"}
  PROVE  LET q == FailTerminal(p, status)
         IN /\ q \in Phone /\ PhoneInv(q) /\ q.connection = 0 /\ SameUse(p, q)
            /\ q.status = status
<1> DEFINE h == CancelAllTimers(p)
           q == [h EXCEPT !.reconnectEnabled = FALSE, !.recoveryPending = FALSE,
                          !.connection = 0, !.status = status]
<1>1. h \in Phone /\ SameUse(p, h) /\ NoHeartbeat(h) /\ ~ h.retryTimer
  BY CancelledTimers
<1>2. FailTerminal(p, status) = q
  BY DEF FailTerminal
<1> HIDE DEF h
<1>3. /\ q \in Phone /\ SameUse(p, q) /\ NoHeartbeat(q) /\ ~ q.retryTimer
      /\ ~ q.reconnectEnabled /\ q.connection = 0 /\ q.status = status
  BY <1>1 DEF Phone, Status, SameUse, NoHeartbeat
<1> HIDE DEF q
<1> QED
  BY <1>2, <1>3 DEF PhoneInv, NoHeartbeat

LEMMA PingScheduled ==
  ASSUME NEW p \in Phone, p.awaitedPong = None, p.pongDeadlineTimer = None,
         p.connection = p.generation, p.connection # 0, p.reconnectEnabled,
         ~ p.retryTimer, p.status = "connected", ~ p.active => ~ p.nextPingTimer
  PROVE  LET q == ScheduleNextPing(p)
         IN /\ q \in Phone /\ PhoneInv(q) /\ SameUse(p, q)
            /\ q.connection = p.connection /\ q.status = "connected"
            /\ q.awaitedPong = None
<1>1. CASE p.active
  <2> DEFINE q == [p EXCEPT !.nextPingTimer = TRUE]
  <2>1. ScheduleNextPing(p) = q
    BY <1>1 DEF ScheduleNextPing
  <2>2. /\ q \in Phone /\ SameUse(p, q) /\ q.nextPingTimer /\ q.awaitedPong = None
        /\ q.pongDeadlineTimer = None /\ q.connection = p.connection
        /\ q.reconnectEnabled /\ ~ q.retryTimer /\ q.status = "connected"
    BY DEF Phone, SameUse
  <2> HIDE DEF q
  <2> QED
    BY <1>1, <2>1, <2>2 DEF PhoneInv, SameUse
<1>2. CASE ~ p.active
  <2>1. ScheduleNextPing(p) = p
    BY <1>2 DEF ScheduleNextPing
  <2> QED
    BY <1>2, <2>1 DEF PhoneInv, SameUse
<1> QED
  BY <1>1, <1>2

-----------------------------------------------------------------------------
(* What a step does to the links and the messages.                          *)

Wires ==
  /\ link \in [Generation -> {"none", "connecting", "open", "closing", "closed"}]
  /\ up \in [Generation -> Seq(UpMessage)]
  /\ down \in [Generation -> Seq(DownMessage)]
  /\ cut \subseteq Generation

\* The phone keeps its connection, gives it up, or opens one when it has none,
\* and is not connected unless it keeps a connection that was.
Moves ==
  /\ \/ phone'.connection = phone.connection
     \/ phone'.connection = 0
     \/ /\ phone.connection = 0 /\ phone'.connection \in Generation
        /\ phone'.connection > phone.generation
  /\ phone.generation <= phone'.generation /\ phone'.connection <= phone'.generation
  /\ Connected' => Connected /\ phone'.connection = phone.connection

\* The phone opens a connection or postpones that.
Opening ==
  /\ phone.connection = 0 /\ ~ Connected'
  /\ phone'.connection = 0 \/ phone'.connection > phone.generation

\* The phone gives up its connection, or has none.
Closing == phone'.connection = 0 /\ ~ Connected'

\* The phone changes nothing that the server hears of.
Staying ==
  /\ phone'.connection = phone.connection /\ phone'.status = phone.status
  /\ phone'.nextSequence = phone.nextSequence
  /\ phone'.desiredButtons = phone.desiredButtons

LEMMA LinkMoves ==
  ASSUME NEW messages, Transmit(messages), NEW g \in Generation
  PROVE  link'[g] = IF g = phone.connection /\ phone'.connection = 0 THEN "closing"
                    ELSE IF g = phone'.connection /\ g # phone.connection
                      THEN "connecting" ELSE link[g]
<1>1. g # 0
  BY Bounds
<1>2. link' = [h \in Generation |->
                CASE h = phone.connection /\ phone.connection # 0 /\ phone'.connection = 0 ->
                       "closing"
                  [] h = phone'.connection /\ h # phone.connection -> "connecting"
                  [] OTHER -> link[h]]
  BY DEF Transmit
<1> QED
  BY <1>1, <1>2

LEMMA Transmitted ==
  ASSUME TypeOK, phone' \in Phone, Links, Moves, NEW messages \in Seq(UpMessage),
         Without("hello", messages), Transmit(messages), UNCHANGED socket
  PROVE  Wires' /\ Links'
<1> DEFINE old == phone.connection
           closes == old # 0 /\ phone'.connection = 0
           sent == messages \o (IF closes THEN <<Msg("close")>> ELSE <<>>)
<1>1. sent \in Seq(UpMessage) /\ Without("hello", sent)
  <2> DEFINE end == IF closes THEN <<Msg("close")>> ELSE <<>>
  <2>1. end \in Seq(UpMessage)
    BY MessageTypes
  <2>2. Without("hello", end)
    BY DEF Without, Msg
  <2>3. Once("hello", messages)
    BY DEF Once, Without
  <2> HIDE DEF end
  <2>4. messages \o end \in Seq(UpMessage) /\ Without("hello", messages \o end)
    BY <2>1, <2>2, <2>3, Joined, OnceOfJoined
  <2> QED
    BY <2>4 DEF end
<1>2. \A g \in Generation :
        Carried(g, sent) \in Seq(UpMessage) /\ Without("hello", Carried(g, sent))
  BY <1>1, NothingOnTheWay DEF Carried
<1>3. up' = [g \in Generation |->
               IF g = old THEN up[g] \o Carried(g, sent) ELSE up[g]]
  BY DEF Transmit
<1> HIDE DEF sent
<1>4. up' \in [Generation -> Seq(UpMessage)]
  <2>1. \A g \in Generation : up[g] \o Carried(g, sent) \in Seq(UpMessage)
    BY <1>2, Joined DEF TypeOK
  <2> QED
    BY <1>3, <2>1 DEF TypeOK
<1>5. link' = [g \in Generation |->
                CASE g = old /\ closes                 -> "closing"
                  [] g = phone'.connection /\ g # old -> "connecting"
                  [] OTHER                            -> link[g]]
  BY DEF Transmit
<1>6. down' = [g \in Generation |-> IF g = old /\ closes THEN <<>> ELSE down[g]]
  BY DEF Transmit
<1>7. cut' = cut
  BY DEF Transmit
<1>8. \A g \in Generation :
        link'[g] = IF g = old /\ closes THEN "closing"
                   ELSE IF g = phone'.connection /\ g # old THEN "connecting"
                   ELSE link[g]
  BY LinkMoves, Bounds
<1>9. Wires'
  <2>1. DOMAIN link' = Generation /\ link' = [g \in Generation |-> link'[g]]
    BY <1>5
  <2>2. \A g \in Generation :
          link'[g] \in {"none", "connecting", "open", "closing", "closed"}
    BY <1>8 DEF TypeOK
  <2>3. link' \in [Generation -> {"none", "connecting", "open", "closing", "closed"}]
    BY <2>1, <2>2
  <2>4. down' \in [Generation -> Seq(DownMessage)]
    BY <1>6, NothingOnTheWay DEF TypeOK
  <2> QED
    BY <1>4, <1>7, <2>3, <2>4 DEF Wires, TypeOK
<1>10. ASSUME NEW g \in Generation
       PROVE  Linked(g)' /\ Greeted(g)' /\ Welcomed(g)'
  <2>1. Linked(g) /\ Greeted(g) /\ Welcomed(g)
    BY DEF Links
  <2>2. /\ 0 \notin Generation /\ g \in Nat
        /\ phone.generation \in Nat /\ phone'.generation \in Nat
    BY Bounds DEF TypeOK, Phone
  <2>3. Linked(g)'
    <3>1. (link'[g] \in {"connecting", "open"} <=> g = phone'.connection)
          /\ (Current(g)' => link'[g] = "open")
      BY <1>8, <2>1, <2>2 DEF Linked, Moves, Current
    <3>2. g > phone'.generation => link'[g] = "none"
      BY <1>8, <2>1, <2>2 DEF Linked, Moves
    <3> QED
      BY <3>1, <3>2 DEF Linked
  <2>7. link'[g] \in {"none", "connecting"} => link[g] \in {"none", "connecting"}
    BY <1>8, <2>1, <2>2 DEF Linked, Moves
  <2>8. Greeted(g)'
    <3>1. CASE g # old
      BY <1>3, <2>1, <2>7, <3>1 DEF Greeted
    <3>2. CASE g = old
      <4>1. up'[g] = up[g] \o Carried(g, sent)
        BY <1>3, <3>2
      <4>2. up[g] \in Seq(UpMessage) /\ Once("hello", up[g])
        BY <2>1 DEF TypeOK, Greeted
      <4>3. /\ Once("hello", up'[g])
            /\ Without("hello", up[g]) => Without("hello", up'[g])
        BY <1>2, <4>1, <4>2, OnceOfJoined
      <4> QED
        BY <2>1, <2>7, <4>3 DEF Greeted
    <3> QED
      BY <3>1, <3>2
  <2>4. Current(g)' => Current(g)
    BY DEF Current, Moves
  <2>5. down'[g] = down[g] \/ down'[g] = <<>>
    BY <1>6
  <2>6. Welcomed(g)'
    BY <2>1, <2>4, <2>5, NothingOnTheWay DEF Welcomed
  <2> QED
    BY <2>3, <2>6, <2>8
<1> QED
  BY <1>9, <1>10 DEF Links

\* The events after which the phone keeps its connection.
LEMMA Consumed ==
  ASSUME TypeOK, Links, NEW g \in Generation, down[g] # <<>>,
         NEW messages \in Seq(UpMessage), Consume(g, messages)
  PROVE  /\ up' \in [Generation -> Seq(UpMessage)]
         /\ down' \in [Generation -> Seq(DownMessage)] /\ cut' \subseteq Generation
         /\ Once("welcome", down'[g]) /\ (Without("welcome", down[g]) => Without("welcome", down'[g]))
         /\ Head(down[g]).type = "welcome" => Without("welcome", down'[g])
         /\ up'[g] = up[g] \o Carried(g, messages)
         /\ Carried(g, messages) \in Seq(UpMessage)
         /\ \A h \in Generation \ {g} : up'[h] = up[h]
         /\ \A h \in Generation \ {g} : down'[h] = down[h]
<1>1. down[g] \in Seq(DownMessage) /\ Once("welcome", down[g])
  BY DEF TypeOK, Links, Welcomed
<1>2. Carried(g, messages) \in Seq(UpMessage) /\ up[g] \in Seq(UpMessage)
  BY NothingOnTheWay DEF Carried, TypeOK
<1>3. up[g] \o Carried(g, messages) \in Seq(UpMessage)
  BY <1>2, Joined
<1>4. Tail(down[g]) \in Seq(DownMessage)
  BY <1>1, RestOf
<1>5. down'[g] = Tail(down[g]) /\ \A h \in Generation \ {g} : down'[h] = down[h]
  BY DEF Consume, TypeOK
<1>6. /\ up' \in [Generation -> Seq(UpMessage)]
      /\ down' \in [Generation -> Seq(DownMessage)] /\ cut' \subseteq Generation
  BY <1>3, <1>4 DEF Consume, TypeOK
<1>7. /\ up'[g] = up[g] \o Carried(g, messages)
      /\ \A h \in Generation \ {g} : up'[h] = up[h]
  BY DEF Consume, TypeOK
<1> QED
  BY <1>1, <1>2, <1>5, <1>6, <1>7, OnceOfRest

\* What greeted a connection is not said again.
LEMMA NotGreetedAgain ==
  ASSUME TypeOK, Links, NEW g \in Generation, NEW messages \in Seq(UpMessage),
         Without("hello", messages), up'[g] = up[g] \o messages,
         \A h \in Generation \ {g} : up'[h] = up[h],
         UNCHANGED <<link, socket>>
  PROVE  \A h \in Generation : Greeted(h)'
<1>1. up[g] \in Seq(UpMessage) /\ Once("hello", up[g])
  BY DEF TypeOK, Links, Greeted
<1>2. Once("hello", up'[g]) /\ (Without("hello", up[g]) => Without("hello", up'[g]))
  BY <1>1, OnceOfJoined
<1> QED
  BY <1>2 DEF Links, Greeted

\* The last event of a connection.
LEMMA Finished ==
  ASSUME TypeOK, PhoneInv(phone), Links, NEW g \in Generation, Finish(g), UNCHANGED socket,
         phone'.connection = IF g = phone.generation THEN 0 ELSE phone.connection,
         phone'.generation = phone.generation, link[g] # "none",
         Connected' => Connected /\ phone'.connection = phone.connection
  PROVE  Wires' /\ Links'
<1>1. Wires'
  BY NothingOnTheWay DEF Finish, TypeOK, Wires
<1>2. phone.connection # 0 => phone.connection = phone.generation
  BY DEF PhoneInv
<1>3. ASSUME NEW h \in Generation
      PROVE  Linked(h)' /\ Greeted(h)' /\ Welcomed(h)'
  <2>1. Linked(h) /\ Greeted(h) /\ Welcomed(h) /\ h # 0
    BY Bounds DEF Links
  <2>2. link'[h] = IF h = g THEN "closed" ELSE link[h]
    BY DEF Finish, TypeOK
  <2>3. down'[h] = IF h = g THEN <<>> ELSE down[h]
    BY DEF Finish, TypeOK
  <2>4. Current(h)' => Current(h)
    BY DEF Current
  <2>5. Linked(h)'
    BY <1>2, <2>1, <2>2, <2>4 DEF Linked, Current
  <2>6. Welcomed(h)'
    BY <2>1, <2>3, <2>4, NothingOnTheWay DEF Welcomed
  <2>7. Greeted(h)'
    BY <2>1, <2>2 DEF Greeted, Finish
  <2> QED
    BY <2>5, <2>6, <2>7
<1> QED
  BY <1>1, <1>3 DEF Links

\* The answers of the server.
LEMMA Answered ==
  ASSUME TypeOK, Links, NEW g \in Generation, NEW messages \in Seq(DownMessage),
         Answer(g, messages), UNCHANGED <<phone, link>>,
         NEW stands \in {"hello", "playing", "ended"},
         socket' = [socket EXCEPT ![g] = stands],
         stands = "hello" => socket[g] = "none",
         \/ Without("welcome", messages)
         \/ socket[g] = "hello" /\ stands = "playing" /\ Len(messages) = 1,
         \A h \in Generation : Greeted(h)'
  PROVE  down' \in [Generation -> Seq(DownMessage)] /\ Links'
<1>1. down[g] \in Seq(DownMessage) /\ Linked(g) /\ Welcomed(g)
  BY DEF TypeOK, Links
<1>2. down[g] \o messages \in Seq(DownMessage)
  BY <1>1, Joined
<1>3. down'[g] \in {<<>>, down[g] \o messages}
  BY DEF Answer, TypeOK
<1>4. down' \in [Generation -> Seq(DownMessage)]
  BY <1>2, NothingOnTheWay DEF Answer, TypeOK
<1>5. \A h \in Generation \ {g} : down'[h] = down[h] /\ socket'[h] = socket[h]
  BY DEF Answer, TypeOK
<1>6. socket'[g] = stands
  BY DEF TypeOK
<1>7. \A h \in Generation : Current(h)' <=> Current(h)
  BY DEF Current, Connected
<1>8. Welcomed(g)'
  <2>1. /\ Without("welcome", messages) => Once("welcome", down[g] \o messages)
        /\ Without("welcome", messages) /\ Without("welcome", down[g]) =>
             Without("welcome", down[g] \o messages)
        /\ Without("welcome", down[g]) /\ Len(messages) = 1 =>
             Once("welcome", down[g] \o messages)
    BY <1>1, OnceOfJoined DEF Welcomed
  <2>2. CASE Without("welcome", messages)
    BY <1>1, <1>3, <1>6, <1>7, <2>1, <2>2, NothingOnTheWay DEF Welcomed
  <2>3. CASE socket[g] = "hello" /\ stands = "playing" /\ Len(messages) = 1
    BY <1>1, <1>3, <1>6, <1>7, <2>1, <2>3, NothingOnTheWay DEF Welcomed
  <2> QED
    BY <2>2, <2>3
<1>9. \A h \in Generation : Linked(h)' /\ (h # g => Welcomed(h)')
  BY <1>5, <1>7 DEF Links, Linked, Welcomed
<1> QED
  BY <1>4, <1>8, <1>9 DEF Links

-----------------------------------------------------------------------------
(* The kinds of steps.                                                      *)

LEMMA DeadlineCleared ==
  ASSUME TypeOK, PhoneInv(phone), DeadlineOfThePing, PhoneInv(phone'), ClearTimeouts,
         phone'.awaitedPong \in {None, phone.awaitedPong}
  PROVE  DeadlineOfThePing'
  BY DEF PhoneInv, DeadlineOfThePing, ClearTimeouts

LEMMA Assembled ==
  ASSUME TypeOK, phone' \in Phone, PhoneInv(phone'), DeadlineOfThePing', Wires', Links',
         UNCHANGED server
  PROVE  PhoneAndLinks'
<1>1. deadlines' \subseteq Sequence
  BY DEF DeadlineOfThePing, Phone
<1> QED
  BY <1>1 DEF PhoneAndLinks, TypeOK, Wires, server

\* The phone keeps its connection, or has none, and says something.
LEMMA Kept ==
  ASSUME PhoneAndLinks, phone' \in Phone, PhoneInv(phone'), DeadlineOfThePing',
         phone'.connection = phone.connection, phone'.generation = phone.generation,
         Connected' => Connected, NEW messages \in Seq(UpMessage),
         Without("hello", messages), Transmit(messages), UNCHANGED server
  PROVE  PhoneAndLinks'
<1>1. Moves
  <2>1. phone'.connection \in {0, phone'.generation} /\ phone'.generation \in Nat
    BY Bounds DEF PhoneInv, Phone
  <2> QED
    BY <2>1 DEF Moves
<1> QED
  BY <1>1, Transmitted, Assembled DEF PhoneAndLinks, server

\* The phone gives up its connection.
LEMMA Closed ==
  ASSUME PhoneAndLinks, phone' \in Phone, PhoneInv(phone'), phone'.connection = 0,
         phone'.generation >= phone.generation, ClearTimeouts \/ deadlines' = {},
         NEW messages \in Seq(UpMessage), Without("hello", messages),
         Transmit(messages), UNCHANGED server
  PROVE  PhoneAndLinks'
<1>1. phone'.status # "connected" /\ phone'.awaitedPong = None
  BY DEF PhoneInv
<1>2. Moves
  <2>1. phone'.generation \in Nat /\ phone.generation \in Nat
    BY Bounds DEF PhoneAndLinks, TypeOK, Phone
  <2> QED
    BY <1>1, <2>1 DEF Moves, Connected
<1>3. DeadlineOfThePing'
  <2>1. CASE ClearTimeouts
    BY <1>1, <2>1, DeadlineCleared DEF PhoneAndLinks
  <2>2. CASE deadlines' = {}
    BY <1>1, <2>2 DEF DeadlineOfThePing
  <2> QED
    BY <2>1, <2>2
<1> QED
  BY <1>2, <1>3, Transmitted, Assembled DEF PhoneAndLinks, server

\* The phone opens a connection, or postpones that until it is shown.
LEMMA Opened ==
  ASSUME PhoneAndLinks, phone.connection = 0, MayStart,
         NEW p \in Phone, p.generation = phone.generation, Opens(p, phone'),
         ClearTimeouts, Transmit(<<>>), UNCHANGED server
  PROVE  PhoneAndLinks'
<1>1. /\ phone' \in Phone /\ PhoneInv(phone') /\ phone'.status = "connecting"
      /\ \/ phone'.connection = 0 /\ phone'.generation = phone.generation
         \/ /\ phone'.connection = phone.generation + 1
            /\ phone'.generation = phone.generation + 1
  BY DEF Opens
<1>2. phone.generation + 1 \in Generation /\ phone.generation \in Nat
  BY Bounds DEF PhoneAndLinks, TypeOK, Phone, MayStart, Generation
<1>3. Moves
  BY <1>1, <1>2 DEF Moves, Connected
<1>4. phone'.awaitedPong = None
  BY <1>1 DEF PhoneInv
<1>5. DeadlineOfThePing'
  BY <1>1, <1>4, DeadlineCleared DEF PhoneAndLinks
<1> QED
  BY <1>1, <1>3, <1>5, NothingOnTheWay, Transmitted, Assembled DEF PhoneAndLinks, server

LEMMA OpeningOf ==
  ASSUME PhoneAndLinks, phone.connection = 0, NEW p \in Phone,
         p.generation = phone.generation, Opens(p, phone')
  PROVE  Opening
<1>1. phone.generation \in Nat
  BY Bounds DEF PhoneAndLinks, TypeOK, Phone
<1> QED
  BY <1>1 DEF Opening, Opens, Connected

-----------------------------------------------------------------------------
(* The steps of the user.                                                   *)

LEMMA ConnectKeeps ==
  ASSUME PhoneAndLinks, Connect
  PROVE  PhoneAndLinks' /\ Opening
<1> DEFINE p == [phone EXCEPT !.reconnectEnabled = TRUE, !.retryIndex = 0, !.retryTimer = FALSE]
<1>1. /\ p \in Phone /\ p.connection = phone.connection /\ p.generation = phone.generation
      /\ p.reconnectEnabled /\ ~ p.retryTimer
  <2>1. phone \in Phone /\ 0 \in 0 .. Retries
    BY Bounds DEF PhoneAndLinks, TypeOK
  <2> QED
    BY <2>1 DEF Phone
<1>2. phone' = StartConnection(p)
  BY DEF Connect
<1>3. phone.connection = 0 /\ MayStart
  BY DEF Connect, PhoneAndLinks, PhoneInv
<1> HIDE DEF p
<1>4. Opens(p, phone')
  BY <1>1, <1>2, <1>3, ConnectionStarted DEF MayStart
<1>5. Opening
  BY <1>1, <1>3, <1>4, OpeningOf
<1> QED
  BY <1>1, <1>3, <1>4, <1>5, Opened DEF Connect

LEMMA HideKeeps ==
  ASSUME PhoneAndLinks, Hide
  PROVE  PhoneAndLinks' /\ Staying
<1> DEFINE pending == \/ phone.recoveryPending
                      \/ /\ phone.reconnectEnabled
                         /\ phone.retryTimer \/ phone.connection = 0
           p == [phone EXCEPT !.active = FALSE, !.recoveryPending = pending]
<1>0. phone \in Phone /\ PhoneInv(phone)
  BY DEF PhoneAndLinks, TypeOK
<1>1. /\ p \in Phone /\ ~ p.active /\ p.connection = phone.connection
      /\ p.generation = phone.generation /\ p.status = phone.status
      /\ p.reconnectEnabled = phone.reconnectEnabled
      /\ p.recoveryPending = pending /\ p.nextSequence = phone.nextSequence
      /\ p.desiredButtons = phone.desiredButtons
  <2>1. pending \in BOOLEAN
    BY <1>0 DEF Phone
  <2> HIDE DEF pending
  <2> QED
    BY <1>0, <2>1 DEF Phone
<1>2. phone' = CancelAllTimers(p)
  BY DEF Hide
<1> HIDE DEF p
<1>3. /\ phone' \in Phone /\ NoHeartbeat(phone') /\ ~ phone'.retryTimer /\ ~ phone'.active
      /\ phone'.connection = phone.connection /\ phone'.generation = phone.generation
      /\ phone'.nextSequence = phone.nextSequence
      /\ phone'.desiredButtons = phone.desiredButtons
      /\ phone'.status = phone.status /\ phone'.reconnectEnabled = phone.reconnectEnabled
      /\ phone.reconnectEnabled /\ phone.connection = 0 => phone'.recoveryPending
  BY <1>1, <1>2, CancelledTimers DEF SameUse
<1>4. PhoneInv(phone')
  BY <1>0, <1>3 DEF PhoneInv, NoHeartbeat
<1>5. DeadlineOfThePing'
  BY <1>3, <1>4, DeadlineCleared DEF PhoneAndLinks, NoHeartbeat, Hide
<1>6. Wires' /\ Links'
  <2>1. UNCHANGED <<link, up, down, cut, socket>>
    BY DEF Hide, network, server
  <2>2. \A g \in Generation : Current(g)' <=> Current(g)
    BY <1>3 DEF Current, Connected
  <2> QED
    BY <1>3, <2>1, <2>2
    DEF PhoneAndLinks, Wires, TypeOK, Links, Linked, Greeted, Welcomed
<1>7. UNCHANGED server
  BY DEF Hide
<1> QED
  BY <1>3, <1>4, <1>5, <1>6, <1>7, Assembled DEF PhoneAndLinks, Staying

LEMMA ShowKeeps ==
  ASSUME PhoneAndLinks, Show
  PROVE  PhoneAndLinks' /\ (Opening \/ Staying)
<1> DEFINE p == [phone EXCEPT !.active = TRUE]
           resumes == p.reconnectEnabled /\ Connected /\ p.connection # 0
           opens == /\ p.reconnectEnabled /\ p.recoveryPending
                    /\ p.connection = 0 /\ ~ p.retryTimer
<1>0. phone \in Phone /\ PhoneInv(phone) /\ ~ phone.active /\ MayStart
  BY DEF PhoneAndLinks, TypeOK, Show
<1>1. /\ p \in Phone /\ p.active /\ p.connection = phone.connection
      /\ p.generation = phone.generation /\ p.status = phone.status
      /\ p.reconnectEnabled = phone.reconnectEnabled /\ p.retryTimer = phone.retryTimer
      /\ p.recoveryPending = phone.recoveryPending /\ p.awaitedPong = phone.awaitedPong
      /\ p.pongDeadlineTimer = phone.pongDeadlineTimer
      /\ p.nextPingTimer = phone.nextPingTimer /\ p.nextSequence = phone.nextSequence
      /\ p.desiredButtons = phone.desiredButtons
  BY <1>0 DEF Phone
<1>2. /\ resumes => phone' = ScheduleNextPing(p)
      /\ opens => phone' = StartConnection([p EXCEPT !.recoveryPending = FALSE])
      /\ ~ resumes /\ ~ opens => phone' = p
  BY DEF Show
<1>3. ClearTimeouts /\ Transmit(<<>>) /\ UNCHANGED server
  BY DEF Show
<1> HIDE DEF p
<1>4. phone.awaitedPong = None /\ phone.pongDeadlineTimer = None /\ ~ phone.nextPingTimer
  BY <1>0 DEF PhoneInv
<1>5. CASE resumes
  <2>1. phone' \in Phone /\ PhoneInv(phone') /\ phone'.connection = phone.connection
        /\ phone'.awaitedPong = None /\ phone'.generation = phone.generation
        /\ Staying
    BY <1>0, <1>1, <1>2, <1>4, <1>5, PingScheduled
    DEF PhoneInv, Connected, SameUse, Staying
  <2>2. DeadlineOfThePing'
    BY <1>3, <2>1, DeadlineCleared DEF PhoneAndLinks
  <2> QED
    BY <1>3, <1>5, <2>1, <2>2, NothingOnTheWay, Kept
<1>6. CASE opens
  <2> DEFINE q == [p EXCEPT !.recoveryPending = FALSE]
  <2>1. /\ q \in Phone /\ q.connection = 0 /\ q.reconnectEnabled /\ ~ q.retryTimer
        /\ q.generation = phone.generation /\ phone' = StartConnection(q)
    BY <1>1, <1>2, <1>6 DEF Phone
  <2> HIDE DEF q
  <2>2. Opens(q, phone')
    BY <1>0, <2>1, ConnectionStarted DEF MayStart
  <2>3. Opening
    BY <1>1, <1>6, <2>1, <2>2, OpeningOf
  <2> QED
    BY <1>0, <1>1, <1>3, <1>6, <2>1, <2>2, <2>3, Opened
<1>7. CASE ~ resumes /\ ~ opens
  <2>1. phone' = p
    BY <1>2, <1>7
  <2>2. PhoneInv(phone')
    BY <1>0, <1>1, <1>7, <2>1 DEF PhoneInv, Connected
  <2>3. DeadlineOfThePing'
    BY <1>1, <1>3, <2>1, <2>2, DeadlineCleared DEF PhoneAndLinks
  <2>4. Connected' => Connected
    BY <1>1, <2>1 DEF Connected
  <2> QED
    BY <1>1, <1>3, <2>1, <2>2, <2>3, <2>4, NothingOnTheWay, Kept DEF Staying
<1> QED
  BY <1>5, <1>6, <1>7

LEMMA DisconnectKeeps ==
  ASSUME PhoneAndLinks, Disconnect
  PROVE  PhoneAndLinks' /\ phone'.status = "disconnected" /\ Closing
<1> DEFINE t == IF Connected THEN TakeSequence(phone) ELSE phone
           h == CancelAllTimers(t)
<1>1. phone \in Phone /\ phone.generation < MaxGeneration
  BY DEF PhoneAndLinks, TypeOK, Disconnect, MayStart
<1>2. t \in Phone /\ t.generation = phone.generation
  BY <1>1, Bounds DEF TakeSequence, Phone
<1> HIDE DEF t
<1>3. h \in Phone /\ NoHeartbeat(h) /\ ~ h.retryTimer /\ h.generation = phone.generation
  BY <1>2, CancelledTimers DEF SameUse
<1>4. phone' = [h EXCEPT !.desiredButtons = {}, !.reconnectEnabled = FALSE,
                         !.recoveryPending = FALSE, !.connection = 0,
                         !.generation = @ + 1, !.retryIndex = 0,
                         !.status = "disconnected"]
  BY DEF Disconnect, t, h
<1> HIDE DEF h
<1>5. h.generation + 1 \in 0 .. MaxGeneration /\ 0 \in 0 .. Retries
  BY <1>1, <1>3, Bounds DEF Phone
<1>6. /\ phone' \in Phone /\ NoHeartbeat(phone') /\ ~ phone'.retryTimer
      /\ phone'.connection = 0 /\ ~ phone'.reconnectEnabled
      /\ phone'.status = "disconnected" /\ phone'.generation = phone.generation + 1
  BY <1>3, <1>4, <1>5 DEF Phone, Status, NoHeartbeat
<1>7. PhoneInv(phone')
  BY <1>6 DEF PhoneInv, NoHeartbeat
<1> DEFINE messages == IF Connected THEN <<StateSync({}, phone.nextSequence)>> ELSE <<>>
<1>8. messages \in Seq(UpMessage) /\ Without("hello", messages)
  <2>1. /\ StateSync({}, phone.nextSequence) \in UpMessage
        /\ StateSync({}, phone.nextSequence).type = "state-sync"
    BY <1>1, MessageTypes DEF Phone, StateSync
  <2> QED
    BY <2>1, NothingOnTheWay DEF Without
<1>9. Transmit(messages) /\ ClearTimeouts /\ UNCHANGED server
  BY DEF Disconnect
<1> HIDE DEF messages
<1>10. phone'.generation >= phone.generation
  BY <1>1, <1>3, <1>6, Bounds DEF Phone
<1> QED
  BY <1>6, <1>7, <1>8, <1>9, <1>10, Closed DEF Closing, Connected

\* A message of the phone takes the next number.
LEMMA Numbering ==
  ASSUME PhoneAndLinks, NEW p \in Phone, PhoneInv(p), p.connection = phone.connection,
         p.status = phone.status, p.awaitedPong = phone.awaitedPong,
         p.generation = phone.generation,
         phone' = IF Connected THEN TakeSequence(p) ELSE p,
         NEW m \in UpMessage, m.type # "hello",
         Transmit(IF Connected THEN <<m>> ELSE <<>>),
         UNCHANGED <<deadlines, server>>
  PROVE  PhoneAndLinks' /\ phone'.status = phone.status
<1>1. /\ phone' \in Phone /\ phone'.connection = phone.connection
      /\ phone'.status = phone.status /\ phone'.awaitedPong = phone.awaitedPong
      /\ phone'.generation = phone.generation
  BY Bounds DEF TakeSequence, Phone
<1>2. PhoneInv(phone')
  <2> DEFINE q == TakeSequence(p)
  <2>1. /\ q.connection = p.connection /\ q.generation = p.generation
        /\ q.reconnectEnabled = p.reconnectEnabled /\ q.retryTimer = p.retryTimer
        /\ q.status = p.status /\ q.active = p.active
        /\ q.recoveryPending = p.recoveryPending /\ q.awaitedPong = p.awaitedPong
        /\ q.pongDeadlineTimer = p.pongDeadlineTimer /\ q.nextPingTimer = p.nextPingTimer
    BY DEF TakeSequence, Phone
  <2> HIDE DEF q
  <2>2. PhoneInv(q)
    BY <2>1 DEF PhoneInv
  <2> QED
    BY <2>2 DEF q
<1>3. DeadlineOfThePing'
  BY <1>1 DEF PhoneAndLinks, DeadlineOfThePing
<1> DEFINE messages == IF Connected THEN <<m>> ELSE <<>>
<1>4. messages \in Seq(UpMessage) /\ Without("hello", messages)
  BY NothingOnTheWay DEF Without
<1>6. Transmit(messages)
  OBVIOUS
<1> HIDE DEF messages
<1>5. Connected' => Connected
  BY <1>1 DEF Connected
<1> QED
  BY <1>1, <1>2, <1>3, <1>4, <1>5, <1>6, Kept

\* Buttons alone change nothing else.
LEMMA ButtonsOnly ==
  ASSUME PhoneAndLinks, NEW buttons \in SUBSET Button
  PROVE  LET p == [phone EXCEPT !.desiredButtons = buttons]
         IN /\ p \in Phone /\ PhoneInv(p) /\ p.connection = phone.connection
            /\ p.status = phone.status /\ p.awaitedPong = phone.awaitedPong
            /\ p.generation = phone.generation
<1>1. phone \in Phone /\ PhoneInv(phone)
  BY DEF PhoneAndLinks, TypeOK
<1> DEFINE p == [phone EXCEPT !.desiredButtons = buttons]
<1>2. /\ p \in Phone /\ p.connection = phone.connection /\ p.generation = phone.generation
      /\ p.reconnectEnabled = phone.reconnectEnabled /\ p.retryTimer = phone.retryTimer
      /\ p.status = phone.status /\ p.active = phone.active
      /\ p.recoveryPending = phone.recoveryPending /\ p.awaitedPong = phone.awaitedPong
      /\ p.pongDeadlineTimer = phone.pongDeadlineTimer
      /\ p.nextPingTimer = phone.nextPingTimer
  BY <1>1 DEF Phone
<1> HIDE DEF p
<1>3. PhoneInv(p)
  BY <1>1, <1>2 DEF PhoneInv
<1> QED
  BY <1>2, <1>3 DEF p

LEMMA SetButtonKeeps ==
  ASSUME PhoneAndLinks, NEW button \in Button, SetButton(button)
  PROVE  PhoneAndLinks' /\ phone'.status = phone.status
<1> DEFINE pressed == button \notin phone.desiredButtons
           buttons == IF pressed THEN phone.desiredButtons \union {button}
                      ELSE phone.desiredButtons \ {button}
           p == [phone EXCEPT !.desiredButtons = buttons]
           m == Delta(IF pressed THEN "button-down" ELSE "button-up",
                      button, phone.nextSequence)
<1>1. phone \in Phone
  BY DEF PhoneAndLinks, TypeOK
<1>2. buttons \in SUBSET Button
  BY <1>1 DEF Phone
<1>3. m \in UpMessage /\ m.type # "hello"
  BY <1>1, MessageTypes DEF Phone, Delta
<1>4. /\ p \in Phone /\ PhoneInv(p) /\ p.connection = phone.connection
      /\ p.status = phone.status /\ p.awaitedPong = phone.awaitedPong
      /\ p.generation = phone.generation
  <2> HIDE DEF buttons
  <2> QED
    BY <1>2, ButtonsOnly
<1>5. /\ phone' = (IF Connected THEN TakeSequence(p) ELSE p)
      /\ Transmit(IF Connected THEN <<m>> ELSE <<>>)
      /\ UNCHANGED <<deadlines, server>>
  BY DEF SetButton
<1> HIDE DEF p, m
<1> QED
  BY <1>3, <1>4, <1>5, Numbering

LEMMA ReleaseAllKeeps ==
  ASSUME PhoneAndLinks, ReleaseAll
  PROVE  PhoneAndLinks' /\ phone'.status = phone.status
<1> DEFINE p == [phone EXCEPT !.desiredButtons = {}]
           m == StateSync({}, phone.nextSequence)
<1>1. phone \in Phone
  BY DEF PhoneAndLinks, TypeOK
<1>2. m \in UpMessage /\ m.type # "hello"
  BY <1>1, MessageTypes DEF Phone, StateSync
<1>3. /\ p \in Phone /\ PhoneInv(p) /\ p.connection = phone.connection
      /\ p.status = phone.status /\ p.awaitedPong = phone.awaitedPong
      /\ p.generation = phone.generation
  BY ButtonsOnly
<1>4. /\ phone' = (IF Connected THEN TakeSequence(p) ELSE p)
      /\ Transmit(IF Connected THEN <<m>> ELSE <<>>)
      /\ UNCHANGED <<deadlines, server>>
  BY DEF ReleaseAll
<1> HIDE DEF p, m
<1> QED
  BY <1>2, <1>3, <1>4, Numbering

LEMMA ShowStays ==
  ASSUME PhoneAndLinks, Show, phone.status = "disconnected"
  PROVE  phone'.status = "disconnected"
<1> DEFINE p == [phone EXCEPT !.active = TRUE]
<1>1. phone \in Phone /\ ~ phone.reconnectEnabled
  BY DEF PhoneAndLinks, TypeOK, PhoneInv
<1>2. p.status = phone.status /\ ~ p.reconnectEnabled
  BY <1>1 DEF Phone
<1>3. phone' = p
  BY <1>2 DEF Show
<1> QED
  BY <1>2, <1>3

-----------------------------------------------------------------------------
(* The timers.                                                              *)

LEMMA RetryKeeps ==
  ASSUME PhoneAndLinks, RetryFires
  PROVE  /\ PhoneAndLinks' /\ Opening
         /\ phone.status = "disconnected" => phone'.status = "disconnected"
<1> DEFINE p == [phone EXCEPT !.retryTimer = FALSE]
<1>0. /\ phone \in Phone /\ PhoneInv(phone) /\ MayStart
      /\ phone.retryTimer /\ phone.connection = 0 /\ phone.status # "connected"
  BY DEF PhoneAndLinks, TypeOK, RetryFires, PhoneInv
<1>1. /\ p \in Phone /\ p.connection = phone.connection /\ p.generation = phone.generation
      /\ p.status = phone.status /\ p.active = phone.active
      /\ p.reconnectEnabled = phone.reconnectEnabled /\ ~ p.retryTimer
      /\ p.awaitedPong = phone.awaitedPong /\ p.nextPingTimer = phone.nextPingTimer
      /\ p.pongDeadlineTimer = phone.pongDeadlineTimer
  BY <1>0 DEF Phone
<1>2. phone' = IF p.reconnectEnabled THEN StartConnection(p) ELSE p
  BY DEF RetryFires
<1>3. ClearTimeouts /\ Transmit(<<>>) /\ UNCHANGED server
  BY DEF RetryFires
<1> HIDE DEF p
<1>4. CASE p.reconnectEnabled
  <2>1. Opens(p, phone')
    BY <1>0, <1>1, <1>2, <1>4, ConnectionStarted DEF MayStart
  <2>2. phone.status # "disconnected"
    BY <1>0, <1>1, <1>4 DEF PhoneInv
  <2>3. Opening
    BY <1>0, <1>1, <2>1, OpeningOf
  <2> QED
    BY <1>0, <1>1, <1>3, <2>1, <2>2, <2>3, Opened
<1>5. CASE ~ p.reconnectEnabled
  <2>1. phone' = p
    BY <1>2, <1>5
  <2>2. PhoneInv(phone')
    BY <1>0, <1>1, <1>5, <2>1 DEF PhoneInv
  <2>3. phone'.generation >= phone.generation
    BY <1>0, <1>1, <2>1, Bounds DEF Phone
  <2> QED
    BY <1>0, <1>1, <1>3, <2>1, <2>2, <2>3, NothingOnTheWay, Closed DEF Opening, Connected
<1> QED
  BY <1>4, <1>5

LEMMA PingKeeps ==
  ASSUME PhoneAndLinks, PingFires
  PROVE  PhoneAndLinks' /\ phone.status # "disconnected"
<1> DEFINE n == phone.nextSequence
           p == [phone EXCEPT !.nextPingTimer = FALSE]
           q == [TakeSequence(p) EXCEPT !.awaitedPong = n, !.pongDeadlineTimer = n]
<1>0. phone \in Phone /\ PhoneInv(phone) /\ phone.nextPingTimer
  BY DEF PhoneAndLinks, TypeOK, PingFires
<1>1. /\ Connected /\ phone.active /\ phone.awaitedPong = None
      /\ phone.connection = phone.generation /\ phone.connection # 0
      /\ phone.reconnectEnabled /\ ~ phone.retryTimer
  BY <1>0 DEF PhoneInv, Connected
<1>2. phone' = q /\ deadlines' = deadlines \union {n} /\ Transmit(<<Ping(n)>>)
  BY <1>1 DEF PingFires
<1>3. n \in Sequence /\ n # None
  BY <1>0, Bounds DEF Phone
<1>4. /\ q \in Phone /\ q.connection = phone.connection /\ q.generation = phone.generation
      /\ q.status = phone.status /\ q.active = phone.active
      /\ q.reconnectEnabled = phone.reconnectEnabled /\ q.retryTimer = phone.retryTimer
      /\ q.awaitedPong = n /\ q.pongDeadlineTimer = n /\ ~ q.nextPingTimer
  BY <1>0, <1>3, Bounds DEF Phone, TakeSequence
<1>5. Ping(n) \in UpMessage /\ Ping(n).type = "ping"
  BY <1>3, MessageTypes DEF Ping
<1> HIDE DEF q, n
<1>6. PhoneInv(phone')
  BY <1>1, <1>2, <1>3, <1>4 DEF PhoneInv, Connected
<1>7. DeadlineOfThePing'
  BY <1>1, <1>2, <1>3, <1>4 DEF PhoneAndLinks, DeadlineOfThePing
<1>8. UNCHANGED server
  BY DEF PingFires
<1>9. <<Ping(n)>> \in Seq(UpMessage) /\ Without("hello", <<Ping(n)>>)
  BY <1>5 DEF Without
<1> QED
  BY <1>1, <1>2, <1>4, <1>6, <1>7, <1>8, <1>9, Kept DEF Connected

LEMMA DeadlineKeeps ==
  ASSUME PhoneAndLinks, NEW n \in Sequence, DeadlineFires(n)
  PROVE  PhoneAndLinks' /\ phone.status # "disconnected" /\ Closing
<1> DEFINE p == [phone EXCEPT !.pongDeadlineTimer = None]
           r == [p EXCEPT !.awaitedPong = None]
<1>0. /\ phone \in Phone /\ PhoneInv(phone) /\ n = phone.awaitedPong /\ n # None
      /\ deadlines = {n}
  BY DEF PhoneAndLinks, TypeOK, DeadlineFires, DeadlineOfThePing
<1>1. phone.status = "connected" /\ phone.reconnectEnabled /\ ~ phone.retryTimer
  BY <1>0 DEF PhoneInv
<1>2. /\ p \in Phone /\ p.awaitedPong = n /\ p.generation = phone.generation
      /\ p.reconnectEnabled /\ ~ p.retryTimer
  BY <1>0, <1>1 DEF Phone
<1>3. /\ r \in Phone /\ r.reconnectEnabled /\ ~ r.retryTimer
      /\ r.generation = phone.generation /\ phone.generation \in Nat
  <2> HIDE DEF p
  <2> QED
    BY <1>2, Bounds DEF Phone
<1>4. phone' = CloseForRecovery(r)
  BY <1>2 DEF DeadlineFires
<1> HIDE DEF r
<1>5. /\ phone' \in Phone /\ PhoneInv(phone') /\ phone'.connection = 0
      /\ phone'.generation = r.generation
  BY <1>3, <1>4, RecoveryStarted DEF SameUse
<1>6. deadlines' = {} /\ Transmit(<<>>) /\ UNCHANGED server
  BY <1>0 DEF DeadlineFires
<1>7. phone'.generation >= phone.generation
  BY <1>3, <1>5
<1> QED
  BY <1>1, <1>5, <1>6, <1>7, NothingOnTheWay, Closed DEF Closing, Connected, PhoneInv

-----------------------------------------------------------------------------
(* The events of a socket.                                                  *)

\* An open socket is that of the phone's connection.
LEMMA Open ==
  ASSUME PhoneAndLinks, NEW g \in Generation, link[g] \in {"connecting", "open"}
  PROVE  /\ phone.connection = g /\ phone.generation = g /\ g # 0
         /\ phone.reconnectEnabled /\ ~ phone.retryTimer
         /\ phone.status \in {"connecting", "connected"}
<1>1. phone.connection = g /\ g # 0 /\ PhoneInv(phone)
  BY Bounds DEF PhoneAndLinks, Links, Linked
<1> QED
  BY <1>1 DEF PhoneInv

LEMMA OpenKeeps ==
  ASSUME PhoneAndLinks, NEW g \in Generation, HandleOpen(g)
  PROVE  PhoneAndLinks' /\ phone.status # "disconnected"
<1>0. /\ link[g] = "connecting" /\ down[g] # <<>> /\ link' = [link EXCEPT ![g] = "open"]
      /\ UNCHANGED <<phone, deadlines, server>>
  BY DEF HandleOpen, Hears
<1> DEFINE messages == IF g = phone.generation THEN <<Msg("hello")>> ELSE <<>>
<1>1. messages \in Seq(UpMessage) /\ (messages = <<>> \/ Len(messages) = 1)
  BY MessageTypes, NothingOnTheWay
<1>2. Consume(g, messages)
  BY DEF HandleOpen
<1> HIDE DEF messages
<1>3. /\ up' \in [Generation -> Seq(UpMessage)]
      /\ down' \in [Generation -> Seq(DownMessage)] /\ cut' \subseteq Generation
      /\ Once("welcome", down'[g]) /\ (Without("welcome", down[g]) => Without("welcome", down'[g]))
      /\ up'[g] = up[g] \o Carried(g, messages)
      /\ Carried(g, messages) \in Seq(UpMessage)
      /\ \A h \in Generation \ {g} : down'[h] = down[h] /\ up'[h] = up[h]
  BY <1>0, <1>1, <1>2, Consumed DEF PhoneAndLinks
<1>4. Wires'
  BY <1>0, <1>3 DEF Wires, PhoneAndLinks, TypeOK
<1>5. \A h \in Generation : link'[h] = IF h = g THEN "open" ELSE link[h]
  BY <1>0 DEF PhoneAndLinks, TypeOK
<1>6. \A h \in Generation : Current(h)' <=> Current(h)
  BY <1>0 DEF Current, Connected
<1>7. Greeted(g)'
  <2>1. /\ up[g] \in Seq(UpMessage) /\ Without("hello", up[g]) /\ Once("hello", up[g])
        /\ socket[g] # "playing"
    BY <1>0 DEF PhoneAndLinks, TypeOK, Links, Greeted
  <2>2. Carried(g, messages) = <<>> \/ Len(Carried(g, messages)) = 1
    BY <1>1 DEF Carried
  <2>3. Once("hello", up'[g])
    BY <1>3, <2>1, <2>2, NothingOnTheWay, OnceOfJoined
  <2>4. link'[g] = "open" /\ socket'[g] # "playing"
    BY <1>0, <1>5, <2>1 DEF server
  <2> QED
    BY <2>3, <2>4 DEF Greeted
<1>9. \A h \in Generation \ {g} : Greeted(h)'
  BY <1>0, <1>3, <1>5 DEF PhoneAndLinks, Links, Greeted, server
<1>11. \A h \in Generation : Linked(h)'
  BY <1>0, <1>5, <1>6 DEF PhoneAndLinks, Links, Linked
<1>12. \A h \in Generation : Welcomed(h)'
  BY <1>0, <1>3, <1>6 DEF PhoneAndLinks, Links, Welcomed, server
<1>10. Links'
  BY <1>7, <1>9, <1>11, <1>12 DEF Links
<1>8. phone' \in Phone /\ PhoneInv(phone') /\ DeadlineOfThePing'
  BY <1>0 DEF PhoneAndLinks, TypeOK, DeadlineOfThePing
<1> QED
  BY <1>0, <1>4, <1>10, <1>8, Open, Assembled DEF PhoneAndLinks

LEMMA WelcomeKeeps ==
  ASSUME PhoneAndLinks, NEW g \in Generation, HandleWelcome(g)
  PROVE  PhoneAndLinks' /\ phone.status # "disconnected"
<1> DEFINE w == [phone EXCEPT !.retryIndex = 0, !.status = "connected",
                              !.recoveryPending = FALSE]
           t == TakeSequence(w)
           messages == <<StateSync(phone.desiredButtons, phone.nextSequence)>>
<1>0. /\ link[g] = "open" /\ down[g] # <<>> /\ Head(down[g]).type = "welcome"
      /\ UNCHANGED <<deadlines, link, server>> /\ phone' = ScheduleNextPing(t)
      /\ Consume(g, messages) /\ phone \in Phone /\ PhoneInv(phone)
      /\ Linked(g) /\ Welcomed(g) /\ down[g] \in Seq(DownMessage)
  BY DEF HandleWelcome, Hears, PhoneAndLinks, TypeOK, Links
<1>1. /\ phone.connection = g /\ phone.generation = g /\ g # 0
      /\ phone.reconnectEnabled /\ ~ phone.retryTimer
      /\ phone.status \in {"connecting", "connected"}
  BY <1>0, Open
<1>2. ~ Without("welcome", down[g])
  BY <1>0, RestOf DEF Without
<1>3. /\ phone.status = "connecting" /\ phone.awaitedPong = None
      /\ phone.pongDeadlineTimer = None /\ ~ phone.nextPingTimer
      /\ socket[g] \notin {"none", "hello"}
  BY <1>0, <1>1, <1>2 DEF Welcomed, Current, Connected, PhoneInv
<1>4. 0 \in 0 .. Retries /\ Successor(phone.nextSequence) \in Sequence
  BY <1>0, Bounds DEF Phone
<1>5. /\ w \in Phone /\ w.awaitedPong = None /\ w.pongDeadlineTimer = None
      /\ ~ w.nextPingTimer /\ w.connection = g /\ w.generation = g
      /\ w.reconnectEnabled /\ ~ w.retryTimer /\ w.status = "connected"
      /\ w.nextSequence = phone.nextSequence
  BY <1>0, <1>1, <1>3, <1>4 DEF Phone, Status
<1> HIDE DEF w
<1>6. /\ t \in Phone /\ t.awaitedPong = None /\ t.pongDeadlineTimer = None
      /\ ~ t.nextPingTimer /\ t.connection = g /\ t.generation = g
      /\ t.reconnectEnabled /\ ~ t.retryTimer /\ t.status = "connected"
  BY <1>4, <1>5 DEF Phone, TakeSequence
<1> HIDE DEF t
<1>7. /\ phone' \in Phone /\ PhoneInv(phone') /\ phone'.connection = g
      /\ phone'.awaitedPong = None /\ phone'.generation = g
  BY <1>0, <1>1, <1>6, PingScheduled DEF SameUse
<1>8. DeadlineOfThePing'
  BY <1>0, <1>3, <1>7 DEF PhoneAndLinks, DeadlineOfThePing
<1>9. messages \in Seq(UpMessage) /\ Without("hello", messages)
  <2>1. /\ StateSync(phone.desiredButtons, phone.nextSequence) \in UpMessage
        /\ StateSync(phone.desiredButtons, phone.nextSequence).type = "state-sync"
    BY <1>0, MessageTypes DEF Phone, StateSync
  <2> QED
    BY <2>1 DEF Without
<1> HIDE DEF messages
<1>10. /\ up' \in [Generation -> Seq(UpMessage)]
       /\ down' \in [Generation -> Seq(DownMessage)] /\ cut' \subseteq Generation
       /\ Once("welcome", down'[g]) /\ Without("welcome", down'[g])
       /\ up'[g] = up[g] \o Carried(g, messages)
       /\ Carried(g, messages) \in Seq(UpMessage)
       /\ \A h \in Generation \ {g} : down'[h] = down[h] /\ up'[h] = up[h]
  BY <1>0, <1>9, Consumed DEF PhoneAndLinks
<1>11. Wires'
  BY <1>0, <1>10 DEF Wires, PhoneAndLinks, TypeOK
<1>12. \A h \in Generation \ {g} : ~ Current(h) /\ ~ Current(h)'
  BY <1>1, <1>7 DEF Current
<1>13. \A h \in Generation : Linked(h)'
  BY <1>0, <1>1, <1>7, <1>12 DEF PhoneAndLinks, Links, Linked
<1>14. \A h \in Generation \ {g} : Welcomed(h)'
  BY <1>0, <1>10, <1>12 DEF PhoneAndLinks, Links, Welcomed, server
<1>15. Welcomed(g)'
  BY <1>0, <1>3, <1>10 DEF Welcomed, server
<1>16. Without("hello", Carried(g, messages))
  BY <1>9, NothingOnTheWay DEF Carried
<1>17. \A h \in Generation : Greeted(h)'
  BY <1>0, <1>10, <1>16, NotGreetedAgain DEF PhoneAndLinks, server
<1> QED
  BY <1>0, <1>1, <1>7, <1>8, <1>11, <1>13, <1>14, <1>15, <1>17, Assembled
  DEF PhoneAndLinks, Links

LEMMA PongKeeps ==
  ASSUME PhoneAndLinks, NEW g \in Generation, HandlePong(g)
  PROVE  PhoneAndLinks' /\ phone.status # "disconnected" /\ Staying
<1> DEFINE answers == /\ g = phone.generation /\ Connected
                      /\ Head(down[g]).sequence = phone.awaitedPong
           p == [phone EXCEPT !.awaitedPong = None, !.pongDeadlineTimer = None]
<1>0. /\ link[g] = "open" /\ down[g] # <<>> /\ Consume(g, <<>>)
      /\ phone' = (IF answers THEN ScheduleNextPing(p) ELSE phone)
      /\ UNCHANGED <<link, server>> /\ ClearTimeouts
      /\ phone \in Phone /\ PhoneInv(phone)
  BY DEF HandlePong, Hears, PhoneAndLinks, TypeOK
<1>1. /\ phone.connection = g /\ phone.generation = g /\ g # 0
      /\ phone.reconnectEnabled /\ ~ phone.retryTimer /\ phone.status # "disconnected"
  BY <1>0, Open
<1>2. /\ phone' \in Phone /\ PhoneInv(phone') /\ phone'.connection = g
      /\ phone'.awaitedPong \in {None, phone.awaitedPong}
      /\ phone'.status = phone.status /\ phone'.generation = g /\ Staying
  <2>1. CASE answers
    <3>1. /\ p \in Phone /\ p.awaitedPong = None /\ p.pongDeadlineTimer = None
          /\ p.connection = g /\ p.generation = g /\ p.reconnectEnabled
          /\ ~ p.retryTimer /\ p.status = "connected"
          /\ ~ p.active => ~ p.nextPingTimer
          /\ p.nextSequence = phone.nextSequence
          /\ p.desiredButtons = phone.desiredButtons
      BY <1>0, <1>1, <2>1 DEF Phone, Connected, PhoneInv
    <3> HIDE DEF p
    <3>2. phone' = ScheduleNextPing(p) /\ phone.status = "connected"
      BY <1>0, <2>1 DEF Connected
    <3> QED
      BY <1>1, <3>1, <3>2, PingScheduled DEF SameUse, Staying
  <2>2. CASE ~ answers
    <3>1. phone' = phone
      BY <1>0, <2>2
    <3> QED
      BY <1>0, <1>1, <3>1 DEF Staying
  <2> QED
    BY <2>1, <2>2
<1> HIDE DEF p, answers
<1>3. DeadlineOfThePing'
  BY <1>0, <1>2, DeadlineCleared DEF PhoneAndLinks
<1>4. /\ up' \in [Generation -> Seq(UpMessage)]
      /\ down' \in [Generation -> Seq(DownMessage)] /\ cut' \subseteq Generation
      /\ Once("welcome", down'[g]) /\ (Without("welcome", down[g]) => Without("welcome", down'[g]))
      /\ up'[g] = up[g] \o Carried(g, <<>>)
      /\ Carried(g, <<>>) \in Seq(UpMessage)
      /\ \A h \in Generation \ {g} : down'[h] = down[h] /\ up'[h] = up[h]
  BY <1>0, NothingOnTheWay, Consumed DEF PhoneAndLinks
<1>5. Wires'
  BY <1>0, <1>4 DEF Wires, PhoneAndLinks, TypeOK
<1>6. \A h \in Generation : Current(h)' <=> Current(h)
  BY <1>1, <1>2 DEF Current, Connected
<1>8. Without("hello", Carried(g, <<>>))
  BY NothingOnTheWay DEF Carried
<1>9. \A h \in Generation : Greeted(h)'
  BY <1>0, <1>4, <1>8, NotGreetedAgain DEF PhoneAndLinks, server
<1>10. \A h \in Generation : Linked(h)'
  BY <1>0, <1>1, <1>2, <1>6 DEF PhoneAndLinks, Links, Linked
<1>11. \A h \in Generation : Welcomed(h)'
  BY <1>0, <1>4, <1>6 DEF PhoneAndLinks, Links, Welcomed, server
<1>7. Links'
  BY <1>9, <1>10, <1>11 DEF Links
<1> QED
  BY <1>0, <1>1, <1>2, <1>3, <1>5, <1>7, Assembled DEF PhoneAndLinks

LEMMA RejectedKeeps ==
  ASSUME PhoneAndLinks, NEW g \in Generation, HandleRejected(g)
  PROVE  PhoneAndLinks' /\ phone.status # "disconnected" /\ Closing
<1>0. phone \in Phone /\ link[g] = "open"
  BY DEF PhoneAndLinks, TypeOK, HandleRejected, Hears
<1>1. PICK status \in {"expired-token", "controller-in-use", "server-unavailable"} :
        phone' = FailTerminal(phone, status)
  BY DEF HandleRejected
<1>2. /\ phone' \in Phone /\ PhoneInv(phone') /\ phone'.connection = 0
      /\ phone'.generation >= phone.generation
  BY <1>0, <1>1, FailedForGood, Bounds DEF SameUse, Phone
<1>3. ClearTimeouts /\ Transmit(<<>>) /\ UNCHANGED server
  BY DEF HandleRejected
<1> QED
  BY <1>0, <1>2, <1>3, Open, NothingOnTheWay, Closed DEF Closing, Connected, PhoneInv

LEMMA ControllerDisconnectedKeeps ==
  ASSUME PhoneAndLinks, NEW g \in Generation, HandleControllerDisconnected(g)
  PROVE  PhoneAndLinks' /\ phone.status # "disconnected" /\ Closing
<1>0. /\ phone \in Phone /\ link[g] = "open" /\ phone' = CloseForRecovery(phone)
      /\ ClearTimeouts /\ Transmit(<<>>) /\ UNCHANGED server
  BY DEF PhoneAndLinks, TypeOK, HandleControllerDisconnected, Hears
<1>1. phone.reconnectEnabled /\ ~ phone.retryTimer /\ phone.status # "disconnected"
  BY <1>0, Open
<1>2. /\ phone' \in Phone /\ PhoneInv(phone') /\ phone'.connection = 0
      /\ phone'.generation >= phone.generation
  BY <1>0, <1>1, RecoveryStarted, Bounds DEF SameUse, Phone
<1> QED
  BY <1>0, <1>1, <1>2, NothingOnTheWay, Closed DEF Closing, Connected, PhoneInv

\* A connection that is over: the phone's, or one it gave up before.
LEMMA OverKeeps ==
  ASSUME PhoneAndLinks, NEW g \in Generation, phone' \in Phone, PhoneInv(phone'),
         phone'.generation = phone.generation, link[g] # "none",
         \/ g = phone.generation /\ phone'.connection = 0
         \/ g # phone.generation /\ phone' = phone,
         ClearTimeouts, Finish(g), UNCHANGED server
  PROVE  PhoneAndLinks'
<1>1. g # phone.generation => phone' = phone
  OBVIOUS
<1>2. phone'.connection = IF g = phone.generation THEN 0 ELSE phone.connection
  OBVIOUS
<1>3. Connected' => Connected /\ phone'.connection = phone.connection
  BY DEF Connected, PhoneInv
<1>4. Wires' /\ Links'
  BY <1>2, <1>3, Finished DEF PhoneAndLinks, server
<1>5. phone'.awaitedPong \in {None, phone.awaitedPong}
  BY DEF PhoneInv
<1>6. DeadlineOfThePing'
  BY <1>5, DeadlineCleared DEF PhoneAndLinks
<1> QED
  BY <1>4, <1>6, Assembled DEF PhoneAndLinks

LEMMA CloseKeeps ==
  ASSUME PhoneAndLinks, NEW g \in Generation, HandleClose(g)
  PROVE  /\ PhoneAndLinks' /\ (g = phone.generation => Closing)
         /\ phone.status = "disconnected" => phone'.status = "disconnected"
<1> DEFINE q == ScheduleRetry(CancelHeartbeat([phone EXCEPT !.connection = 0]))
<1>0. /\ phone \in Phone /\ PhoneInv(phone)
      /\ phone' = (IF g = phone.generation THEN q ELSE phone)
      /\ ClearTimeouts /\ Finish(g) /\ UNCHANGED server /\ link[g] # "none"
  BY DEF PhoneAndLinks, TypeOK, HandleClose, Hears
<1>1. Ends(phone, q)
  BY <1>0, ConnectionEnded
<1> HIDE DEF q
<1> QED
  BY <1>0, <1>1, OverKeeps DEF Ends, Closing, Connected

LEMMA TransportFailureKeeps ==
  ASSUME PhoneAndLinks, NEW g \in Generation, HandleTransportFailure(g)
  PROVE  PhoneAndLinks' /\ phone.status # "disconnected" /\ Closing
<1> DEFINE c == CloseForRecovery(phone)
           q == ScheduleRetry(CancelHeartbeat([c EXCEPT !.connection = 0]))
<1>0. /\ phone \in Phone /\ link[g] \in {"connecting", "open"}
      /\ phone' = (IF g = phone.generation THEN q ELSE phone)
      /\ ClearTimeouts /\ Finish(g) /\ UNCHANGED server
  BY DEF PhoneAndLinks, TypeOK, HandleTransportFailure
<1>1. /\ g = phone.generation /\ phone.reconnectEnabled /\ ~ phone.retryTimer
      /\ phone.status # "disconnected"
  BY <1>0, Open
<1>2. c \in Phone /\ PhoneInv(c) /\ c.generation = phone.generation
  BY <1>0, <1>1, RecoveryStarted DEF SameUse
<1> HIDE DEF c
<1>3. Ends(c, q)
  BY <1>2, ConnectionEnded
<1> HIDE DEF q
<1> QED
  BY <1>0, <1>1, <1>2, <1>3, OverKeeps DEF Ends, Closing, Connected

-----------------------------------------------------------------------------
(* The steps of the network and of the server, which leave the phone.       *)

LEMMA PhoneLeft ==
  ASSUME PhoneAndLinks, UNCHANGED <<phone, deadlines, link>>,
         up' \in [Generation -> Seq(UpMessage)], down' \in [Generation -> Seq(DownMessage)],
         cut' \subseteq Generation, serverUp' \in BOOLEAN,
         socket' \in [Generation -> {"none", "hello", "playing", "ended"}],
         last' \in Sequence \union {None}, held' \subseteq Button, Links'
  PROVE  PhoneAndLinks'
  BY DEF PhoneAndLinks, TypeOK, DeadlineOfThePing

LEMMA CutKeeps ==
  ASSUME PhoneAndLinks, NEW g \in Generation, Cut(g)
  PROVE  PhoneAndLinks'
<1>1. /\ up' \in [Generation -> Seq(UpMessage)] /\ down' \in [Generation -> Seq(DownMessage)]
      /\ cut' \subseteq Generation
  BY NothingOnTheWay DEF Cut, PhoneAndLinks, TypeOK
<1>2. \A h \in Generation : (down'[h] = down[h] \/ down'[h] = <<>>)
                             /\ (up'[h] = up[h] \/ up'[h] = <<>>)
  BY DEF Cut, PhoneAndLinks, TypeOK
<1>3. \A h \in Generation : Current(h)' <=> Current(h)
  BY DEF Current, Connected, Cut
<1>4. Links'
  BY <1>2, <1>3, NothingOnTheWay
  DEF Links, Linked, Greeted, Welcomed, PhoneAndLinks, Cut, server
<1>5. UNCHANGED <<phone, deadlines, link, serverUp, socket, last, held>>
  BY DEF Cut, server
<1> QED
  BY <1>1, <1>4, <1>5, PhoneLeft DEF PhoneAndLinks, TypeOK

LEMMA EndSessionKeeps ==
  ASSUME PhoneAndLinks, EndSession
  PROVE  PhoneAndLinks'
<1>1. UNCHANGED <<phone, deadlines, link, up, down, cut, socket, last, held>>
      /\ serverUp' = FALSE
  BY DEF EndSession, network
<1>2. Links'
  BY <1>1 DEF Links, Linked, Greeted, Welcomed, Current, Connected, PhoneAndLinks
<1> QED
  BY <1>1, <1>2, PhoneLeft DEF PhoneAndLinks, TypeOK

\* A server step answers a connection, whose socket task moves on.
LEMMA ServerKeeps ==
  ASSUME PhoneAndLinks, NEW g \in Generation, NEW messages \in Seq(DownMessage),
         UNCHANGED <<phone, deadlines, link, cut, serverUp>>,
         Answer(g, messages),
         NEW stands \in {"hello", "playing", "ended"},
         socket' = [socket EXCEPT ![g] = stands],
         stands = "hello" => socket[g] = "none",
         \/ Without("welcome", messages)
         \/ socket[g] = "hello" /\ stands = "playing" /\ Len(messages) = 1,
         up' \in [Generation -> Seq(UpMessage)],
         last' \in Sequence \union {None}, held' \subseteq Button,
         \A h \in Generation : Greeted(h)'
  PROVE  PhoneAndLinks'
<1>1. down' \in [Generation -> Seq(DownMessage)] /\ Links'
  BY Answered DEF PhoneAndLinks
<1> QED
  BY <1>1, PhoneLeft DEF PhoneAndLinks, TypeOK

LEMMA Answers ==
  /\ \A reason \in Reason : Rejected(reason) \in Seq(DownMessage) /\ Without("welcome", Rejected(reason))
  /\ \A type \in {"open", "close"} : <<Msg(type)>> \in Seq(DownMessage) /\ Without("welcome", <<Msg(type)>>)
  /\ \A n \in Sequence : LET pong == <<[type |-> "pong", sequence |-> n]>>
                         IN pong \in Seq(DownMessage) /\ Without("welcome", pong)
  /\ <<Msg("welcome")>> \in Seq(DownMessage) /\ Len(<<Msg("welcome")>>) = 1
  /\ LET farewell == <<Msg("controller-disconnected"), Msg("close")>>
     IN farewell \in Seq(DownMessage) /\ Without("welcome", farewell)
<1>1. ASSUME NEW reason \in Reason
      PROVE  Rejected(reason) \in Seq(DownMessage) /\ Without("welcome", Rejected(reason))
  <2> DEFINE m == [type |-> "rejected", reason |-> reason]
             e == Msg("close")
  <2>1. m \in DownMessage /\ e \in DownMessage /\ m.type = "rejected" /\ e.type = "close"
    BY MessageTypes
  <2>2. Rejected(reason) = <<m, e>>
    BY DEF Rejected
  <2> HIDE DEF m, e
  <2> QED
    BY <2>1, <2>2 DEF Without
<1>2. \A type \in {"open", "close"} : <<Msg(type)>> \in Seq(DownMessage) /\ Without("welcome", <<Msg(type)>>)
  BY MessageTypes DEF Without
<1>3. ASSUME NEW n \in Sequence
      PROVE  LET pong == <<[type |-> "pong", sequence |-> n]>>
             IN pong \in Seq(DownMessage) /\ Without("welcome", pong)
  BY MessageTypes DEF Without
<1>4. <<Msg("welcome")>> \in Seq(DownMessage) /\ Len(<<Msg("welcome")>>) = 1
  BY MessageTypes
<1>5. LET farewell == <<Msg("controller-disconnected"), Msg("close")>>
      IN farewell \in Seq(DownMessage) /\ Without("welcome", farewell)
  BY MessageTypes DEF Without
<1> QED
  BY <1>1, <1>2, <1>3, <1>4, <1>5

LEMMA SocketEnds ==
  ASSUME PhoneAndLinks, NEW g \in Generation, NEW messages \in Seq(DownMessage),
         Without("welcome", messages), EndSocket(g), Answer(g, messages),
         UNCHANGED <<phone, deadlines, link, cut, serverUp>>,
         last' \in {last, None}, held' \in {held, {}}
  PROVE  PhoneAndLinks'
<1>1. up' \in [Generation -> Seq(UpMessage)]
  BY NothingOnTheWay DEF EndSocket, PhoneAndLinks, TypeOK
<1>2. socket' = [socket EXCEPT ![g] = "ended"]
  BY DEF EndSocket
<1>3. last' \in Sequence \union {None} /\ held' \subseteq Button
  BY DEF PhoneAndLinks, TypeOK
<1> DEFINE stands == "ended"
<1>4. stands \in {"hello", "playing", "ended"} /\ stands # "hello"
  OBVIOUS
<1>5. socket' = [socket EXCEPT ![g] = stands]
  BY <1>2
<1> HIDE DEF stands
<1>6. \A h \in Generation : (up'[h] = up[h] \/ up'[h] = <<>>)
                             /\ (socket'[h] = socket[h] \/ socket'[h] = "ended")
  BY DEF EndSocket, PhoneAndLinks, TypeOK
<1>7. \A h \in Generation : Greeted(h)'
  BY <1>6, NothingOnTheWay DEF Greeted, PhoneAndLinks, Links
<1> QED
  BY <1>1, <1>3, <1>4, <1>5, <1>7, ServerKeeps

LEMMA AcceptKeeps ==
  ASSUME PhoneAndLinks, NEW g \in Generation, AcceptSocket(g)
  PROVE  PhoneAndLinks'
<1> DEFINE stands == "hello"
<1>1. /\ socket[g] = "none" /\ socket' = [socket EXCEPT ![g] = stands]
      /\ Answer(g, <<Msg("open")>>)
      /\ UNCHANGED <<phone, deadlines, link, up, cut, serverUp, last, held>>
  BY DEF AcceptSocket
<1>2. stands \in {"hello", "playing", "ended"} /\ stands # "playing"
  OBVIOUS
<1> HIDE DEF stands
<1>3. \A h \in Generation : Greeted(h)'
  BY <1>1, <1>2 DEF Greeted, PhoneAndLinks, Links, TypeOK
<1> QED
  BY <1>1, <1>2, <1>3, Answers, ServerKeeps DEF PhoneAndLinks, TypeOK

LEMMA HelloKeeps ==
  ASSUME PhoneAndLinks, NEW g \in Generation, HearHello(g)
  PROVE  PhoneAndLinks'
<1>0. /\ socket[g] = "hello" /\ up[g] # <<>> /\ up[g] \in Seq(UpMessage)
      /\ Head(up[g]).type = "hello" /\ Greeted(g)
      /\ UNCHANGED <<phone, deadlines, link, cut, serverUp, last, held>>
  BY DEF HearHello, PhoneAndLinks, TypeOK, Links
<1>1. CASE serverUp /\ ~ Claimed
  <2> DEFINE stands == "playing"
             messages == <<Msg("welcome")>>
  <2>1. /\ socket' = [socket EXCEPT ![g] = stands] /\ Answer(g, messages)
        /\ up' = [up EXCEPT ![g] = Tail(@)]
    BY <1>1 DEF HearHello
  <2>2. up' \in [Generation -> Seq(UpMessage)]
    BY <1>0, <2>1, RestOf DEF PhoneAndLinks, TypeOK
  <2>3. /\ stands \in {"hello", "playing", "ended"} /\ stands = "playing"
        /\ messages \in Seq(DownMessage) /\ Len(messages) = 1
    BY Answers
  <2> HIDE DEF stands, messages
  <2>4. last' \in Sequence \union {None} /\ held' \subseteq Button
    BY <1>0 DEF PhoneAndLinks, TypeOK
  <2>5. /\ up'[g] = Tail(up[g]) /\ socket'[g] = stands /\ link' = link
        /\ \A h \in Generation \ {g} : up'[h] = up[h] /\ socket'[h] = socket[h]
    BY <1>0, <2>1 DEF PhoneAndLinks, TypeOK
  <2>6. Once("hello", up'[g]) /\ Without("hello", up'[g]) /\ ~ Without("hello", up[g])
    <3>1. ~ Without("hello", up[g])
      BY <1>0, RestOf DEF Without
    <3>2. Once("hello", up[g])
      BY <1>0 DEF Greeted
    <3> QED
      BY <1>0, <2>5, <3>1, <3>2, OnceOfRest
  <2>7. \A h \in Generation : Greeted(h)'
    BY <1>0, <2>5, <2>6 DEF Greeted, PhoneAndLinks, Links
  <2> QED
    BY <1>0, <2>1, <2>2, <2>3, <2>4, <2>7, ServerKeeps
<1>2. CASE ~ (serverUp /\ ~ Claimed)
  <2> DEFINE reason == IF serverUp THEN "controller-already-connected" ELSE "invalid-token"
  <2>1. reason \in Reason
    BY DEF Reason
  <2>2. EndSocket(g) /\ Answer(g, Rejected(reason))
    BY <1>2 DEF HearHello
  <2> HIDE DEF reason
  <2> QED
    BY <1>0, <2>1, <2>2, Answers, SocketEnds
<1> QED
  BY <1>1, <1>2

LEMMA HelloTimeoutKeeps ==
  ASSUME PhoneAndLinks, NEW g \in Generation, HelloTimeout(g)
  PROVE  PhoneAndLinks'
<1>1. /\ EndSocket(g) /\ Answer(g, Rejected("malformed-message"))
      /\ UNCHANGED <<phone, deadlines, link, cut, serverUp, last, held>>
  BY DEF HelloTimeout
<1>2. "malformed-message" \in Reason
  BY DEF Reason
<1>3. last' \in {last, None} /\ held' \in {held, {}}
  BY <1>1
<1> DEFINE answer == Rejected("malformed-message")
<1>4. answer \in Seq(DownMessage) /\ Without("welcome", answer)
  BY <1>2, Answers
<1>5. EndSocket(g) /\ Answer(g, answer)
  BY <1>1
<1> HIDE DEF answer
<1> QED
  BY <1>1, <1>3, <1>4, <1>5, SocketEnds

\* What a playing socket is sent has a number.
LEMMA Heard ==
  ASSUME PhoneAndLinks, NEW g \in Generation, Playing(g), Head(up[g]).type # "close"
  PROVE  /\ up[g] \in Seq(UpMessage) /\ up[g] # <<>> /\ Head(up[g]) \in UpMessage
         /\ Head(up[g]).sequence \in Sequence
         /\ \A buttons \in SUBSET Button : Apply(buttons, Head(up[g])) \in SUBSET Button
<1> DEFINE m == Head(up[g])
<1>1. /\ up[g] \in Seq(UpMessage) /\ up[g] # <<>> /\ Without("hello", up[g])
  BY DEF Playing, PhoneAndLinks, TypeOK, Links, Greeted
<1>2. m \in UpMessage /\ m.type # "hello"
  BY <1>1, RestOf DEF Without
<1> HIDE DEF m
<1>3. m.type # "close"
  BY DEF m
<1>4. \/ m \in [type : {"state-sync"}, buttons : SUBSET Button, sequence : Sequence]
      \/ m \in [type : {"button-down", "button-up"}, button : Button, sequence : Sequence]
      \/ m \in [type : {"ping"}, sequence : Sequence]
  BY <1>2, <1>3 DEF UpMessage
<1>5. m.sequence \in Sequence
  BY <1>4
<1>6. ASSUME NEW buttons \in SUBSET Button
      PROVE  Apply(buttons, m) \in SUBSET Button
  <2>1. CASE m.type = "state-sync"
    <3>1. m.buttons \in SUBSET Button /\ Apply(buttons, m) = m.buttons
      BY <1>4, <2>1 DEF Apply
    <3> QED
      BY <3>1
  <2>2. CASE m.type = "button-down"
    <3>1. m.button \in Button /\ Apply(buttons, m) = buttons \union {m.button}
      BY <1>4, <2>2 DEF Apply
    <3> QED
      BY <3>1
  <2>3. CASE m.type = "button-up"
    <3>1. Apply(buttons, m) = buttons \ {m.button}
      BY <2>3 DEF Apply
    <3> QED
      BY <3>1
  <2>4. CASE m.type = "ping"
    <3>1. Apply(buttons, m) = buttons
      BY <2>4 DEF Apply
    <3> QED
      BY <3>1
  <2> QED
    BY <1>4, <2>1, <2>2, <2>3, <2>4
<1> QED
  BY <1>1, <1>2, <1>5, <1>6 DEF m

LEMMA MessageKeeps ==
  ASSUME PhoneAndLinks, NEW g \in Generation, HearMessage(g)
  PROVE  PhoneAndLinks'
<1> DEFINE message == Head(up[g])
<1>0. /\ socket[g] = "playing" /\ message.type # "close" /\ Playing(g)
      /\ UNCHANGED <<phone, deadlines, link, cut, serverUp>>
  BY DEF HearMessage, Playing
<1>1. /\ up[g] \in Seq(UpMessage) /\ up[g] # <<>> /\ message \in UpMessage
      /\ message.sequence \in Sequence /\ Apply(held, message) \subseteq Button
  BY <1>0, Heard DEF PhoneAndLinks, TypeOK
<1>2. CASE Accepts(message.sequence)
  <2> DEFINE answer == IF message.type = "ping"
                       THEN <<[type |-> "pong", sequence |-> message.sequence]>>
                       ELSE <<>>
             stands == "playing"
  <2>1. /\ last' = message.sequence /\ held' = Apply(held, message)
        /\ up' = [up EXCEPT ![g] = Tail(@)] /\ Answer(g, answer) /\ UNCHANGED socket
    BY <1>2 DEF HearMessage
  <2>2. answer \in Seq(DownMessage) /\ Without("welcome", answer)
    BY <1>1, Answers, NothingOnTheWay
  <2>3. stands \in {"hello", "playing", "ended"} /\ stands # "hello"
        /\ socket' = [socket EXCEPT ![g] = stands]
    BY <1>0, <2>1 DEF PhoneAndLinks, TypeOK
  <2> HIDE DEF answer, stands
  <2>4. Tail(up[g]) \in Seq(UpMessage)
    BY <1>1, RestOf
  <2>5. up' \in [Generation -> Seq(UpMessage)]
    BY <2>1, <2>4 DEF PhoneAndLinks, TypeOK
  <2>6. /\ up'[g] = Tail(up[g]) /\ \A h \in Generation \ {g} : up'[h] = up[h]
    BY <2>1 DEF PhoneAndLinks, TypeOK
  <2>7. Once("hello", up[g]) /\ Without("hello", up[g])
    BY <1>0 DEF PhoneAndLinks, Links, Greeted
  <2>8. Once("hello", up'[g]) /\ Without("hello", up'[g])
    BY <1>1, <2>6, <2>7, OnceOfRest
  <2>9. \A h \in Generation : Greeted(h)'
    BY <1>0, <2>1, <2>6, <2>8 DEF PhoneAndLinks, Links, Greeted
  <2> QED
    BY <1>0, <1>1, <2>1, <2>2, <2>3, <2>5, <2>9, ServerKeeps
<1>3. CASE ~ Accepts(message.sequence)
  <2>1. EndSocket(g) /\ last' = None /\ held' = {} /\ Answer(g, Rejected("malformed-message"))
    BY <1>3 DEF HearMessage, Leave
  <2>2. "malformed-message" \in Reason
    BY DEF Reason
  <2> QED
    BY <1>0, <2>1, <2>2, Answers, SocketEnds
<1> QED
  BY <1>2, <1>3

LEMMA HearCloseKeeps ==
  ASSUME PhoneAndLinks, NEW g \in Generation, HearClose(g)
  PROVE  PhoneAndLinks'
<1>1. /\ EndSocket(g) /\ last' = None /\ held' = {}
      /\ UNCHANGED <<phone, deadlines, link, down, cut, serverUp>>
  BY DEF HearClose, Leave
<1>2. \A h \in Generation : (up'[h] = up[h] \/ up'[h] = <<>>)
                             /\ (socket'[h] = socket[h] \/ socket'[h] = "ended")
  BY <1>1 DEF EndSocket, PhoneAndLinks, TypeOK
<1>3. Links'
  BY <1>1, <1>2, NothingOnTheWay
  DEF PhoneAndLinks, Links, Linked, Greeted, Welcomed, Current, Connected
<1>4. /\ up' \in [Generation -> Seq(UpMessage)]
      /\ socket' \in [Generation -> {"none", "hello", "playing", "ended"}]
  BY <1>1, NothingOnTheWay DEF EndSocket, PhoneAndLinks, TypeOK
<1> QED
  BY <1>1, <1>3, <1>4, PhoneLeft DEF PhoneAndLinks, TypeOK

LEMMA HeartbeatTimeoutKeeps ==
  ASSUME PhoneAndLinks, NEW g \in Generation, HeartbeatTimeout(g)
  PROVE  PhoneAndLinks'
<1>1. /\ EndSocket(g) /\ last' = None /\ held' = {} /\ Answer(g, <<Msg("close")>>)
      /\ UNCHANGED <<phone, deadlines, link, cut, serverUp>>
  BY DEF HeartbeatTimeout, Leave
<1> QED
  BY <1>1, Answers, SocketEnds

LEMMA ShutdownKeeps ==
  ASSUME PhoneAndLinks, NEW g \in Generation, HearShutdown(g)
  PROVE  PhoneAndLinks'
<1>1. UNCHANGED <<phone, deadlines, link, cut, serverUp>>
  BY DEF HearShutdown
<1>2. CASE EndSocket(g) /\ Answer(g, <<Msg("close")>>) /\ UNCHANGED <<last, held>>
  BY <1>1, <1>2, Answers, SocketEnds
<1>3. CASE /\ Leave(g) /\ Answer(g, <<Msg("controller-disconnected"), Msg("close")>>)
  BY <1>1, <1>3, Answers, SocketEnds DEF Leave
<1> QED
  BY <1>2, <1>3 DEF HearShutdown

-----------------------------------------------------------------------------
LEMMA PhoneInitially == Init => PhoneAndLinks
<1> SUFFICES ASSUME Init
             PROVE  PhoneAndLinks
  OBVIOUS
<1>1. phone \in Phone /\ PhoneInv(phone) /\ phone.connection = 0 /\ phone.awaitedPong = None
  BY Bounds DEF Init, Phone, Status, PhoneInv, Sequence
<1>2. /\ deadlines = {} /\ \A g \in Generation : /\ link[g] = "none" /\ socket[g] = "none"
                                                 /\ up[g] = <<>> /\ down[g] = <<>>
  BY DEF Init
<1>3. TypeOK
  BY <1>1, NothingOnTheWay DEF Init, TypeOK
<1>4. Links
  BY <1>1, <1>2, NothingOnTheWay, Bounds
  DEF Links, Linked, Greeted, Welcomed, Current, Connected, PhoneInv
<1> QED
  BY <1>1, <1>2, <1>3, <1>4 DEF PhoneAndLinks, DeadlineOfThePing

LEMMA PhoneUntouched ==
  ASSUME PhoneAndLinks, UNCHANGED vars
  PROVE  PhoneAndLinks'
<1>1. UNCHANGED <<phone, deadlines, link, up, down, cut, serverUp, socket, last, held>>
  BY DEF vars, network, server
<1>2. Links'
  BY <1>1 DEF Links, Linked, Greeted, Welcomed, Current, Connected, PhoneAndLinks
<1> QED
  BY <1>1, <1>2, PhoneLeft DEF PhoneAndLinks, TypeOK

\* Every step, and that a phone the user disconnected stays so.
LEMMA PhoneSteps ==
  ASSUME PhoneAndLinks, [Next]_vars
  PROVE  /\ PhoneAndLinks'
         /\ phone.status = "disconnected" /\ phone'.status # "disconnected" => Connect
<1>1. CASE User
  BY <1>1, ConnectKeeps, HideKeeps, ShowKeeps, ShowStays, DisconnectKeeps, SetButtonKeeps,
     ReleaseAllKeeps DEF User, Staying
<1>2. CASE Timer
  BY <1>2, RetryKeeps, PingKeeps, DeadlineKeeps DEF Timer
<1>3. ASSUME NEW g \in Generation, Event(g)
      PROVE  /\ PhoneAndLinks'
             /\ phone.status = "disconnected" => phone'.status = "disconnected"
  BY <1>3, OpenKeeps, WelcomeKeeps, RejectedKeeps, PongKeeps, ControllerDisconnectedKeeps,
     CloseKeeps, TransportFailureKeeps DEF Event
<1>4. ASSUME NEW g \in Generation, ServerStep(g) \/ ServerTimeout(g) \/ Cut(g)
      PROVE  PhoneAndLinks' /\ phone' = phone
  <2>1. PhoneAndLinks'
    BY <1>4, AcceptKeeps, HelloKeeps, MessageKeeps, HearCloseKeeps, ShutdownKeeps,
       HelloTimeoutKeeps, HeartbeatTimeoutKeeps, CutKeeps DEF ServerStep, ServerTimeout
  <2>2. phone' = phone
    BY <1>4 DEF ServerStep, ServerTimeout, AcceptSocket, HearHello, HearMessage, HearClose,
                HearShutdown, HelloTimeout, HeartbeatTimeout, Cut
  <2> QED
    BY <2>1, <2>2
<1>5. CASE EndSession
  BY <1>5, EndSessionKeeps DEF EndSession
<1>6. CASE UNCHANGED vars
  BY <1>6, PhoneUntouched DEF vars
<1> QED
  BY <1>1, <1>2, <1>3, <1>4, <1>5, <1>6 DEF Next

\* The values of all variables, for any number of connections, buttons, retries
\* and messages on the way.
THEOREM TypeCorrect == Spec => []TypeOK
<1>1. PhoneAndLinks => TypeOK
  BY DEF PhoneAndLinks
<1>2. PhoneAndLinks /\ [Next]_vars => PhoneAndLinks'
  BY PhoneSteps
<1> QED
  BY <1>1, <1>2, PhoneInitially, PTL DEF Spec

\* The phone has one connection at most, and no retry while it is connected.
THEOREM OneConnectionAtMost == Spec => []OneConnection
<1>1. PhoneAndLinks => OneConnection
  BY Bounds DEF PhoneAndLinks, Links, Linked, PhoneInv, OneConnection, Connected
<1>2. PhoneAndLinks /\ [Next]_vars => PhoneAndLinks'
  BY PhoneSteps
<1> QED
  BY <1>1, <1>2, PhoneInitially, PTL DEF Spec

\* A session that recovers always has something due that goes on with it.
THEOREM RecoveryNeverLost == Spec => []RecoveryIsPending
<1>1. PhoneAndLinks => RecoveryIsPending
  BY DEF PhoneAndLinks, DeadlineOfThePing, PhoneInv, RecoveryIsPending, Connected
<1>2. PhoneAndLinks /\ [Next]_vars => PhoneAndLinks'
  BY PhoneSteps
<1> QED
  BY <1>1, <1>2, PhoneInitially, PTL DEF Spec

\* After an explicit disconnect only the user connects again.
THEOREM DisconnectedForGood == Spec => StaysDisconnected
<1>1. PhoneAndLinks /\ [Next]_vars => PhoneAndLinks'
  BY PhoneSteps
<1>2. PhoneAndLinks /\ [Next]_vars =>
        [phone.status = "disconnected" /\ phone'.status # "disconnected" => Connect]_vars
  BY PhoneSteps
<1> QED
  BY <1>1, <1>2, PhoneInitially, PTL DEF Spec, StaysDisconnected

-----------------------------------------------------------------------------
(* Numbers and buttons.                                                     *)

\* A connection that carries nothing has nothing on the way, and a close is the
\* last that the phone says.
ClosesLast(s) == \A i \in 1 .. Len(s) : s[i].type = "close" => i = Len(s)

Silent(g) ==
  /\ link[g] = "none" => socket[g] = "none" /\ g \notin cut
  /\ link[g] = "connecting" => up[g] = <<>>
  /\ (socket[g] \in {"none", "ended"} \/ g \in cut) => up[g] = <<>>
  /\ g \in cut => down[g] = <<>>
  /\ ClosesLast(up[g])
  /\ link[g] \in {"connecting", "open"} => Without("close", up[g])

\* Until the phone reads the welcome it says nothing but the hello.
Waiting(g) ==
  /\ socket[g] = "hello" =>
       \A i \in 1 .. Len(up[g]) :
         up[g][i].type = "close" \/ (up[g][i].type = "hello" /\ i = 1)
  /\ (socket[g] = "playing" /\ link[g] = "open" /\ ~ Current(g)) =>
       up[g] = <<>> /\ last = None /\ held = {}

\* The number n may come at place i of the messages, after the number l.
Follows(s, l, i, n) ==
  IF i = 1 THEN l = None \/ n = Successor(l) ELSE n = Successor(s[i - 1].sequence)

Numbers(s, l) ==
  \A i \in 1 .. Len(s) : s[i].type # "close" => Follows(s, l, i, s[i].sequence)

Numbered(g) ==
  socket[g] = "playing" =>
    /\ Numbers(up[g], last)
    /\ (Current(g) /\ g \notin cut) =>
         Follows(up[g], last, Len(up[g]) + 1, phone.nextSequence)

Wire(g) == Silent(g) /\ Waiting(g) /\ Numbered(g)

\* One socket at most plays, and nothing is held without it.
Seat ==
  /\ \A g, h \in Generation : socket[g] = "playing" /\ socket[h] = "playing" => g = h
  /\ ~ Claimed => last = None /\ held = {}

Agreement == (\A g \in Generation : Wire(g)) /\ Seat /\ ButtonsAgree

-----------------------------------------------------------------------------
(* Sequences of numbered messages.                                          *)

LEMMA Nothing ==
  /\ ClosesLast(<<>>) /\ \A l : Numbers(<<>>, l)
  /\ \A s \in Seq(UpMessage) : s \o <<>> = s /\ <<>> \o s = s
<1>1. ClosesLast(<<>>) /\ \A l : Numbers(<<>>, l)
  BY DEF ClosesLast, Numbers
<1>2. \A s \in Seq(UpMessage) : s \o <<>> = s /\ <<>> \o s = s
  BY ConcatEmptySeq
<1> QED
  BY <1>1, <1>2

\* One message more.
LEMMA AddedOne ==
  ASSUME NEW s \in Seq(UpMessage), NEW m \in UpMessage
  PROVE  LET t == s \o <<m>>
         IN /\ t \in Seq(UpMessage) /\ Len(s) \in Nat /\ Len(t) = Len(s) + 1
            /\ t[Len(s) + 1] = m
            /\ \A i \in 1 .. Len(s) : t[i] = s[i]
            /\ \A i \in 1 .. Len(t) : i \in 1 .. Len(s) \/ i = Len(s) + 1
<1>1. <<m>> \in Seq(UpMessage) /\ Len(<<m>>) = 1 /\ <<m>>[1] = m
  OBVIOUS
<1> DEFINE e == <<m>>
<1> HIDE DEF e
<1>2. e \in Seq(UpMessage) /\ Len(e) = 1 /\ e[1] = m
  BY <1>1 DEF e
<1>3. LET t == s \o e
      IN /\ t \in Seq(UpMessage) /\ Len(s) \in Nat /\ Len(t) = Len(s) + 1
         /\ t[Len(s) + 1] = m
         /\ \A i \in 1 .. Len(s) : t[i] = s[i]
         /\ \A i \in 1 .. Len(t) : i \in 1 .. Len(s) \/ i = Len(s) + 1
  <2> DEFINE t == s \o e
  <2>1. /\ t \in Seq(UpMessage) /\ Len(s) \in Nat /\ Len(t) = Len(s) + 1
        /\ \A i \in 1 .. Len(s) + 1 :
             t[i] = IF i <= Len(s) THEN s[i] ELSE e[i - Len(s)]
    <3>1. /\ t \in Seq(UpMessage) /\ Len(t) = Len(s) + Len(e)
          /\ \A i \in 1 .. Len(s) + Len(e) :
               t[i] = IF i <= Len(s) THEN s[i] ELSE e[i - Len(s)]
      BY <1>2, ConcatProperties
    <3>2. Len(s) \in Nat
      BY LenProperties
    <3> HIDE DEF t
    <3> QED
      BY <1>2, <3>1, <3>2
  <2> HIDE DEF t
  <2>2. Len(s) + 1 \in 1 .. Len(s) + 1 /\ Len(s) + 1 > Len(s) /\ (Len(s) + 1) - Len(s) = 1
    BY <2>1
  <2>3. t[Len(s) + 1] = m
    BY <1>2, <2>1, <2>2
  <2>4. \A i \in 1 .. Len(s) : t[i] = s[i]
    BY <2>1
  <2>5. \A i \in 1 .. Len(t) : i \in 1 .. Len(s) \/ i = Len(s) + 1
    BY <2>1
  <2> QED
    BY <2>1, <2>3, <2>4, <2>5 DEF t
<1> QED
  BY <1>3 DEF e

LEMMA NumberAdded ==
  ASSUME NEW s \in Seq(UpMessage), NEW m \in UpMessage, NEW l, NEW n,
         Without("close", s), Numbers(s, l), m.type # "close", m.sequence = n,
         Follows(s, l, Len(s) + 1, n)
  PROVE  LET t == s \o <<m>>
         IN /\ Without("close", t) /\ Numbers(t, l)
            /\ Follows(t, l, Len(t) + 1, Successor(n))
<1> DEFINE t == s \o <<m>>
<1>1. /\ t \in Seq(UpMessage) /\ Len(s) \in Nat /\ Len(t) = Len(s) + 1
      /\ t[Len(s) + 1] = m
      /\ \A i \in 1 .. Len(s) : t[i] = s[i]
      /\ \A i \in 1 .. Len(t) : i \in 1 .. Len(s) \/ i = Len(s) + 1
  BY AddedOne
<1> HIDE DEF t
<1>2. Without("close", t)
  BY <1>1 DEF Without
<1>3. ASSUME NEW i \in 1 .. Len(t)
      PROVE  Follows(t, l, i, t[i].sequence)
  <2>1. CASE i \in 1 .. Len(s)
    <3>1. Follows(s, l, i, s[i].sequence)
      BY <2>1 DEF Numbers, Without
    <3>2. t[i] = s[i] /\ (i = 1 \/ t[i - 1] = s[i - 1])
      BY <1>1, <2>1
    <3> QED
      BY <3>1, <3>2 DEF Follows
  <2>2. CASE i = Len(s) + 1
    <3>1. t[i] = m /\ (i = 1 \/ t[i - 1] = s[i - 1])
      BY <1>1, <2>2
    <3> QED
      BY <2>2, <3>1 DEF Follows
  <2> QED
    BY <1>1, <2>1, <2>2
<1>4. Numbers(t, l)
  BY <1>3 DEF Numbers
<1>5. Follows(t, l, Len(t) + 1, Successor(n))
  BY <1>1 DEF Follows
<1> QED
  BY <1>2, <1>4, <1>5 DEF t

LEMMA CloseAdded ==
  ASSUME NEW s \in Seq(UpMessage), NEW l, Without("close", s)
  PROVE  LET t == s \o <<Msg("close")>>
         IN ClosesLast(t) /\ (Numbers(s, l) => Numbers(t, l))
<1> DEFINE m == Msg("close")
           t == s \o <<m>>
<1>0. m \in UpMessage /\ m.type = "close"
  BY MessageTypes DEF Msg
<1> HIDE DEF m
<1>1. /\ t \in Seq(UpMessage) /\ Len(s) \in Nat /\ Len(t) = Len(s) + 1
      /\ t[Len(s) + 1] = m
      /\ \A i \in 1 .. Len(s) : t[i] = s[i]
      /\ \A i \in 1 .. Len(t) : i \in 1 .. Len(s) \/ i = Len(s) + 1
  BY <1>0, AddedOne
<1> HIDE DEF t
<1>2. ClosesLast(t)
  BY <1>1 DEF Without, ClosesLast
<1>3. ASSUME Numbers(s, l), NEW i \in 1 .. Len(t), t[i].type # "close"
      PROVE  Follows(t, l, i, t[i].sequence)
  <2>1. i \in 1 .. Len(s)
    BY <1>0, <1>1, <1>3
  <2>2. Follows(s, l, i, s[i].sequence)
    BY <1>3, <2>1 DEF Numbers, Without
  <2>3. t[i] = s[i] /\ (i = 1 \/ t[i - 1] = s[i - 1])
    BY <1>1, <2>1
  <2> QED
    BY <2>2, <2>3 DEF Follows
<1>4. Numbers(s, l) => Numbers(t, l)
  BY <1>3 DEF Numbers
<1> QED
  BY <1>2, <1>4 DEF t, m

\* The first message is read.
LEMMA NumberRead ==
  ASSUME NEW s \in Seq(UpMessage), s # <<>>, NEW l, ClosesLast(s), None \notin Sequence,
         Numbers(s, l), Head(s).type # "close", Head(s).sequence \in Sequence
  PROVE  /\ l = None \/ Head(s).sequence = Successor(l)
         /\ Numbers(Tail(s), Head(s).sequence)
         /\ \A n : Follows(s, l, Len(s) + 1, n) =>
                     Follows(Tail(s), Head(s).sequence, Len(Tail(s)) + 1, n)
<1> DEFINE t == Tail(s)
<1>1. /\ Len(s) \in Nat \ {0} /\ Len(t) = Len(s) - 1 /\ Head(s) = s[1]
      /\ \A i \in 1 .. Len(t) : t[i] = s[i + 1] /\ i + 1 \in 1 .. Len(s)
  BY RestOf
<1> HIDE DEF t
<1>2. l = None \/ Head(s).sequence = Successor(l)
  BY <1>1 DEF Numbers, Follows
<1>3. ASSUME NEW i \in 1 .. Len(t), t[i].type # "close"
      PROVE  Follows(t, Head(s).sequence, i, t[i].sequence)
  <2>1. t[i] = s[i + 1] /\ i + 1 \in 1 .. Len(s) /\ i + 1 # 1 /\ (i + 1) - 1 = i
    BY <1>1
  <2>2. Follows(s, l, i + 1, t[i].sequence)
    BY <1>3, <2>1 DEF Numbers
  <2>3. t[i].sequence = Successor(s[i].sequence)
    BY <2>1, <2>2 DEF Follows
  <2>4. CASE i = 1
    BY <1>1, <2>3, <2>4 DEF Follows
  <2>5. CASE i # 1
    <3>1. i - 1 \in 1 .. Len(t) /\ t[i - 1] = s[i]
      BY <1>1, <2>5
    <3> QED
      BY <2>3, <2>5, <3>1 DEF Follows
  <2> QED
    BY <2>4, <2>5
<1>4. Numbers(t, Head(s).sequence)
  BY <1>3 DEF Numbers
<1>5. ASSUME NEW n, Follows(s, l, Len(s) + 1, n)
      PROVE  Follows(t, Head(s).sequence, Len(t) + 1, n)
  <2>1. n = Successor(s[Len(s)].sequence)
    BY <1>1, <1>5 DEF Follows
  <2>2. CASE Len(t) = 0
    <3>1. Len(t) + 1 = 1 /\ Len(s) = 1
      BY <1>1, <2>2
    <3>2. n = Successor(Head(s).sequence)
      BY <1>1, <2>1, <3>1
    <3> QED
      BY <3>1, <3>2 DEF Follows
  <2>3. CASE Len(t) # 0
    <3>1. Len(t) \in 1 .. Len(t) /\ t[Len(t)] = s[Len(s)] /\ Len(t) + 1 # 1
          /\ (Len(t) + 1) - 1 = Len(t)
      BY <1>1, <2>3
    <3> QED
      BY <2>1, <3>1 DEF Follows
  <2> QED
    BY <2>2, <2>3
<1> QED
  BY <1>2, <1>4, <1>5 DEF t

LEMMA CloseRead ==
  ASSUME NEW s \in Seq(UpMessage), s # <<>>, ClosesLast(s)
  PROVE  /\ ClosesLast(Tail(s))
         /\ Without("close", s) => Without("close", Tail(s))
  BY RestOf DEF ClosesLast, Without

-----------------------------------------------------------------------------
(* What the messages do to the buttons.                                     *)

Held(H, button, s) ==
  \/ /\ button \in H
     /\ \A i \in 1 .. Len(s) : ~ Releases(s[i], button)
  \/ \E i \in 1 .. Len(s) :
       /\ Presses(s[i], button)
       /\ \A j \in i + 1 .. Len(s) : ~ Releases(s[j], button)

LEMMA Applied ==
  ASSUME NEW m \in UpMessage, m.type # "hello", m.type # "close", NEW H \in SUBSET Button,
         NEW button \in Button
  PROVE  /\ button \in Apply(H, m) <=>
              Presses(m, button) \/ (button \in H /\ ~ Releases(m, button))
         /\ ~ (Presses(m, button) /\ Releases(m, button))
<1>1. \/ m \in [type : {"state-sync"}, buttons : SUBSET Button, sequence : Sequence]
      \/ m \in [type : {"button-down", "button-up"}, button : Button, sequence : Sequence]
      \/ m \in [type : {"ping"}, sequence : Sequence]
  BY DEF UpMessage
<1>2. CASE m.type = "state-sync"
  <2>1. \A B \in SUBSET Button : Apply(B, m) = m.buttons
    BY <1>2 DEF Apply
  <2> QED
    BY <2>1 DEF Presses, Releases
<1>3. CASE m.type = "button-down"
  <2>1. \A B \in SUBSET Button : Apply(B, m) = B \union {m.button}
    BY <1>3 DEF Apply
  <2> QED
    BY <2>1 DEF Presses, Releases
<1>4. CASE m.type = "button-up"
  <2>1. \A B \in SUBSET Button : Apply(B, m) = B \ {m.button}
    BY <1>4 DEF Apply
  <2> QED
    BY <2>1 DEF Presses, Releases
<1>5. CASE m.type = "ping"
  <2>1. \A B \in SUBSET Button : Apply(B, m) = B
    BY <1>5 DEF Apply
  <2> QED
    BY <2>1 DEF Presses, Releases
<1> QED
  BY <1>1, <1>2, <1>3, <1>4, <1>5

LEMMA HeldAdded ==
  ASSUME NEW s \in Seq(UpMessage), NEW m \in UpMessage, NEW H, NEW button,
         ~ (Presses(m, button) /\ Releases(m, button))
  PROVE  Held(H, button, s \o <<m>>) <=>
           Presses(m, button) \/ (Held(H, button, s) /\ ~ Releases(m, button))
<1> DEFINE t == s \o <<m>>
<1>1. /\ t \in Seq(UpMessage) /\ Len(s) \in Nat /\ Len(t) = Len(s) + 1
      /\ t[Len(s) + 1] = m
      /\ \A i \in 1 .. Len(s) : t[i] = s[i]
      /\ \A i \in 1 .. Len(t) : i \in 1 .. Len(s) \/ i = Len(s) + 1
  BY AddedOne
<1> HIDE DEF t
<1>2. Presses(m, button) => Held(H, button, t)
  BY <1>1 DEF Held
<1>3. ASSUME Held(H, button, s), ~ Releases(m, button)
      PROVE  Held(H, button, t)
  <2>1. CASE button \in H /\ \A i \in 1 .. Len(s) : ~ Releases(s[i], button)
    BY <1>1, <1>3, <2>1 DEF Held
  <2>2. CASE \E i \in 1 .. Len(s) :
               /\ Presses(s[i], button)
               /\ \A j \in i + 1 .. Len(s) : ~ Releases(s[j], button)
    <3>1. PICK i \in 1 .. Len(s) :
            /\ Presses(s[i], button)
            /\ \A j \in i + 1 .. Len(s) : ~ Releases(s[j], button)
      BY <2>2
    <3>2. i \in 1 .. Len(t) /\ Presses(t[i], button)
      BY <1>1, <3>1
    <3>3. \A j \in i + 1 .. Len(t) : ~ Releases(t[j], button)
      BY <1>1, <1>3, <3>1
    <3> QED
      BY <3>2, <3>3 DEF Held
  <2> QED
    BY <1>3, <2>1, <2>2 DEF Held
<1>4. ASSUME Held(H, button, t), ~ Presses(m, button)
      PROVE  Held(H, button, s) /\ ~ Releases(m, button)
  <2>1. CASE button \in H /\ \A i \in 1 .. Len(t) : ~ Releases(t[i], button)
    <3>1. \A i \in 1 .. Len(s) : ~ Releases(s[i], button)
      BY <1>1, <2>1
    <3>2. Len(s) + 1 \in 1 .. Len(t)
      BY <1>1
    <3> QED
      BY <1>1, <2>1, <3>1, <3>2 DEF Held
  <2>2. CASE \E i \in 1 .. Len(t) :
               /\ Presses(t[i], button)
               /\ \A j \in i + 1 .. Len(t) : ~ Releases(t[j], button)
    <3>1. PICK i \in 1 .. Len(t) :
            /\ Presses(t[i], button)
            /\ \A j \in i + 1 .. Len(t) : ~ Releases(t[j], button)
      BY <2>2
    <3>2. i \in 1 .. Len(s) /\ Presses(s[i], button)
      BY <1>1, <1>4, <3>1
    <3>3. Len(s) + 1 \in i + 1 .. Len(t)
      BY <1>1, <3>2
    <3>4. ~ Releases(m, button)
      BY <1>1, <3>1, <3>3
    <3>5. \A j \in i + 1 .. Len(s) : ~ Releases(s[j], button)
      BY <1>1, <3>1, <3>2
    <3> QED
      BY <3>2, <3>4, <3>5 DEF Held
  <2> QED
    BY <1>4, <2>1, <2>2 DEF Held
<1> QED
  BY <1>2, <1>3, <1>4 DEF t

LEMMA HeldRead ==
  ASSUME NEW s \in Seq(UpMessage), s # <<>>, NEW H, NEW K, NEW button,
         button \in K <=> Presses(Head(s), button) \/ (button \in H /\ ~ Releases(Head(s), button))
  PROVE  Held(K, button, Tail(s)) <=> Held(H, button, s)
<1> DEFINE t == Tail(s)
<1>1. /\ Len(s) \in Nat \ {0} /\ Len(t) = Len(s) - 1 /\ Head(s) = s[1]
      /\ \A i \in 1 .. Len(t) : t[i] = s[i + 1] /\ i + 1 \in 1 .. Len(s)
  BY RestOf
<1> HIDE DEF t
<1>2. \A i \in 2 .. Len(s) : i - 1 \in 1 .. Len(t) /\ s[i] = t[i - 1]
  BY <1>1
<1>3. ASSUME Held(K, button, t)
      PROVE  Held(H, button, s)
  <2>1. CASE button \in K /\ \A i \in 1 .. Len(t) : ~ Releases(t[i], button)
    <3>1. \A j \in 2 .. Len(s) : ~ Releases(s[j], button)
      BY <1>2, <2>1
    <3>2. CASE Presses(s[1], button)
      <4>1. 1 \in 1 .. Len(s) /\ \A j \in 1 + 1 .. Len(s) : ~ Releases(s[j], button)
        BY <1>1, <3>1
      <4> QED
        BY <3>2, <4>1 DEF Held
    <3>3. CASE button \in H /\ ~ Releases(s[1], button)
      <4>1. \A j \in 1 .. Len(s) : ~ Releases(s[j], button)
        BY <1>1, <3>1, <3>3
      <4> QED
        BY <3>3, <4>1 DEF Held
    <3> QED
      BY <1>1, <2>1, <3>2, <3>3
  <2>2. CASE \E i \in 1 .. Len(t) :
               /\ Presses(t[i], button)
               /\ \A j \in i + 1 .. Len(t) : ~ Releases(t[j], button)
    <3>1. PICK i \in 1 .. Len(t) :
            /\ Presses(t[i], button)
            /\ \A j \in i + 1 .. Len(t) : ~ Releases(t[j], button)
      BY <2>2
    <3>2. i + 1 \in 1 .. Len(s) /\ Presses(s[i + 1], button)
      BY <1>1, <3>1
    <3>3. ASSUME NEW j \in (i + 1) + 1 .. Len(s)
          PROVE  ~ Releases(s[j], button)
      <4>1. j \in 2 .. Len(s) /\ j - 1 \in i + 1 .. Len(t)
        BY <1>1
      <4> QED
        BY <1>2, <3>1, <4>1
    <3> QED
      BY <3>2, <3>3 DEF Held
  <2> QED
    BY <1>3, <2>1, <2>2 DEF Held
<1>4. ASSUME Held(H, button, s)
      PROVE  Held(K, button, t)
  <2>1. CASE button \in H /\ \A i \in 1 .. Len(s) : ~ Releases(s[i], button)
    <3>1. button \in K
      BY <1>1, <2>1
    <3>2. \A i \in 1 .. Len(t) : ~ Releases(t[i], button)
      BY <1>1, <2>1
    <3> QED
      BY <3>1, <3>2 DEF Held
  <2>2. CASE \E i \in 1 .. Len(s) :
               /\ Presses(s[i], button)
               /\ \A j \in i + 1 .. Len(s) : ~ Releases(s[j], button)
    <3>1. PICK i \in 1 .. Len(s) :
            /\ Presses(s[i], button)
            /\ \A j \in i + 1 .. Len(s) : ~ Releases(s[j], button)
      BY <2>2
    <3>2. \A j \in i .. Len(t) : ~ Releases(t[j], button)
      <4> SUFFICES ASSUME NEW j \in i .. Len(t)
                   PROVE  ~ Releases(t[j], button)
        OBVIOUS
      <4>1. j \in 1 .. Len(t) /\ j + 1 \in i + 1 .. Len(s)
        BY <1>1
      <4> QED
        BY <1>1, <3>1, <4>1
    <3>3. CASE i = 1
      <4>1. button \in K
        BY <1>1, <3>1, <3>3
      <4> QED
        BY <3>2, <3>3, <4>1 DEF Held
    <3>4. CASE i # 1
      <4>1. i - 1 \in 1 .. Len(t) /\ Presses(t[i - 1], button) /\ (i - 1) + 1 = i
        BY <1>2, <3>1, <3>4
      <4> QED
        BY <3>2, <4>1 DEF Held
    <3> QED
      BY <3>3, <3>4
  <2> QED
    BY <1>4, <2>1, <2>2 DEF Held
<1> QED
  BY <1>3, <1>4 DEF t

-----------------------------------------------------------------------------
(* The kinds of steps, for numbers and buttons.                             *)

LEMMA Untouched ==
  ASSUME NEW h \in Generation, Wire(h), link'[h] = link[h], up'[h] = up[h],
         socket'[h] = socket[h], h \in cut' <=> h \in cut, down'[h] = down[h] \/ h \notin cut,
         Current(h)' <=> Current(h),
         Current(h) => phone'.nextSequence = phone.nextSequence,
         socket[h] = "playing" => last' = last /\ held' = held
  PROVE  Wire(h)'
<1>1. Silent(h)'
  BY DEF Wire, Silent
<1>2. Waiting(h)'
  BY DEF Wire, Waiting
<1>3. Numbered(h)'
  BY DEF Wire, Numbered
<1> QED
  BY <1>1, <1>2, <1>3 DEF Wire

LEMMA SameSeat ==
  ASSUME Seat, UNCHANGED <<last, held>>,
         \A h \in Generation : socket'[h] = "playing" <=> socket[h] = "playing"
  PROVE  Seat'
  BY DEF Seat, Claimed

LEMMA ButtonsHeld ==
  ButtonsAgree <=>
    LET g == phone.connection
    IN Connected /\ g \notin cut /\ socket[g] = "playing" =>
         \A button \in Button : button \in phone.desiredButtons <=> Held(held, button, up[g])
  BY DEF ButtonsAgree, WillBeHeld, Held

LEMMA CurrentIs ==
  ASSUME PhoneAndLinks
  PROVE  /\ phone \in Phone /\ PhoneInv(phone)
         /\ phone.connection # 0 => phone.connection \in Generation
         /\ Connected => phone.connection \in Generation /\ Current(phone.connection)
<1>1. phone \in Phone /\ PhoneInv(phone)
  BY DEF PhoneAndLinks, TypeOK
<1> QED
  BY <1>1, Bounds DEF Phone, PhoneInv, Current, Connected

LEMMA SaysNothing ==
  ASSUME PhoneAndLinks, phone'.connection = phone.connection, Transmit(<<>>)
  PROVE  /\ cut' = cut
         /\ \A g \in Generation : link'[g] = link[g] /\ up'[g] = up[g] /\ down'[g] = down[g]
<1> SUFFICES ASSUME NEW g \in Generation
             PROVE  link'[g] = link[g] /\ up'[g] = up[g] /\ down'[g] = down[g]
  BY DEF Transmit
<1>1. g # 0 /\ up[g] \in Seq(UpMessage)
  BY Bounds DEF PhoneAndLinks, TypeOK
<1> DEFINE closes == phone.connection # 0 /\ phone'.connection = 0
           sent == <<>> \o (IF closes THEN <<Msg("close")>> ELSE <<>>)
<1>2. /\ up' = [h \in Generation |->
                 IF h = phone.connection THEN up[h] \o Carried(h, sent) ELSE up[h]]
      /\ down' = [h \in Generation |->
                   IF h = phone.connection /\ closes THEN <<>> ELSE down[h]]
  BY DEF Transmit
<1>3. ~ closes
  OBVIOUS
<1>4. sent = <<>>
  BY <1>3, Nothing, NothingOnTheWay
<1>5. \A h \in Generation : Carried(h, sent) = <<>>
  BY <1>4 DEF Carried
<1> HIDE DEF sent
<1>6. up'[g] = up[g]
  BY <1>1, <1>2, <1>5, Nothing
<1>7. down'[g] = down[g]
  BY <1>2, <1>3
<1>8. link'[g] = link[g]
  BY <1>1, LinkMoves
<1> QED
  BY <1>6, <1>7, <1>8

\* Nothing that the server hears of.
LEMMA StayingAgrees ==
  ASSUME PhoneAndLinks, Agreement, Staying, UNCHANGED <<socket, last, held, cut>>,
         \A g \in Generation : /\ link'[g] = link[g] /\ up'[g] = up[g]
                               /\ down'[g] = down[g] \/ g \notin cut
  PROVE  Agreement'
<1>1. \A h \in Generation : Current(h)' <=> Current(h)
  BY DEF Staying, Current, Connected
<1>2. \A h \in Generation : Wire(h)'
  BY <1>1, Untouched DEF Staying, Agreement
<1>3. Seat'
  BY SameSeat DEF Agreement
<1>4. ButtonsAgree'
  BY CurrentIs DEF Agreement, ButtonsAgree, WillBeHeld, Staying, Connected
<1> QED
  BY <1>2, <1>3, <1>4 DEF Agreement

\* A phone that is not connected changes its buttons.
LEMMA AloneAgrees ==
  ASSUME PhoneAndLinks, Agreement, ~ Connected, phone'.connection = phone.connection,
         phone'.status = phone.status, Transmit(<<>>), UNCHANGED server
  PROVE  Agreement'
<1>1. \A h \in Generation : ~ Current(h)' /\ ~ Current(h)
  BY DEF Current, Connected
<1>2. \A h \in Generation : Wire(h)'
  BY <1>1, SaysNothing, Untouched DEF Agreement, server
<1>3. Seat'
  BY SameSeat DEF Agreement, server
<1>4. ButtonsAgree'
  BY DEF ButtonsAgree, Connected
<1> QED
  BY <1>2, <1>3, <1>4 DEF Agreement

LEMMA OpeningAgrees ==
  ASSUME PhoneAndLinks, Agreement, Opening, Transmit(<<>>), UNCHANGED server
  PROVE  Agreement'
<1>1. \A h \in Generation : ~ Current(h)' /\ ~ Current(h) /\ h # 0
  BY Bounds DEF Current, Connected, Opening
<1>2. /\ up' = [g \in Generation |-> IF g = 0 THEN up[g] \o Carried(g, <<>> \o <<>>) ELSE up[g]]
      /\ down' = [g \in Generation |-> down[g]]
      /\ cut' = cut
  BY DEF Transmit, Opening
<1>3. \A h \in Generation : up'[h] = up[h] /\ down'[h] = down[h]
  BY <1>1, <1>2
<1>4. \A h \in Generation : link'[h] = IF h = phone'.connection THEN "connecting" ELSE link[h]
  BY <1>1, LinkMoves DEF Opening
<1>5. ASSUME NEW h \in Generation
      PROVE  Wire(h)'
  <2>0. Wire(h) /\ Linked(h)
    BY DEF Agreement, PhoneAndLinks, Links
  <2>1. CASE h # phone'.connection
    BY <1>1, <1>2, <1>3, <1>4, <2>0, <2>1, Untouched DEF server
  <2>2. CASE h = phone'.connection
    <3>1. link[h] = "none"
      BY <1>1, <2>0, <2>2 DEF Opening, Linked
    <3>2. socket[h] = "none" /\ h \notin cut /\ up[h] = <<>>
      BY <2>0, <3>1 DEF Wire, Silent
    <3>3. link'[h] = "connecting" /\ up'[h] = <<>> /\ socket'[h] = "none" /\ h \notin cut'
      BY <1>2, <1>3, <1>4, <2>2, <3>2 DEF server
    <3> QED
      BY <3>3, Nothing, NothingOnTheWay DEF Wire, Silent, Waiting, Numbered
  <2> QED
    BY <2>1, <2>2
<1>6. Seat'
  BY SameSeat DEF Agreement, server
<1>7. ButtonsAgree'
  BY DEF ButtonsAgree, Opening
<1> QED
  BY <1>5, <1>6, <1>7 DEF Agreement

\* A connected phone says a message with the next number.
LEMMA SayingAgrees ==
  ASSUME PhoneAndLinks, Agreement, Connected, Connected', NEW m \in UpMessage,
         m.type # "hello", m.type # "close", m.sequence = phone.nextSequence,
         phone'.connection = phone.connection,
         phone'.nextSequence = Successor(phone.nextSequence),
         phone'.desiredButtons = Apply(phone.desiredButtons, m),
         Transmit(<<m>>), UNCHANGED server
  PROVE  Agreement'
<1> DEFINE g == phone.connection
<1>0. /\ g \in Generation /\ g # 0 /\ Current(g) /\ phone \in Phone
      /\ up[g] \in Seq(UpMessage) /\ Wire(g) /\ Linked(g) /\ Welcomed(g)
      /\ <<m>> \in Seq(UpMessage)
  BY CurrentIs, Bounds DEF PhoneAndLinks, TypeOK, Agreement, Links
<1>1. /\ up' = [h \in Generation |->
                 IF h = g THEN up[h] \o Carried(h, <<m>> \o <<>>) ELSE up[h]]
      /\ down' = [h \in Generation |-> down[h]] /\ cut' = cut
  BY <1>0 DEF Transmit
<1>2. <<m>> \o <<>> = <<m>>
  BY <1>0, Nothing
<1>3. up'[g] = up[g] \o Carried(g, <<m>>)
  BY <1>0, <1>1, <1>2
<1>4. \A h \in Generation : link'[h] = link[h] /\ down'[h] = down[h]
  BY <1>0, <1>1, LinkMoves
<1>5. \A h \in Generation \ {g} : up'[h] = up[h] /\ ~ Current(h) /\ ~ Current(h)'
  BY <1>1 DEF Current
<1>6. Current(g)'
  BY DEF Current
<1>7. \A h \in Generation \ {g} : Wire(h)'
  BY <1>1, <1>4, <1>5, Untouched DEF Agreement, server
<1>8. CASE g \in cut \/ socket[g] = "ended"
  <2>1. up[g] = <<>> /\ up'[g] = <<>>
    BY <1>0, <1>3, <1>8, Nothing, NothingOnTheWay DEF Wire, Silent, Carried
  <2>2. /\ link'[g] = link[g] /\ down'[g] = down[g] /\ socket'[g] = socket[g]
        /\ (g \in cut' <=> g \in cut) /\ link[g] = "open"
    BY <1>0, <1>1, <1>4 DEF server, Linked
  <2>4. Silent(g)'
    BY <1>0, <2>1, <2>2, Nothing, NothingOnTheWay DEF Wire, Silent
  <2>5. Waiting(g)'
    BY <1>0, <1>6, <2>2 DEF Waiting, Welcomed
  <2>6. Numbered(g)'
    BY <1>8, <2>1, <2>2, Nothing DEF Numbered
  <2>3. ButtonsAgree'
    BY <1>1, <1>8 DEF ButtonsAgree, server
  <2> QED
    BY <1>7, <2>3, <2>4, <2>5, <2>6, SameSeat DEF Agreement, Wire, server
<1>9. CASE g \notin cut /\ socket[g] # "ended"
  <2>1. socket[g] = "playing"
    BY <1>0, <1>9 DEF Welcomed, PhoneAndLinks, TypeOK
  <2>2. up'[g] = up[g] \o <<m>> /\ link[g] = "open"
    BY <1>0, <1>3, <1>9, <2>1 DEF Carried, Linked
  <2>3. /\ Without("close", up[g]) /\ Numbers(up[g], last)
        /\ Follows(up[g], last, Len(up[g]) + 1, phone.nextSequence)
    BY <1>0, <1>9, <2>1, <2>2 DEF Wire, Silent, Numbered
  <2>4. /\ Without("close", up'[g]) /\ Numbers(up'[g], last)
        /\ Follows(up'[g], last, Len(up'[g]) + 1, phone'.nextSequence)
    BY <1>0, <2>2, <2>3, NumberAdded
  <2>5. ClosesLast(up'[g])
    BY <2>4 DEF Without, ClosesLast
  <2>8. /\ link'[g] = "open" /\ socket'[g] = "playing" /\ last' = last /\ g \notin cut'
    BY <1>0, <1>1, <1>4, <1>9, <2>1, <2>2 DEF server
  <2>6. Wire(g)'
    <3>1. Silent(g)'
      BY <2>4, <2>5, <2>8 DEF Silent
    <3>2. Waiting(g)'
      BY <1>6, <2>8 DEF Waiting
    <3>3. Numbered(g)'
      BY <2>4, <2>8 DEF Numbered
    <3> QED
      BY <3>1, <3>2, <3>3 DEF Wire
  <2>7. ButtonsAgree'
    <3>1. \A button \in Button : button \in phone.desiredButtons <=> Held(held, button, up[g])
      BY <1>9, <2>1, ButtonsHeld DEF Agreement
    <3>2. phone.desiredButtons \in SUBSET Button
      BY <1>0 DEF Phone
    <3>3. \A button \in Button :
            button \in phone'.desiredButtons <=> Held(held, button, up'[g])
      BY <1>0, <2>2, <3>1, <3>2, Applied, HeldAdded
    <3> QED
      BY <3>3 DEF ButtonsAgree, WillBeHeld, Held, server
  <2> QED
    BY <1>7, <2>6, <2>7, SameSeat DEF Agreement, server
<1> QED
  BY <1>8, <1>9

\* The phone gives up its connection; if it was connected it may say one message
\* before.
LEMMA ClosingAgrees ==
  ASSUME PhoneAndLinks, Agreement, Closing, NEW messages,
         \/ messages = <<>>
         \/ /\ Connected
            /\ \E m \in UpMessage : /\ m.type # "hello" /\ m.type # "close"
                                    /\ m.sequence = phone.nextSequence
                                    /\ messages = <<m>>,
         Transmit(messages), UNCHANGED server
  PROVE  Agreement'
<1> DEFINE end == <<Msg("close")>>
<1>5. PICK g : g = phone.connection
  OBVIOUS
<1>0. \A h \in Generation : ~ Current(h)' /\ h # 0
  BY Bounds DEF Current, Closing
<1>1. Seat'
  BY SameSeat DEF Agreement, server
<1>2. ButtonsAgree'
  BY DEF ButtonsAgree, Closing
<1>3. CASE g = 0
  <2>1. messages = <<>>
    BY <1>3, <1>5, CurrentIs, Bounds
  <2>2. /\ cut' = cut
        /\ \A h \in Generation : link'[h] = link[h] /\ up'[h] = up[h] /\ down'[h] = down[h]
    BY <1>3, <1>5, <2>1, SaysNothing DEF Closing
  <2>3. \A h \in Generation : ~ Current(h)
    BY <1>0, <1>3, <1>5 DEF Current
  <2>4. \A h \in Generation : Wire(h)'
    BY <1>0, <2>2, <2>3, Untouched DEF Agreement, server
  <2> QED
    BY <1>1, <1>2, <2>4 DEF Agreement
<1>4. CASE g # 0
  <2>0. /\ g \in Generation /\ up[g] \in Seq(UpMessage) /\ Wire(g) /\ Linked(g) /\ Welcomed(g)
        /\ link[g] \in {"connecting", "open"}
    BY <1>4, <1>5, CurrentIs DEF PhoneAndLinks, TypeOK, Agreement, Links, Linked
  <2>1. /\ up' = [h \in Generation |->
                   IF h = g THEN up[h] \o Carried(h, messages \o end) ELSE up[h]]
        /\ down' = [h \in Generation |-> IF h = g THEN <<>> ELSE down[h]] /\ cut' = cut
    BY <1>4, <1>5 DEF Transmit, Closing
  <2>2. up'[g] = up[g] \o Carried(g, messages \o end) /\ down'[g] = <<>>
    BY <2>0, <2>1
  <2>3. \A h \in Generation : link'[h] = IF h = g THEN "closing" ELSE link[h]
    BY <1>0, <1>5, <2>0, LinkMoves DEF Closing
  <2>4. \A h \in Generation \ {g} :
          up'[h] = up[h] /\ down'[h] = down[h] /\ ~ Current(h) /\ link'[h] = link[h]
    BY <1>5, <2>1, <2>3 DEF Current
  <2>5. \A h \in Generation \ {g} : Wire(h)'
    BY <1>0, <2>1, <2>4, Untouched DEF Agreement, server
  <2>6. /\ link'[g] = "closing" /\ socket'[g] = socket[g] /\ last' = last
        /\ (g \in cut' <=> g \in cut)
    BY <2>0, <2>1, <2>3 DEF server
  <2>7. CASE g \in cut \/ socket[g] \in {"none", "ended"}
    <3>1. up'[g] = <<>>
      BY <2>0, <2>2, <2>7, Nothing, NothingOnTheWay DEF Wire, Silent, Carried
    <3>2. Silent(g)'
      BY <2>2, <2>6, <3>1, Nothing DEF Silent
    <3>3. Waiting(g)'
      BY <2>6, <3>1, NothingOnTheWay DEF Waiting
    <3>4. Numbered(g)'
      BY <1>0, <2>0, <3>1, Nothing DEF Numbered
    <3> QED
      BY <1>1, <1>2, <2>5, <3>2, <3>3, <3>4 DEF Agreement, Wire
  <2>8. CASE g \notin cut /\ socket[g] \in {"hello", "playing"}
    <3>1. up'[g] = up[g] \o (messages \o end)
      BY <2>2, <2>8 DEF Carried
    <3>2. Without("close", up[g])
      BY <2>0 DEF Wire, Silent
    <3>3. end \in Seq(UpMessage) /\ Msg("close") \in UpMessage /\ Msg("close").type = "close"
      BY MessageTypes
    <3>4. CASE messages = <<>>
      <4>1. up'[g] = up[g] \o end
        BY <3>1, <3>3, <3>4, Nothing
      <4>2. /\ ClosesLast(up'[g])
            /\ Numbers(up[g], last) => Numbers(up'[g], last)
        BY <2>0, <3>2, <4>1, CloseAdded
      <4>3. /\ Len(up[g]) \in Nat /\ up'[g][Len(up[g]) + 1] = Msg("close")
            /\ \A i \in 1 .. Len(up[g]) : up'[g][i] = up[g][i]
            /\ \A i \in 1 .. Len(up'[g]) : i \in 1 .. Len(up[g]) \/ i = Len(up[g]) + 1
        BY <2>0, <3>3, <4>1, AddedOne
      <4>4. Waiting(g)'
        BY <2>0, <2>6, <3>3, <4>3 DEF Wire, Waiting
      <4>5. Silent(g)'
        BY <2>6, <2>8, <4>2 DEF Silent
      <4>6. Numbered(g)'
        BY <1>0, <2>0, <2>6, <4>2 DEF Wire, Numbered
      <4> QED
        BY <1>1, <1>2, <2>5, <4>4, <4>5, <4>6 DEF Agreement, Wire
    <3>5. CASE messages # <<>>
      <4>1. PICK m \in UpMessage : /\ m.type # "hello" /\ m.type # "close"
                                   /\ m.sequence = phone.nextSequence /\ messages = <<m>>
        BY <3>5
      <4>2. Connected /\ Current(g) /\ socket[g] = "playing" /\ <<m>> \in Seq(UpMessage)
        BY <1>5, <2>0, <2>8, <3>5, CurrentIs DEF Welcomed
      <4> DEFINE s == up[g] \o <<m>>
      <4>3. /\ s \in Seq(UpMessage) /\ up'[g] = s \o end
        BY <2>0, <3>1, <3>3, <4>1, <4>2, Joined, ConcatAssociative
      <4>4. /\ Numbers(up[g], last)
            /\ Follows(up[g], last, Len(up[g]) + 1, phone.nextSequence)
        BY <2>0, <2>8, <4>2 DEF Wire, Numbered
      <4>5. Without("close", s) /\ Numbers(s, last)
        BY <2>0, <3>2, <4>1, <4>4, NumberAdded
      <4> HIDE DEF s
      <4>6. ClosesLast(up'[g]) /\ Numbers(up'[g], last)
        BY <4>3, <4>5, CloseAdded
      <4>7. Silent(g)'
        BY <2>6, <2>8, <4>6 DEF Silent
      <4>8. Waiting(g)'
        BY <2>6, <4>2 DEF Waiting
      <4>9. Numbered(g)'
        BY <1>0, <2>0, <2>6, <4>6 DEF Numbered
      <4> QED
        BY <1>1, <1>2, <2>5, <4>7, <4>8, <4>9 DEF Agreement, Wire
    <3> QED
      BY <3>4, <3>5
  <2> QED
    BY <2>0, <2>7, <2>8 DEF PhoneAndLinks, TypeOK
<1> QED
  BY <1>3, <1>4

\* A connection is over.
LEMMA OverAgrees ==
  ASSUME PhoneAndLinks, Agreement, NEW g \in Generation, link[g] # "none", Finish(g),
         UNCHANGED server,
         \/ g = phone.generation /\ Closing
         \/ g # phone.generation /\ phone' = phone
  PROVE  Agreement'
<1>0. phone.connection \in {0, phone.generation}
  BY DEF PhoneAndLinks, PhoneInv
<1>1. /\ \A h \in Generation \ {g} : link'[h] = link[h] /\ down'[h] = down[h]
      /\ link'[g] = "closed" /\ down'[g] = <<>> /\ up' = up /\ cut' = cut
  BY DEF Finish, PhoneAndLinks, TypeOK
<1>2. \A h \in Generation \ {g} :
        /\ Current(h)' <=> Current(h)
        /\ Current(h) => phone'.nextSequence = phone.nextSequence
  BY <1>0, Bounds DEF Current, Connected, Closing
<1>3. ~ Current(g)'
  BY <1>0, Bounds DEF Current, Connected, Closing
<1>4. \A h \in Generation \ {g} : Wire(h)'
  BY <1>1, <1>2, Untouched DEF Agreement, server
<1>5. Wire(g)'
  BY <1>1, <1>3 DEF Agreement, Wire, Silent, Waiting, Numbered, server
<1>6. ButtonsAgree'
  <2>1. CASE Closing
    BY <2>1 DEF Closing, ButtonsAgree
  <2>2. CASE phone' = phone
    BY <1>1, <2>2 DEF Agreement, ButtonsAgree, WillBeHeld, Connected, server
  <2> QED
    BY <2>1, <2>2
<1>7. Seat'
  BY SameSeat DEF Agreement, server
<1> QED
  BY <1>4, <1>5, <1>6, <1>7 DEF Agreement

LEMMA OpenAgrees ==
  ASSUME PhoneAndLinks, Agreement, NEW g \in Generation, HandleOpen(g)
  PROVE  Agreement'
<1> DEFINE messages == IF g = phone.generation THEN <<Msg("hello")>> ELSE <<>>
           said == Carried(g, messages)
<1>0. /\ link[g] = "connecting" /\ down[g] # <<>> /\ Wire(g) /\ Greeted(g)
      /\ up[g] = <<>> /\ g \notin cut /\ link' = [link EXCEPT ![g] = "open"]
      /\ UNCHANGED <<phone, deadlines, server, cut>> /\ Consume(g, messages)
  BY DEF HandleOpen, Hears, Consume, Agreement, Wire, Silent, PhoneAndLinks, Links
<1>1. said = <<>> \/ said = <<Msg("hello")>>
  BY DEF Carried
<1>2. said \in Seq(UpMessage) /\ (socket[g] \in {"none", "ended"} => said = <<>>)
  BY <1>1, MessageTypes, NothingOnTheWay DEF Carried
<1>3. up'[g] = said /\ \A h \in Generation \ {g} : up'[h] = up[h] /\ down'[h] = down[h]
  <2>1. up'[g] = up[g] \o said
    BY <1>0 DEF Consume, PhoneAndLinks, TypeOK
  <2>2. \A h \in Generation \ {g} : up'[h] = up[h] /\ down'[h] = down[h]
    BY <1>0 DEF Consume, PhoneAndLinks, TypeOK
  <2> HIDE DEF said
  <2> QED
    BY <1>0, <1>2, <2>1, <2>2, Nothing
<1>4. \A h \in Generation : link'[h] = IF h = g THEN "open" ELSE link[h]
  BY <1>0 DEF PhoneAndLinks, TypeOK
<1>5. socket[g] # "playing"
  BY <1>0 DEF Greeted
<1>6. \A i \in 1 .. Len(said) : said[i].type = "hello" /\ i = 1
  BY <1>1 DEF Msg
<1> HIDE DEF said, messages
<1>7. Wire(g)'
  <2>1. Silent(g)'
    BY <1>0, <1>2, <1>3, <1>4, <1>6 DEF Silent, ClosesLast, Without, server
  <2>2. Waiting(g)' /\ Numbered(g)'
    BY <1>0, <1>3, <1>5, <1>6 DEF Waiting, Numbered, server
  <2> QED
    BY <2>1, <2>2 DEF Wire
<1>8. \A h \in Generation : Current(h)' <=> Current(h)
  BY <1>0 DEF Current, Connected
<1>9. \A h \in Generation \ {g} : Wire(h)'
  BY <1>0, <1>3, <1>4, <1>8, Untouched DEF Agreement, server
<1>10. Seat'
  BY <1>0, SameSeat DEF Agreement, server
<1>11. ButtonsAgree'
  <2>1. Connected => phone.connection \in Generation /\ Current(phone.connection)
    BY CurrentIs
  <2>2. Connected => phone.connection # g
    BY <1>0, <2>1 DEF PhoneAndLinks, Links, Linked, Greeted
  <2> QED
    BY <1>0, <1>3, <2>1, <2>2 DEF Agreement, ButtonsAgree, WillBeHeld, Connected, server
<1> QED
  BY <1>7, <1>9, <1>10, <1>11 DEF Agreement

\* The phone is connected and tells its buttons.
LEMMA WelcomeAgrees ==
  ASSUME PhoneAndLinks, Agreement, NEW g \in Generation, HandleWelcome(g)
  PROVE  Agreement'
<1> DEFINE m == StateSync(phone.desiredButtons, phone.nextSequence)
<1>0. /\ link[g] = "open" /\ down[g] # <<>> /\ Head(down[g]).type = "welcome"
      /\ UNCHANGED <<deadlines, link, server, cut>> /\ Consume(g, <<m>>) /\ phone \in Phone
      /\ Linked(g) /\ Welcomed(g) /\ down[g] \in Seq(DownMessage) /\ Wire(g)
  BY DEF HandleWelcome, Hears, Consume, PhoneAndLinks, TypeOK, Links, Agreement
<1>1. phone.connection = g /\ phone.generation = g /\ g # 0
  BY <1>0, Open
<1>2. ~ Current(g) /\ socket[g] \in {"playing", "ended"} /\ g \notin cut
  <2>1. ~ Without("welcome", down[g])
    BY <1>0, RestOf DEF Without
  <2> QED
    BY <1>0, <2>1 DEF Welcomed, PhoneAndLinks, TypeOK, Wire, Silent
<1>3. /\ m \in UpMessage /\ m.type = "state-sync" /\ m.sequence = phone.nextSequence
      /\ m.buttons = phone.desiredButtons
  BY <1>0, MessageTypes DEF Phone, StateSync
<1>4. /\ phone'.connection = g /\ phone'.status = "connected"
      /\ phone'.nextSequence = Successor(phone.nextSequence)
      /\ phone'.desiredButtons = phone.desiredButtons
  <2> DEFINE w == [phone EXCEPT !.retryIndex = 0, !.status = "connected",
                                !.recoveryPending = FALSE]
             t == TakeSequence(w)
  <2>1. /\ t.connection = g /\ t.status = "connected"
        /\ t.nextSequence = Successor(phone.nextSequence)
        /\ t.desiredButtons = phone.desiredButtons /\ DOMAIN t = DOMAIN phone
    BY <1>0, <1>1 DEF TakeSequence, Phone
  <2>2. phone' = ScheduleNextPing(t)
    BY DEF HandleWelcome
  <2>3. t \in Phone
    <3>1. 0 \in 0 .. Retries /\ Successor(phone.nextSequence) \in Sequence
      BY <1>0, Bounds DEF Phone
    <3> QED
      BY <1>0, <3>1 DEF Phone, TakeSequence, Status
  <2> HIDE DEF t
  <2> QED
    BY <2>1, <2>2, <2>3 DEF ScheduleNextPing, Phone
<1> HIDE DEF m
<1>5. Current(g)' /\ Connected'
  BY <1>4 DEF Current, Connected
<1>6. \A h \in Generation \ {g} : /\ ~ Current(h) /\ ~ Current(h)'
                                  /\ up'[h] = up[h] /\ down'[h] = down[h]
  BY <1>0, <1>1, <1>4 DEF Current, Consume, PhoneAndLinks, TypeOK
<1>7. \A h \in Generation \ {g} : Wire(h)'
  BY <1>0, <1>6, Untouched DEF Agreement, server
<1>8. up'[g] = up[g] \o Carried(g, <<m>>) /\ up[g] = <<>> /\ <<m>> \in Seq(UpMessage)
  BY <1>0, <1>2, <1>3 DEF Consume, PhoneAndLinks, TypeOK, Wire, Silent, Waiting
<1>9. Seat'
  BY <1>0, SameSeat DEF Agreement, server
<1>10. CASE socket[g] = "ended"
  <2>1. up'[g] = <<>>
    BY <1>8, <1>10, Nothing, NothingOnTheWay DEF Carried
  <2>2. Wire(g)'
    BY <1>0, <1>2, <1>10, <2>1, Nothing, NothingOnTheWay
    DEF Wire, Silent, Waiting, Numbered, server
  <2>3. ButtonsAgree'
    BY <1>0, <1>4, <1>10 DEF ButtonsAgree, server
  <2> QED
    BY <1>7, <1>9, <2>2, <2>3 DEF Agreement
<1>11. CASE socket[g] = "playing"
  <2>1. up'[g] = up[g] \o <<m>>
    BY <1>2, <1>8, <1>11 DEF Carried
  <2>2. last = None /\ held = {} /\ last' = last /\ held' = held
    BY <1>0, <1>2, <1>11 DEF Wire, Waiting, server
  <2>3. /\ Numbers(up[g], last) /\ Without("close", up[g]) /\ Len(up[g]) = 0
        /\ Follows(up[g], last, Len(up[g]) + 1, phone.nextSequence)
    BY <1>8, <2>2, Nothing, NothingOnTheWay DEF Follows
  <2>4. /\ Without("close", up'[g]) /\ Numbers(up'[g], last)
        /\ Follows(up'[g], last, Len(up'[g]) + 1, phone'.nextSequence)
    BY <1>3, <1>4, <1>8, <2>1, <2>3, NothingOnTheWay, NumberAdded
  <2>5. ClosesLast(up'[g])
    BY <2>4 DEF Without, ClosesLast
  <2>6. /\ link'[g] = "open" /\ socket'[g] = "playing" /\ g \notin cut'
    BY <1>0, <1>2, <1>11 DEF server
  <2>7. Silent(g)'
    BY <2>4, <2>5, <2>6 DEF Silent
  <2>8. Waiting(g)' /\ Numbered(g)'
    BY <1>5, <2>2, <2>4, <2>6 DEF Waiting, Numbered
  <2>9. ButtonsAgree'
    <3>1. Apply({}, m) = phone.desiredButtons
      BY <1>3 DEF Apply
    <3>2. \A button \in Button : ~ Held({}, button, <<>>)
      BY DEF Held
    <3>6. \A button \in Button : ~ (Presses(m, button) /\ Releases(m, button))
      BY <1>3, Applied
    <3>7. up[g] \in Seq(UpMessage)
      BY DEF PhoneAndLinks, TypeOK
    <3>3. \A button \in Button : Held({}, button, up'[g]) <=> Presses(m, button)
      <4>1. \A button \in Button :
              Held({}, button, up[g] \o <<m>>)
                <=> Presses(m, button) \/ (Held({}, button, up[g]) /\ ~ Releases(m, button))
        BY <1>3, <3>6, <3>7, HeldAdded
      <4>2. \A button \in Button : ~ Held({}, button, up[g])
        BY <1>8, <3>2
      <4> QED
        BY <2>1, <4>1, <4>2
    <3>4. \A button \in Button : button \in phone'.desiredButtons <=> Held({}, button, up'[g])
      BY <1>4, <3>1, <3>3 DEF Presses
    <3>5. \A button \in Button : button \in phone'.desiredButtons <=> Held(held', button, up'[g])
      BY <2>2, <3>4
    <3> QED
      BY <1>4, <3>5 DEF ButtonsAgree, WillBeHeld, Held
  <2> QED
    BY <1>7, <1>9, <2>7, <2>8, <2>9 DEF Agreement, Wire
<1> QED
  BY <1>2, <1>10, <1>11

-----------------------------------------------------------------------------
(* What the user, the timers and the socket events do to the agreement.     *)

\* A phone that changes its buttons says so if it is connected.
LEMMA Said ==
  ASSUME PhoneAndLinks, Agreement, NEW p, NEW m \in UpMessage,
         m.type # "hello", m.type # "close", m.sequence = phone.nextSequence,
         p.connection = phone.connection, p.status = phone.status,
         p.nextSequence = phone.nextSequence, p \in Phone,
         p.desiredButtons = Apply(phone.desiredButtons, m),
         phone' = IF Connected THEN TakeSequence(p) ELSE p,
         Transmit(IF Connected THEN <<m>> ELSE <<>>), UNCHANGED server
  PROVE  Agreement'
<1>1. CASE Connected
  <2>1. phone' = TakeSequence(p) /\ Transmit(<<m>>)
    BY <1>1
  <2>2. /\ phone'.connection = phone.connection /\ phone'.status = phone.status
        /\ phone'.nextSequence = Successor(phone.nextSequence)
        /\ phone'.desiredButtons = Apply(phone.desiredButtons, m)
    BY <2>1 DEF TakeSequence, Phone
  <2>3. Connected'
    BY <1>1, <2>2 DEF Connected
  <2> QED
    BY <1>1, <2>1, <2>2, <2>3, SayingAgrees
<1>2. CASE ~ Connected
  BY <1>2, AloneAgrees
<1> QED
  BY <1>1, <1>2

LEMMA UserAgrees ==
  ASSUME PhoneAndLinks, Agreement, User
  PROVE  Agreement'
<1>0. phone \in Phone /\ phone.nextSequence \in Sequence
  BY DEF PhoneAndLinks, TypeOK, Phone
<1>1. CASE Connect
  BY <1>1, ConnectKeeps, OpeningAgrees DEF Connect
<1>2. CASE Hide
  BY <1>2, HideKeeps, StayingAgrees DEF Hide, network, server
<1>3. CASE Show
  <2>1. Transmit(<<>>) /\ UNCHANGED server /\ (Opening \/ Staying)
    BY <1>3, ShowKeeps DEF Show
  <2>2. CASE Opening
    BY <2>1, <2>2, OpeningAgrees
  <2>3. CASE Staying
    BY <2>1, <2>3, SaysNothing, StayingAgrees DEF Staying, server
  <2> QED
    BY <2>1, <2>2, <2>3
<1>4. CASE Disconnect
  <2> DEFINE m == StateSync({}, phone.nextSequence)
             messages == IF Connected THEN <<m>> ELSE <<>>
  <2>1. /\ m \in UpMessage /\ m.type # "hello" /\ m.type # "close"
        /\ m.sequence = phone.nextSequence
    BY <1>0, MessageTypes DEF StateSync
  <2>2. Transmit(messages) /\ UNCHANGED server /\ Closing
    BY <1>4, DisconnectKeeps DEF Disconnect
  <2> HIDE DEF m
  <2>3. messages = <<>> \/ (Connected /\ messages = <<m>>)
    OBVIOUS
  <2> HIDE DEF messages
  <2> QED
    BY <2>1, <2>2, <2>3, ClosingAgrees
<1>5. ASSUME NEW button \in Button, SetButton(button)
      PROVE  Agreement'
  <2> DEFINE pressed == button \notin phone.desiredButtons
             buttons == IF pressed THEN phone.desiredButtons \union {button}
                        ELSE phone.desiredButtons \ {button}
             type == IF pressed THEN "button-down" ELSE "button-up"
             m == Delta(type, button, phone.nextSequence)
             p == [phone EXCEPT !.desiredButtons = buttons]
  <2>1. type \in {"button-down", "button-up"} /\ type # "hello" /\ type # "close"
    OBVIOUS
  <2>2. buttons = Apply(phone.desiredButtons, m)
    BY DEF Apply, Delta
  <2>3. /\ phone' = (IF Connected THEN TakeSequence(p) ELSE p)
        /\ Transmit(IF Connected THEN <<m>> ELSE <<>>) /\ UNCHANGED server
    BY <1>5 DEF SetButton
  <2>4. /\ p.connection = phone.connection /\ p.status = phone.status
        /\ p.desiredButtons = buttons /\ p.nextSequence = phone.nextSequence
        /\ p \in Phone
    <3>1. buttons \in SUBSET Button
      BY <1>0 DEF Phone
    <3> HIDE DEF buttons
    <3> QED
      BY <1>0, <3>1 DEF Phone
  <2> HIDE DEF type, buttons
  <2>5. /\ m \in UpMessage /\ m.type # "hello" /\ m.type # "close"
        /\ m.sequence = phone.nextSequence
    BY <1>0, <2>1, MessageTypes DEF Delta
  <2> HIDE DEF m, p
  <2> QED
    BY <2>2, <2>3, <2>4, <2>5, Said
<1>6. CASE ReleaseAll
  <2> DEFINE m == StateSync({}, phone.nextSequence)
             p == [phone EXCEPT !.desiredButtons = {}]
  <2>1. {} = Apply(phone.desiredButtons, m)
    BY DEF Apply, StateSync
  <2>2. /\ phone' = (IF Connected THEN TakeSequence(p) ELSE p)
        /\ Transmit(IF Connected THEN <<m>> ELSE <<>>) /\ UNCHANGED server
    BY <1>6 DEF ReleaseAll
  <2>3. /\ p.connection = phone.connection /\ p.status = phone.status
        /\ p.desiredButtons = {} /\ p.nextSequence = phone.nextSequence
        /\ p \in Phone
    BY <1>0 DEF Phone
  <2>4. /\ m \in UpMessage /\ m.type # "hello" /\ m.type # "close"
        /\ m.sequence = phone.nextSequence
    BY <1>0, MessageTypes DEF StateSync
  <2> HIDE DEF m, p
  <2> QED
    BY <2>1, <2>2, <2>3, <2>4, Said
<1> QED
  BY <1>1, <1>2, <1>3, <1>4, <1>5, <1>6 DEF User

LEMMA TimerAgrees ==
  ASSUME PhoneAndLinks, Agreement, Timer
  PROVE  Agreement'
<1>1. CASE RetryFires
  BY <1>1, RetryKeeps, OpeningAgrees DEF RetryFires
<1>2. CASE PingFires
  <2> DEFINE m == Ping(phone.nextSequence)
             p == [phone EXCEPT !.nextPingTimer = FALSE]
             q == [TakeSequence(p) EXCEPT !.awaitedPong = phone.nextSequence,
                                          !.pongDeadlineTimer = phone.nextSequence]
  <2>0. phone \in Phone /\ phone.nextSequence \in Sequence /\ Connected
    BY <1>2 DEF PhoneAndLinks, TypeOK, Phone, PingFires, PhoneInv, Connected
  <2>1. phone' = q /\ Transmit(<<m>>) /\ UNCHANGED server
    BY <1>2, <2>0 DEF PingFires
  <2>2. /\ q.connection = phone.connection /\ q.status = phone.status
        /\ q.nextSequence = Successor(phone.nextSequence)
        /\ q.desiredButtons = phone.desiredButtons
    BY <2>0 DEF Phone, TakeSequence
  <2>3. /\ m \in UpMessage /\ m.type # "hello" /\ m.type # "close"
        /\ m.sequence = phone.nextSequence
    BY <2>0, MessageTypes DEF Ping
  <2>4. Apply(phone.desiredButtons, m) = phone.desiredButtons
    BY DEF Apply, Ping
  <2> HIDE DEF m, q
  <2>5. Connected'
    BY <2>0, <2>1, <2>2 DEF Connected
  <2> QED
    BY <2>0, <2>1, <2>2, <2>3, <2>4, <2>5, SayingAgrees
<1>3. ASSUME NEW n \in Sequence, DeadlineFires(n)
      PROVE  Agreement'
  BY <1>3, DeadlineKeeps, ClosingAgrees DEF DeadlineFires
<1> QED
  BY <1>1, <1>2, <1>3 DEF Timer

LEMMA EventAgrees ==
  ASSUME PhoneAndLinks, Agreement, NEW g \in Generation, Event(g)
  PROVE  Agreement'
<1>1. CASE HandleOpen(g)
  BY <1>1, OpenAgrees
<1>2. CASE HandleWelcome(g)
  BY <1>2, WelcomeAgrees
<1>3. CASE HandleRejected(g)
  BY <1>3, RejectedKeeps, ClosingAgrees DEF HandleRejected
<1>4. CASE HandlePong(g)
  <2>1. /\ Consume(g, <<>>) /\ UNCHANGED <<link, server>> /\ Staying
        /\ down[g] # <<>> /\ Silent(g)
    BY <1>4, PongKeeps DEF HandlePong, Hears, Agreement, Wire
  <2>2. g \notin cut
    BY <2>1 DEF Silent
  <2>3. \A h \in Generation : /\ up'[h] = up[h]
                              /\ down'[h] = down[h] \/ h \notin cut
    <3>1. Carried(g, <<>>) = <<>>
      BY DEF Carried
    <3>2. up'[g] = up[g] \o <<>> /\ up[g] \in Seq(UpMessage)
      BY <2>1, <3>1 DEF Consume, PhoneAndLinks, TypeOK
    <3>3. \A h \in Generation \ {g} : up'[h] = up[h] /\ down'[h] = down[h]
      BY <2>1 DEF Consume, PhoneAndLinks, TypeOK
    <3> QED
      BY <2>2, <3>2, <3>3, Nothing
  <2> QED
    BY <2>1, <2>3, StayingAgrees DEF Consume, server
<1>5. CASE HandleControllerDisconnected(g)
  BY <1>5, ControllerDisconnectedKeeps, ClosingAgrees DEF HandleControllerDisconnected
<1>6. CASE HandleClose(g)
  <2>1. /\ Finish(g) /\ UNCHANGED server /\ link[g] # "none"
        /\ g # phone.generation => phone' = phone
        /\ g = phone.generation => Closing
    BY <1>6, CloseKeeps DEF HandleClose, Hears
  <2> QED
    BY <2>1, OverAgrees
<1>7. CASE HandleTransportFailure(g)
  <2>1. /\ Finish(g) /\ UNCHANGED server /\ link[g] \in {"connecting", "open"}
        /\ Closing
    BY <1>7, TransportFailureKeeps DEF HandleTransportFailure
  <2>2. g = phone.generation
    BY <2>1, Open
  <2> QED
    BY <2>1, <2>2, OverAgrees
<1> QED
  BY <1>1, <1>2, <1>3, <1>4, <1>5, <1>6, <1>7 DEF Event

-----------------------------------------------------------------------------
(* What the network and the server do to the agreement.                     *)

\* The connections that the server does not serve in this step.
LEMMA OthersAgree ==
  ASSUME Agreement, NEW g \in Generation, UNCHANGED <<phone, link, cut>>,
         \A h \in Generation \ {g} :
           up'[h] = up[h] /\ down'[h] = down[h] /\ socket'[h] = socket[h],
         socket[g] = "playing" \/ UNCHANGED <<last, held>>
  PROVE  \A h \in Generation \ {g} : Wire(h)'
<1> SUFFICES ASSUME NEW h \in Generation \ {g}
             PROVE  Wire(h)'
  OBVIOUS
<1>1. Current(h)' <=> Current(h)
  BY DEF Current, Connected
<1>2. socket[h] = "playing" => last' = last /\ held' = held
  BY DEF Agreement, Seat
<1> QED
  BY <1>1, <1>2, Untouched DEF Agreement

LEMMA AnswerTo ==
  ASSUME PhoneAndLinks, NEW g \in Generation, NEW messages, Answer(g, messages)
  PROVE  /\ \A h \in Generation \ {g} : down'[h] = down[h]
         /\ g \in cut => down'[g] = <<>>
  BY DEF Answer, PhoneAndLinks, TypeOK

LEMMA EndAgrees ==
  ASSUME PhoneAndLinks, Agreement, NEW g \in Generation, EndSocket(g),
         UNCHANGED <<phone, link, cut>>, socket[g] # "none",
         \A h \in Generation \ {g} : down'[h] = down[h], g \in cut => down'[g] = <<>>,
         \/ socket[g] # "playing" /\ UNCHANGED <<last, held>>
         \/ socket[g] = "playing" /\ last' = None /\ held' = {}
  PROVE  Agreement'
<1>1. /\ up'[g] = <<>> /\ socket'[g] = "ended"
      /\ \A h \in Generation \ {g} : up'[h] = up[h] /\ socket'[h] = socket[h]
  BY DEF EndSocket, PhoneAndLinks, TypeOK
<1>2. \A h \in Generation \ {g} : Wire(h)'
  BY <1>1, OthersAgree
<1>3. Wire(g)'
  <2>1. Silent(g)'
    BY <1>1, Nothing, NothingOnTheWay DEF Agreement, Wire, Silent
  <2>2. Waiting(g)' /\ Numbered(g)'
    BY <1>1 DEF Waiting, Numbered
  <2> QED
    BY <2>1, <2>2 DEF Wire
<1>4. Seat'
  BY <1>1 DEF Agreement, Seat, Claimed
<1>5. ButtonsAgree'
  <2>1. Connected => phone.connection \in Generation
    BY CurrentIs
  <2>2. \A h \in Generation \ {g} : socket[h] = "playing" => held' = held
    BY DEF Agreement, Seat
  <2> QED
    BY <1>1, <2>1, <2>2 DEF Agreement, ButtonsAgree, WillBeHeld, Connected
<1> QED
  BY <1>2, <1>3, <1>4, <1>5 DEF Agreement

LEMMA CutAgrees ==
  ASSUME PhoneAndLinks, Agreement, NEW g \in Generation, Cut(g)
  PROVE  Agreement'
<1>1. /\ up'[g] = <<>> /\ down'[g] = <<>> /\ g \in cut' /\ link[g] # "none"
      /\ UNCHANGED <<phone, link, serverUp, socket, last, held>>
      /\ \A h \in Generation \ {g} :
           up'[h] = up[h] /\ down'[h] = down[h] /\ (h \in cut' <=> h \in cut)
  BY DEF Cut, server, PhoneAndLinks, TypeOK
<1>2. \A h \in Generation : Current(h)' <=> Current(h)
  BY <1>1 DEF Current, Connected
<1>3. \A h \in Generation \ {g} : Wire(h)'
  BY <1>1, <1>2, Untouched DEF Agreement
<1>4. Silent(g)'
  BY <1>1, Nothing, NothingOnTheWay DEF Silent
<1>5. Waiting(g)'
  BY <1>1, <1>2, NothingOnTheWay DEF Agreement, Wire, Waiting
<1>6. Numbered(g)'
  BY <1>1, Nothing DEF Numbered
<1>7. Seat'
  BY <1>1, SameSeat DEF Agreement
<1>8. ButtonsAgree'
  <2>1. Connected => phone.connection \in Generation
    BY CurrentIs
  <2> QED
    BY <1>1, <2>1 DEF Agreement, ButtonsAgree, WillBeHeld, Connected
<1> QED
  BY <1>3, <1>4, <1>5, <1>6, <1>7, <1>8 DEF Agreement, Wire

LEMMA AcceptAgrees ==
  ASSUME PhoneAndLinks, Agreement, NEW g \in Generation, AcceptSocket(g)
  PROVE  Agreement'
<1>1. /\ socket[g] = "none" /\ socket'[g] = "hello" /\ link[g] = "connecting" /\ g \notin cut
      /\ UNCHANGED <<phone, link, up, cut, last, held>> /\ Answer(g, <<Msg("open")>>)
      /\ \A h \in Generation \ {g} : socket'[h] = socket[h]
  BY DEF AcceptSocket, PhoneAndLinks, TypeOK
<1>2. \A h \in Generation \ {g} : Wire(h)'
  BY <1>1, AnswerTo, OthersAgree
<1>3. up'[g] = <<>>
  BY <1>1 DEF Agreement, Wire, Silent
<1>4. Silent(g)'
  BY <1>1, <1>3, Nothing, NothingOnTheWay DEF Silent
<1>5. Waiting(g)' /\ Numbered(g)'
  BY <1>1, <1>3, NothingOnTheWay DEF Waiting, Numbered
<1>6. Seat'
  BY <1>1, SameSeat DEF Agreement
<1>7. ButtonsAgree'
  <2>1. Connected => phone.connection \in Generation
    BY CurrentIs
  <2> QED
    BY <1>1, <2>1 DEF Agreement, ButtonsAgree, WillBeHeld, Connected
<1> QED
  BY <1>2, <1>4, <1>5, <1>6, <1>7 DEF Agreement, Wire

LEMMA HelloAgrees ==
  ASSUME PhoneAndLinks, Agreement, NEW g \in Generation, HearHello(g)
  PROVE  Agreement'
<1>0. /\ socket[g] = "hello" /\ up[g] # <<>> /\ up[g] \in Seq(UpMessage)
      /\ UNCHANGED <<phone, link, cut, last, held>> /\ Wire(g) /\ Welcomed(g)
  BY DEF HearHello, PhoneAndLinks, TypeOK, Links, Agreement
<1>1. CASE serverUp /\ ~ Claimed
  <2>1. /\ socket'[g] = "playing" /\ up'[g] = Tail(up[g]) /\ Answer(g, <<Msg("welcome")>>)
        /\ \A h \in Generation \ {g} : socket'[h] = socket[h] /\ up'[h] = up[h]
    BY <1>1 DEF HearHello, PhoneAndLinks, TypeOK
  <2>2. \A h \in Generation \ {g} : Wire(h)'
    BY <1>0, <2>1, AnswerTo, OthersAgree
  <2>3. g \notin cut /\ ~ Current(g) /\ ~ Current(g)' /\ link[g] # "none" /\ link[g] # "connecting"
    BY <1>0 DEF Wire, Silent, Welcomed, Current, Connected
  <2>4. last = None /\ held = {}
    BY <1>1 DEF Agreement, Seat
  <2>5. Tail(up[g]) \in Seq(UpMessage) /\ \A i \in 1 .. Len(up'[g]) : up'[g][i].type = "close"
    <3>1. /\ Tail(up[g]) \in Seq(UpMessage)
          /\ \A i \in 1 .. Len(Tail(up[g])) :
               /\ Tail(up[g])[i] = up[g][i + 1] /\ i + 1 \in 1 .. Len(up[g])
      BY <1>0, RestOf
    <3>2. \A i \in 1 .. Len(up[g]) :
            up[g][i].type = "close" \/ (up[g][i].type = "hello" /\ i = 1)
      BY <1>0 DEF Wire, Waiting
    <3> QED
      BY <2>1, <3>1, <3>2
  <2>6. ClosesLast(up'[g]) /\ (Without("close", up[g]) => Without("close", up'[g]))
    BY <1>0, <2>1, CloseRead DEF Wire, Silent
  <2>7. Silent(g)'
    BY <1>0, <2>1, <2>3, <2>6 DEF Wire, Silent
  <2>8. Waiting(g)'
    <3>1. ASSUME link[g] = "open"
          PROVE  up'[g] = <<>>
      <4>1. Without("close", up'[g])
        BY <1>0, <2>6, <3>1 DEF Wire, Silent
      <4>2. Len(up'[g]) \in Nat /\ up'[g] \in Seq(UpMessage)
        BY <2>1, <2>5, LenProperties
      <4>3. Len(up'[g]) = 0
        BY <2>5, <4>1, <4>2 DEF Without
      <4> QED
        BY <4>2, <4>3, EmptySeq
    <3> QED
      BY <1>0, <2>1, <2>3, <2>4, <3>1 DEF Waiting
  <2>9. Numbered(g)'
    BY <2>3, <2>5 DEF Numbered, Numbers
  <2>10. Seat'
    BY <1>1, <2>1 DEF Seat, Claimed
  <2>11. ButtonsAgree'
    <3>1. Connected => phone.connection \in Generation /\ Current(phone.connection)
      BY CurrentIs
    <3>2. \A h \in Generation \ {g} : socket'[h] # "playing"
      BY <1>1, <2>1 DEF Claimed
    <3> QED
      BY <1>0, <2>3, <3>1, <3>2 DEF ButtonsAgree, Connected
  <2> QED
    BY <2>2, <2>7, <2>8, <2>9, <2>10, <2>11 DEF Agreement, Wire
<1>2. CASE ~ (serverUp /\ ~ Claimed)
  <2> DEFINE answer == Rejected(IF serverUp THEN "controller-already-connected"
                                ELSE "invalid-token")
  <2>1. EndSocket(g) /\ Answer(g, answer)
    BY <1>2 DEF HearHello
  <2> HIDE DEF answer
  <2> QED
    BY <1>0, <2>1, AnswerTo, EndAgrees
<1> QED
  BY <1>1, <1>2

LEMMA TimeoutAgrees ==
  ASSUME PhoneAndLinks, Agreement, NEW g \in Generation, ServerTimeout(g)
  PROVE  Agreement'
<1>1. CASE HelloTimeout(g)
  <2>1. /\ EndSocket(g) /\ Answer(g, Rejected("malformed-message")) /\ socket[g] = "hello"
        /\ UNCHANGED <<phone, link, cut, last, held>>
    BY <1>1 DEF HelloTimeout
  <2> QED
    BY <2>1, AnswerTo, EndAgrees
<1>2. CASE HeartbeatTimeout(g)
  <2>1. /\ EndSocket(g) /\ Answer(g, <<Msg("close")>>) /\ socket[g] = "playing"
        /\ last' = None /\ held' = {} /\ UNCHANGED <<phone, link, cut>>
    BY <1>2 DEF HeartbeatTimeout, Leave
  <2> QED
    BY <2>1, AnswerTo, EndAgrees
<1> QED
  BY <1>1, <1>2 DEF ServerTimeout

\* The server accepts what it hears.
LEMMA MessageExpected ==
  ASSUME PhoneAndLinks, Agreement, NEW g \in Generation, Playing(g), Head(up[g]).type # "close"
  PROVE  /\ Accepts(Head(up[g]).sequence)
         /\ Numbers(Tail(up[g]), Head(up[g]).sequence)
         /\ \A n : Follows(up[g], last, Len(up[g]) + 1, n) =>
                     Follows(Tail(up[g]), Head(up[g]).sequence, Len(Tail(up[g])) + 1, n)
<1>1. /\ up[g] \in Seq(UpMessage) /\ up[g] # <<>> /\ Head(up[g]).sequence \in Sequence
      /\ ClosesLast(up[g]) /\ Numbers(up[g], last)
  BY Heard DEF Playing, Agreement, Wire, Silent, Numbered
<1>2. None \notin Sequence
  BY Bounds
<1> QED
  BY <1>1, <1>2, NumberRead DEF Accepts

LEMMA MessageAgrees ==
  ASSUME PhoneAndLinks, Agreement, NEW g \in Generation, HearMessage(g)
  PROVE  Agreement'
<1> DEFINE m == Head(up[g])
<1>0. /\ Playing(g) /\ socket[g] = "playing" /\ up[g] # <<>> /\ up[g] \in Seq(UpMessage)
      /\ m.type # "close" /\ UNCHANGED <<phone, link, cut>> /\ Wire(g) /\ Greeted(g)
  BY DEF HearMessage, Playing, PhoneAndLinks, TypeOK, Agreement, Links
<1>1. /\ Accepts(m.sequence) /\ Numbers(Tail(up[g]), m.sequence)
      /\ \A n : Follows(up[g], last, Len(up[g]) + 1, n) =>
                  Follows(Tail(up[g]), m.sequence, Len(Tail(up[g])) + 1, n)
  BY <1>0, MessageExpected
<1>2. PICK answer : Answer(g, answer)
  BY <1>1 DEF HearMessage
<1>3. /\ last' = m.sequence /\ held' = Apply(held, m) /\ socket' = socket
      /\ up'[g] = Tail(up[g]) /\ \A h \in Generation \ {g} : up'[h] = up[h]
  BY <1>1 DEF HearMessage, PhoneAndLinks, TypeOK
<1>4. m \in UpMessage /\ m.type # "hello" /\ held \in SUBSET Button
  BY <1>0, RestOf DEF Greeted, Without, PhoneAndLinks, TypeOK
<1> HIDE DEF m
<1>5. \A h \in Generation \ {g} : Wire(h)'
  BY <1>0, <1>2, <1>3, AnswerTo, OthersAgree
<1>6. Current(g)' <=> Current(g)
  BY <1>0 DEF Current, Connected
<1>7. ClosesLast(up'[g]) /\ (Without("close", up[g]) => Without("close", up'[g]))
  BY <1>0, <1>3, CloseRead DEF Wire, Silent
<1>8. Silent(g)'
  BY <1>0, <1>3, <1>7 DEF Wire, Silent
<1>9. Waiting(g)'
  BY <1>0, <1>3, <1>6 DEF Wire, Waiting
<1>10. Numbered(g)'
  BY <1>0, <1>1, <1>3, <1>6 DEF Wire, Numbered
<1>11. Seat'
  BY <1>0, <1>3 DEF Agreement, Seat, Claimed
<1>12. ButtonsAgree'
  <2>1. CASE phone.connection = g
    <3>1. ASSUME Connected, g \notin cut, NEW button \in Button
          PROVE  button \in phone.desiredButtons <=> Held(held', button, up'[g])
      <4>1. button \in phone.desiredButtons <=> Held(held, button, up[g])
        BY <1>0, <2>1, <3>1, ButtonsHeld DEF Agreement
      <4>2. button \in held' <=> Presses(m, button) \/ (button \in held /\ ~ Releases(m, button))
        BY <1>0, <1>3, <1>4, Applied
      <4> QED
        BY <1>0, <1>3, <4>1, <4>2, HeldRead DEF m
    <3> QED
      BY <1>0, <2>1, <3>1 DEF ButtonsAgree, WillBeHeld, Held, Connected
  <2>2. CASE phone.connection # g
    <3>1. Connected => phone.connection \in Generation
      BY CurrentIs
    <3> QED
      BY <1>0, <1>3, <2>2, <3>1 DEF Agreement, Seat, ButtonsAgree, Connected
  <2> QED
    BY <2>1, <2>2
<1> QED
  BY <1>5, <1>8, <1>9, <1>10, <1>11, <1>12 DEF Agreement, Wire

LEMMA ServerAgrees ==
  ASSUME PhoneAndLinks, Agreement, NEW g \in Generation, ServerStep(g)
  PROVE  Agreement'
<1>1. CASE HearClose(g)
  <2>1. /\ EndSocket(g) /\ socket[g] = "playing" /\ last' = None /\ held' = {}
        /\ UNCHANGED <<phone, link, down, cut>> /\ Silent(g)
    BY <1>1 DEF HearClose, Playing, Leave, Agreement, Wire
  <2> QED
    BY <2>1, EndAgrees DEF Silent
<1>2. CASE HearShutdown(g)
  <2>1. UNCHANGED <<phone, link, cut>>
    BY <1>2 DEF HearShutdown
  <2>2. CASE /\ socket[g] = "hello" /\ EndSocket(g) /\ Answer(g, <<Msg("close")>>)
             /\ UNCHANGED <<last, held>>
    BY <2>1, <2>2, AnswerTo, EndAgrees
  <2>3. CASE /\ socket[g] = "playing" /\ Leave(g)
             /\ Answer(g, <<Msg("controller-disconnected"), Msg("close")>>)
    BY <2>1, <2>3, AnswerTo, EndAgrees DEF Leave
  <2> QED
    BY <1>2, <2>2, <2>3 DEF HearShutdown
<1> QED
  BY <1>1, <1>2, AcceptAgrees, HelloAgrees, MessageAgrees DEF ServerStep

-----------------------------------------------------------------------------
LEMMA InitiallyAgrees == Init => Agreement
<1> SUFFICES ASSUME Init
             PROVE  Agreement
  OBVIOUS
<1>1. \A g \in Generation : /\ link[g] = "none" /\ socket[g] = "none"
                            /\ up[g] = <<>> /\ down[g] = <<>> /\ g \notin cut
  BY DEF Init
<1>2. \A g \in Generation : Silent(g) /\ Waiting(g) /\ Numbered(g)
  BY <1>1, Nothing, NothingOnTheWay DEF Silent, Waiting, Numbered
<1>3. Seat
  BY <1>1 DEF Init, Seat, Claimed
<1>4. ButtonsAgree
  BY DEF Init, ButtonsAgree, Connected
<1> QED
  BY <1>2, <1>3, <1>4 DEF Agreement, Wire

\* Every step keeps the agreement.
LEMMA AgreementSteps ==
  ASSUME PhoneAndLinks, Agreement, [Next]_vars
  PROVE  Agreement'
<1>1. ASSUME UNCHANGED vars \/ EndSession
      PROVE  Agreement'
  <2>1. UNCHANGED <<phone, link, up, down, cut, socket, last, held>>
    BY <1>1 DEF EndSession, vars, network, server
  <2> QED
    BY <2>1, StayingAgrees DEF Staying
<1> QED
  BY <1>1, UserAgrees, TimerAgrees, EventAgrees, ServerAgrees, TimeoutAgrees, CutAgrees DEF Next

LEMMA AgreementAlways == Spec => [](PhoneAndLinks /\ Agreement)
<1>1. PhoneAndLinks /\ Agreement /\ [Next]_vars => PhoneAndLinks' /\ Agreement'
  BY PhoneSteps, AgreementSteps
<1> QED
  BY <1>1, PhoneInitially, InitiallyAgrees, PTL DEF Spec

\* The server never refuses a number of the phone's, over reconnections, pings
\* and the largest number.
THEOREM NumbersAccepted == Spec => []NeverOutOfSequence
<1>1. PhoneAndLinks /\ Agreement => NeverOutOfSequence
  BY MessageExpected DEF NeverOutOfSequence
<1> QED
  BY <1>1, AgreementAlways, PTL

\* What the phone shows as pressed is what the game gets.
THEOREM ButtonsReachTheGame == Spec => []ButtonsAgree
<1>1. Agreement => ButtonsAgree
  BY DEF Agreement
<1> QED
  BY <1>1, AgreementAlways, PTL
=============================================================================
