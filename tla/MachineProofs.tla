--------------------------- MODULE MachineProofs ---------------------------
(* The machine, for every game, every register size and every transfer:     *)
(* its devices agree with each other within every instruction, and every    *)
(* step takes the cycles that were predicted for it.                        *)
EXTENDS Machine, Arithmetic, WellFoundedInduction, TLAPS

-----------------------------------------------------------------------------
(* The inductive invariant.                                                 *)

CpuState == [ime : BOOLEAN, delay : 0 .. 2, mode : Mode, haltBug : BOOLEAN]

DmaState == [active : BOOLEAN, index : 0 .. DmaLength, source : Nat]

Oam == [0 .. DmaLength - 1 -> Nat]

BusState ==
  [timer : TimerState, mirror : 0 .. DividerSize - 1, dma : DmaState, oam : Oam,
   irq : InterruptRegisters, joypad : JoypadState]

\* What a transfer copied so far is there, and it has a byte left to copy.
Copied(dma, oam) ==
  dma.active => /\ dma.index < DmaLength
                /\ \A i \in 0 .. dma.index - 1 : oam[i] = dma.source

\* The lines of the joypad are those of its buttons and rows.
Shown(joypad) == joypad.low = LowLines(joypad.selected, joypad.state)

BusInv(b) ==
  /\ b \in BusState
  /\ b.timer.divider = b.mirror
  /\ Copied(b.dma, b.oam)
  /\ Shown(b.joypad)

MachineInv ==
  /\ game \in Game \cup {NoGame}
  /\ cpu \in CpuState
  /\ inputs \in [Source -> Buttons]
  /\ BusInv(bus)
  /\ game # NoGame => bus.joypad.state = Effective(inputs)

-----------------------------------------------------------------------------
(* The timer.                                                               *)

LEMMA IncrementKeeps ==
  ASSUME NEW t \in TimerState
  PROVE  IncrementTima(t) \in TimerState /\ IncrementTima(t).divider = t.divider
<1>1. 0 \in Counter /\ ReloadDelay \in 0 .. ReloadDelay
  BY TimerAssumption DEF TimerAssumption, Counter, ReloadDelay
<1>2. ASSUME t.tima # CounterSize - 1 PROVE t.tima + 1 \in Counter
  BY <1>2, TimerAssumption DEF TimerAssumption, Counter, TimerState
<1> QED
  BY <1>1, <1>2 DEF IncrementTima, TimerState

LEMMA EdgeKeeps ==
  ASSUME NEW before, NEW after \in TimerState
  PROVE  /\ FallingEdge(before, after) \in TimerState
         /\ FallingEdge(before, after).divider = after.divider
  BY IncrementKeeps DEF FallingEdge

LEMMA WriteDividerKeeps ==
  ASSUME NEW t \in TimerState
  PROVE  WriteDivider(t) \in TimerState /\ WriteDivider(t).divider = 0
<1> DEFINE after == [t EXCEPT !.divider = 0]
<1>1. after \in TimerState /\ after.divider = 0
  BY TimerAssumption DEF TimerAssumption, TimerState
<1> HIDE DEF after
<1>2. FallingEdge(t, after) \in TimerState /\ FallingEdge(t, after).divider = 0
  BY <1>1, EdgeKeeps
<1> QED
  BY <1>2 DEF WriteDivider, after

LEMMA WriteTimaKeeps ==
  ASSUME NEW t \in TimerState, NEW value \in Counter
  PROVE  WriteTima(t, value) \in TimerState /\ WriteTima(t, value).divider = t.divider
<1>1. 0 \in 0 .. ReloadDelay
  BY DEF ReloadDelay
<1> QED
  BY <1>1 DEF WriteTima, TimerState

LEMMA WriteTmaKeeps ==
  ASSUME NEW t \in TimerState, NEW value \in Counter
  PROVE  WriteTma(t, value) \in TimerState /\ WriteTma(t, value).divider = t.divider
  BY DEF WriteTma, TimerState

LEMMA WriteTacKeeps ==
  ASSUME NEW t \in TimerState, NEW enabled \in BOOLEAN, NEW select \in Select
  PROVE  /\ WriteTac(t, enabled, select) \in TimerState
         /\ WriteTac(t, enabled, select).divider = t.divider
<1> DEFINE after == [t EXCEPT !.enabled = enabled, !.select = select]
<1>1. after \in TimerState /\ after.divider = t.divider
  BY DEF TimerState
<1> HIDE DEF after
<1>2. FallingEdge(t, after) \in TimerState /\ FallingEdge(t, after).divider = t.divider
  BY <1>1, EdgeKeeps
<1> QED
  BY <1>2 DEF WriteTac, after

LEMMA ReloadKeeps ==
  ASSUME NEW t \in TimerState
  PROVE  Reload(t) \in TimerState /\ Reload(t).divider = t.divider
<1>1. t.reloadDelay \in 0 .. 4 /\ ReloadDelay = 4
  BY DEF TimerState, ReloadDelay
<1>2. (IF t.reloadDelay = 0 THEN 0 ELSE t.reloadDelay - 1) \in 0 .. ReloadDelay
  BY <1>1
<1> DEFINE delay == IF t.reloadDelay = 0 THEN 0 ELSE t.reloadDelay - 1
<1>3. delay \in 0 .. ReloadDelay /\ 0 \in 0 .. ReloadDelay
  BY <1>1, <1>2
<1> HIDE DEF delay
<1>4. CASE t.reloadDelay = 1
  BY <1>3, <1>4 DEF Reload, TimerState
<1>5. CASE t.reloadDelay # 1
  <2>1. Reload(t) = [t EXCEPT !.reloadDelay = delay, !.reloaded = FALSE]
    BY <1>5 DEF Reload, delay
  <2> QED
    BY <2>1, <1>3 DEF TimerState
<1> QED
  BY <1>4, <1>5

LEMMA TickTCycleKeeps ==
  ASSUME NEW t \in TimerState
  PROVE  /\ TickTCycle(t) \in TimerState
         /\ TickTCycle(t).divider =
              IF t.divider + 1 = DividerSize THEN 0 ELSE t.divider + 1
<1> DEFINE loaded == Reload(t)
           next == IF t.divider + 1 = DividerSize THEN 0 ELSE t.divider + 1
           after == [loaded EXCEPT !.divider = (@ + 1) % DividerSize]
<1>1. loaded \in TimerState /\ loaded.divider = t.divider
  BY ReloadKeeps
<1>2. t.divider \in 0 .. DividerSize - 1 /\ DividerSize \in Nat \ {0}
  BY TimerAssumption DEF TimerAssumption, TimerState
<1>3. (t.divider + 1) % DividerSize = next /\ next \in 0 .. DividerSize - 1
  BY <1>2, Z3
<1> HIDE DEF loaded, next
<1>4. after \in TimerState /\ after.divider = next
  BY <1>1, <1>3 DEF TimerState
<1> HIDE DEF after
<1>5. FallingEdge(loaded, after) \in TimerState /\ FallingEdge(loaded, after).divider = next
  BY <1>4, EdgeKeeps
<1> QED
  BY <1>5 DEF TickTCycle, AdvanceDivider, loaded, after, next

LEMMA TickMCycleKeeps ==
  ASSUME NEW t \in TimerState
  PROVE  /\ TickMCycle(t).timer \in TimerState
         /\ TickMCycle(t).timer.divider = (t.divider + 4) % DividerSize
<1> DEFINE t1 == TickTCycle(t)
           t2 == TickTCycle(t1)
           t3 == TickTCycle(t2)
           t4 == TickTCycle(t3)
           Next1(d) == IF d + 1 = DividerSize THEN 0 ELSE d + 1
<1>1. t1 \in TimerState /\ t1.divider = Next1(t.divider)
  BY TickTCycleKeeps
<1> HIDE DEF t1
<1>2. t2 \in TimerState /\ t2.divider = Next1(t1.divider)
  BY <1>1, TickTCycleKeeps
<1> HIDE DEF t2
<1>3. t3 \in TimerState /\ t3.divider = Next1(t2.divider)
  BY <1>2, TickTCycleKeeps
<1> HIDE DEF t3
<1>4. t4 \in TimerState /\ t4.divider = Next1(t3.divider)
  BY <1>3, TickTCycleKeeps
<1> HIDE DEF t4
<1>5. t.divider \in 0 .. DividerSize - 1 /\ DividerSize \in Nat /\ DividerSize > 4
  BY TimerAssumption DEF TimerAssumption, TimerState
<1>6. (t.divider + 4) % DividerSize =
        IF t.divider + 4 >= DividerSize THEN t.divider + 4 - DividerSize ELSE t.divider + 4
  BY <1>5, Z3
<1>7. t4.divider = (t.divider + 4) % DividerSize
  BY <1>1, <1>2, <1>3, <1>4, <1>5, <1>6
<1>8. TickMCycle(t).timer = t4
  BY DEF TickMCycle, ThenTick, Note, t1, t2, t3, t4
<1> QED
  BY <1>4, <1>7, <1>8

-----------------------------------------------------------------------------
(* How long the timer waits.                                                *)

\* A divider below a multiple of the period has one remainder.
LEMMA Remainder ==
  ASSUME NEW p \in Nat \ {0}, NEW q \in Nat, NEW r \in 0 .. p - 1, NEW d \in Nat, d = q * p + r
  PROVE  d % p = r
  BY Z3

\* The selected bit of the divider is set in the upper half of its period.
LEMMA UpperHalf ==
  ASSUME NEW d \in Nat, NEW w \in Nat \ {0}
  PROVE  (d \div w) % 2 = 1 <=> d % (2 * w) >= w
<1> DEFINE a == d \div w
           r == d % w
           q == a \div 2
           e == a % 2
<1>1. d = a * w + r /\ r \in 0 .. w - 1 /\ a \in Nat
  BY Z3
<1>2. a = 2 * q + e /\ e \in {0, 1} /\ q \in Nat
  BY <1>1, Z3
<1> HIDE DEF a, r, q, e
<1>3. d = q * (2 * w) + (e * w + r)
  BY <1>1, <1>2, Z3
<1>4. e * w + r \in 0 .. 2 * w - 1 /\ (e = 1 <=> e * w + r >= w)
  BY <1>1, <1>2, Z3
<1> DEFINE p == 2 * w
           s == e * w + r
<1>5. p \in Nat \ {0} /\ s \in 0 .. p - 1 /\ d = q * p + s
  BY <1>3, <1>4
<1> HIDE DEF p, s
<1>6. d % p = s
  BY <1>2, <1>5, Remainder
<1> QED
  BY <1>2, <1>4, <1>6 DEF a, e, p, s

\* One more T-cycle moves the divider one place on in the period p, also when
\* the divider starts over.
LEMMA PeriodMoves ==
  ASSUME NEW size \in Nat \ {0}, NEW p \in Nat \ {0}, size % p = 0,
         NEW d \in 0 .. size - 1
  PROVE  ((d + 1) % size) % p = IF d % p = p - 1 THEN 0 ELSE (d % p) + 1
<1> DEFINE q == d \div p
           r == d % p
           k == size \div p
<1>1. d = q * p + r /\ r \in 0 .. p - 1 /\ q \in Nat
  BY Z3
<1>2. size = k * p /\ k \in Nat
  BY Z3
<1> HIDE DEF q, r, k
<1>3. (IF r = p - 1 THEN 0 ELSE r + 1) = (d + 1) % p
  <2>1. CASE r = p - 1
    <3>1. d + 1 = (q + 1) * p
      BY <1>1, <2>1, Z3
    <3> QED
      BY <3>1, <1>1, <2>1, Z3
  <2>2. CASE r # p - 1
    <3>1. d + 1 = q * p + (r + 1) /\ r + 1 \in 0 .. p - 1
      BY <1>1, <2>2, Z3
    <3> QED
      BY <3>1, <1>1, <2>2, Z3
  <2> QED
    BY <2>1, <2>2
<1>4. ((d + 1) % size) % p = (d + 1) % p
  <2>1. CASE d + 1 = size
    <3>1. (d + 1) % size = 0 /\ (d + 1) % p = 0 /\ 0 % p = 0
      BY <2>1, Z3
    <3> QED
      BY <3>1
  <2>2. CASE d + 1 # size
    <3>1. (d + 1) % size = d + 1
      BY <2>2, Z3
    <3> QED
      BY <3>1
  <2> QED
    BY <2>1, <2>2
<1> QED
  BY <1>3, <1>4 DEF r

\* The T-cycles between two counts of a clock select.
Period(select) == 2 * BitWeight[select]

\* The T-cycles until the interrupt of a timer that runs and that no write
\* disturbs.
Wait(t) ==
  IF t.reloadDelay > 0 THEN t.reloadDelay
  ELSE (CounterSize - 1 - t.tima) * Period(t.select)
         + (Period(t.select) - (t.divider % Period(t.select))) + ReloadDelay

LEMMA PeriodFits ==
  ASSUME NEW select \in Select
  PROVE  /\ BitWeight[select] \in Nat \ {0}
         /\ Period(select) \in Nat \ {0}
         /\ Period(select) % 4 = 0
         /\ DividerSize \in Nat \ {0}
         /\ DividerSize % Period(select) = 0
         /\ CounterSize \in Nat \ {0}
<1>1. BitWeight[select] \in Nat \ {0} /\ BitWeight[select] % 2 = 0
  BY TimerAssumption DEF TimerAssumption, Select
<1>2. (2 * BitWeight[select]) % 4 = 0
  BY <1>1, Z3
<1> QED
  BY <1>1, <1>2, TimerAssumption DEF TimerAssumption, Select, Period

\* The input falls where a period ends.
LEMMA FallsAtPeriod ==
  ASSUME NEW t \in TimerState, NEW u \in TimerState, t.enabled, u.enabled,
         u.select = t.select, u.divider = (t.divider + 1) % DividerSize
  PROVE  /\ u.divider % Period(t.select) =
              IF t.divider % Period(t.select) = Period(t.select) - 1 THEN 0
              ELSE (t.divider % Period(t.select)) + 1
         /\ (TimerInput(t) /\ ~ TimerInput(u)) <=>
              t.divider % Period(t.select) = Period(t.select) - 1
<1> DEFINE w == BitWeight[t.select]
           p == Period(t.select)
           r == t.divider % p
           v == u.divider % p
<1>1. w \in Nat \ {0} /\ p = 2 * w /\ p \in Nat \ {0}
  BY PeriodFits DEF TimerState, Period
<1>2. t.divider \in Nat /\ u.divider \in Nat
  BY PeriodFits, TimerAssumption DEF TimerState, TimerAssumption
<1>3. v = IF r = p - 1 THEN 0 ELSE r + 1
  <2>1. DividerSize \in Nat \ {0} /\ DividerSize % p = 0 /\ t.divider \in 0 .. DividerSize - 1
    BY PeriodFits DEF TimerState
  <2> HIDE DEF p
  <2> QED
    BY <1>1, <2>1, PeriodMoves
<1>4. TimerInput(t) <=> r >= w
  <2>1. (t.divider \div w) % 2 = 1 <=> t.divider % (2 * w) >= w
    BY <1>1, <1>2, UpperHalf
  <2> QED
    BY <2>1, <1>1 DEF TimerInput
<1>5. TimerInput(u) <=> v >= w
  <2>1. (u.divider \div w) % 2 = 1 <=> u.divider % (2 * w) >= w
    BY <1>1, <1>2, UpperHalf
  <2> QED
    BY <2>1, <1>1 DEF TimerInput
<1>6. r \in 0 .. p - 1
  <2> HIDE DEF p
  <2> QED
    BY <1>1, <1>2, Z3
<1> HIDE DEF w, p, r, v
<1>7. (r >= w /\ ~ (v >= w)) <=> r = p - 1
  BY <1>1, <1>3, <1>6
<1> QED
  BY <1>3, <1>4, <1>5, <1>7 DEF p, r, v

LEMMA WaitIsPositive ==
  ASSUME NEW t \in TimerState
  PROVE  /\ Wait(t) \in Nat \ {0}
         /\ Wait(t) <= CounterSize * Period(t.select) + ReloadDelay
<1> DEFINE p == Period(t.select)
           r == t.divider % p
           k == CounterSize - 1 - t.tima
<1>1. p \in Nat \ {0} /\ CounterSize \in Nat \ {0}
  BY PeriodFits DEF TimerState
<1>2. t.divider \in Nat /\ k \in 0 .. CounterSize - 1 /\ t.reloadDelay \in 0 .. 4
  BY <1>1, TimerAssumption DEF TimerState, Counter, ReloadDelay, TimerAssumption
<1>3. r \in 0 .. p - 1
  <2> HIDE DEF p
  <2> QED
    BY <1>1, <1>2, Z3
<1>4. Wait(t) = IF t.reloadDelay > 0 THEN t.reloadDelay ELSE k * p + (p - r) + ReloadDelay
  BY Zenon DEF Wait
<1> HIDE DEF p, r, k
<1>5. k * p \in Nat /\ k * p + p <= CounterSize * p /\ CounterSize * p \in Nat
  <2>1. k * p \in Nat /\ CounterSize * p \in Nat
    BY <1>1, <1>2, Z3
  <2>2. (k + 1) * p <= CounterSize * p
    BY <1>1, <1>2, Z3
  <2>3. (k + 1) * p = k * p + p
    BY <1>1, <1>2, Z3
  <2> QED
    BY <2>1, <2>2, <2>3
<1> QED
  BY <1>1, <1>2, <1>3, <1>4, <1>5 DEF ReloadDelay, p

\* A T-cycle brings the interrupt one T-cycle nearer, or is the one in which
\* it is requested.
LEMMA TickCountsDown ==
  ASSUME NEW t \in TimerState, t.enabled
  PROVE  /\ TickTCycle(t).enabled
         /\ TickTCycle(t).select = t.select
         /\ TickTCycle(t).reloaded \/ Wait(TickTCycle(t)) = Wait(t) - 1
<1> DEFINE loaded == Reload(t)
           after == [loaded EXCEPT !.divider = (@ + 1) % DividerSize]
           falls == TimerInput(loaded) /\ ~ TimerInput(after)
           u == IF falls THEN IncrementTima(after) ELSE after
           p == Period(t.select)
           r == t.divider % p
           k == CounterSize - 1 - t.tima
<1>1. TickTCycle(t) = u
  BY DEF TickTCycle, AdvanceDivider, FallingEdge
<1>2. loaded \in TimerState /\ loaded.divider = t.divider
  BY ReloadKeeps
<1>3. loaded.enabled /\ loaded.select = t.select
  BY DEF Reload, TimerState
<1>4. (t.divider + 1) % DividerSize \in 0 .. DividerSize - 1
  BY TimerAssumption, Z3 DEF TimerAssumption, TimerState
<1>5. p \in Nat \ {0} /\ CounterSize \in Nat \ {0}
  BY PeriodFits DEF TimerState
<1>6. t.divider \in Nat /\ t.tima \in 0 .. CounterSize - 1 /\ t.reloadDelay \in 0 .. 4
  BY <1>5, TimerAssumption DEF TimerState, Counter, ReloadDelay, TimerAssumption
<1>7. r \in 0 .. p - 1
  <2> HIDE DEF p
  <2> QED
    BY <1>5, <1>6, Z3
<1>8. CASE t.reloadDelay = 1
  <2>1. loaded.reloaded
    BY <1>8 DEF Reload, TimerState
  <2> HIDE DEF loaded
  <2>2. after.reloaded /\ after.enabled /\ after.select = t.select
    BY <1>2, <1>3, <2>1 DEF TimerState
  <2>3. after \in TimerState
    BY <1>2, <1>4 DEF TimerState
  <2> HIDE DEF after
  <2>4. u.reloaded /\ u.enabled /\ u.select = t.select
    BY <2>2, <2>3 DEF IncrementTima, TimerState
  <2> QED
    BY <1>1, <2>4
<1>9. CASE t.reloadDelay # 1
  <2>1. loaded.tima = t.tima
    BY <1>9 DEF Reload, TimerState
  <2>2. loaded.reloadDelay = IF t.reloadDelay = 0 THEN 0 ELSE t.reloadDelay - 1
    BY <1>9 DEF Reload, TimerState
  <2> HIDE DEF loaded
  <2>3. after \in TimerState
    BY <1>2, <1>4 DEF TimerState
  <2>4. /\ after.divider = (loaded.divider + 1) % DividerSize
        /\ after.enabled /\ after.select = loaded.select /\ after.select = t.select
        /\ after.tima = t.tima
        /\ after.reloadDelay = loaded.reloadDelay
    BY <1>2, <1>3, <2>1 DEF TimerState
  <2> DEFINE v == after.divider % p
  <2> HIDE DEF after
  <2>5. v = (IF r = p - 1 THEN 0 ELSE r + 1) /\ (falls <=> r = p - 1)
    <3> HIDE DEF p
    <3>1. p = Period(loaded.select)
      BY <1>3 DEF p
    <3>2. /\ after.divider % p =
               IF loaded.divider % p = p - 1 THEN 0 ELSE (loaded.divider % p) + 1
          /\ falls <=> loaded.divider % p = p - 1
      BY <1>2, <1>3, <2>3, <2>4, <3>1, FallsAtPeriod
    <3> QED
      BY <1>2, <3>2
  <2>6. Wait(t) = IF t.reloadDelay > 0 THEN t.reloadDelay ELSE k * p + (p - r) + ReloadDelay
    BY Zenon DEF Wait
  <2>7. Wait(after) = IF after.reloadDelay > 0 THEN after.reloadDelay
                      ELSE k * p + (p - v) + ReloadDelay
    BY <2>4, Zenon DEF Wait
  <2> HIDE DEF v, p, r, falls, k
  <2>8. k * p \in Int
    BY <1>5, <1>6, Z3 DEF k
  <2>9. CASE t.reloadDelay > 1
    <3>1. u = after
      BY <2>2, <2>4, <2>9, <1>6 DEF IncrementTima
    <3> QED
      BY <1>1, <1>6, <2>2, <2>4, <2>6, <2>7, <2>9, <3>1 DEF ReloadDelay
  <2>10. CASE t.reloadDelay = 0
    <3>1. CASE ~ falls
      BY <1>1, <1>5, <1>7, <2>2, <2>4, <2>5, <2>6, <2>7, <2>8, <2>10, <3>1 DEF ReloadDelay
    <3>2. CASE falls /\ t.tima = CounterSize - 1
      <4>1. u = [after EXCEPT !.tima = 0, !.reloadDelay = 4]
        BY <2>2, <2>4, <2>10, <3>2 DEF IncrementTima, ReloadDelay
      <4>2. u.enabled /\ u.select = t.select /\ u.reloadDelay = 4
        BY <2>3, <2>4, <4>1 DEF TimerState
      <4>3. Wait(u) = 4
        BY <4>2 DEF Wait
      <4>4. k = 0 /\ 0 * p = 0
        BY <1>5, <3>2 DEF k
      <4> QED
        BY <1>1, <1>5, <2>5, <2>6, <2>10, <3>2, <4>2, <4>3, <4>4 DEF ReloadDelay
    <3>3. CASE falls /\ t.tima # CounterSize - 1
      <4>1. u = [after EXCEPT !.tima = @ + 1]
        BY <2>2, <2>4, <2>10, <3>3 DEF IncrementTima
      <4>2. /\ u.enabled /\ u.select = t.select /\ u.tima = t.tima + 1
            /\ u.divider = after.divider /\ u.reloadDelay = 0
        BY <2>2, <2>3, <2>4, <2>10, <4>1 DEF TimerState
      <4> HIDE DEF u
      <4>3. Wait(u) = (CounterSize - 1 - (t.tima + 1)) * p + (p - v) + ReloadDelay
        <5>1. Wait(u) = (CounterSize - 1 - u.tima) * Period(u.select)
                          + (Period(u.select) - (u.divider % Period(u.select))) + ReloadDelay
          BY <4>2 DEF Wait
        <5> QED
          BY <4>2, <5>1, Zenon DEF p, v
      <4>4. (CounterSize - 1 - (t.tima + 1)) * p = k * p - p
        BY <1>5, <1>6, Z3 DEF k
      <4> QED
        BY <1>1, <1>5, <1>7, <2>5, <2>6, <2>8, <2>10, <3>3, <4>2, <4>3, <4>4 DEF ReloadDelay
    <3> QED
      BY <3>1, <3>2, <3>3
  <2> QED
    BY <1>6, <1>9, <2>9, <2>10
<1> QED
  BY <1>8, <1>9

\* An M-cycle brings it four T-cycles nearer, or requests it.
LEMMA CycleCountsDown ==
  ASSUME NEW t \in TimerState, t.enabled
  PROVE  /\ TickMCycle(t).timer.enabled
         /\ TickMCycle(t).timer.select = t.select
         /\ TickMCycle(t).overflow \/ Wait(TickMCycle(t).timer) = Wait(t) - 4
<1> DEFINE t1 == TickTCycle(t)
           t2 == TickTCycle(t1)
           t3 == TickTCycle(t2)
           t4 == TickTCycle(t3)
<1>1. /\ t1 \in TimerState /\ t1.enabled /\ t1.select = t.select
      /\ t1.reloaded \/ Wait(t1) = Wait(t) - 1
  BY TickTCycleKeeps, TickCountsDown
<1> HIDE DEF t1
<1>2. /\ t2 \in TimerState /\ t2.enabled /\ t2.select = t.select
      /\ t2.reloaded \/ Wait(t2) = Wait(t1) - 1
  BY <1>1, TickTCycleKeeps, TickCountsDown
<1> HIDE DEF t2
<1>3. /\ t3 \in TimerState /\ t3.enabled /\ t3.select = t.select
      /\ t3.reloaded \/ Wait(t3) = Wait(t2) - 1
  BY <1>2, TickTCycleKeeps, TickCountsDown
<1> HIDE DEF t3
<1>4. /\ t4 \in TimerState /\ t4.enabled /\ t4.select = t.select
      /\ t4.reloaded \/ Wait(t4) = Wait(t3) - 1
  BY <1>3, TickTCycleKeeps, TickCountsDown
<1> HIDE DEF t4
<1>5. /\ TickMCycle(t).timer = t4
      /\ TickMCycle(t).overflow <=> t1.reloaded \/ t2.reloaded \/ t3.reloaded \/ t4.reloaded
  BY DEF TickMCycle, ThenTick, Note, t1, t2, t3, t4
<1>6. Wait(t) \in Nat
  BY WaitIsPositive
<1> QED
  BY <1>1, <1>2, <1>3, <1>4, <1>5, <1>6

-----------------------------------------------------------------------------
(* The bus.                                                                 *)

LEMMA RequestKeeps ==
  ASSUME NEW r \in InterruptRegisters, NEW mask \in SUBSET Interrupt
  PROVE  Request(r, mask) \in InterruptRegisters /\ Request(r, mask).enable = r.enable
  BY DEF Request, InterruptRegisters

LEMMA MasksAreInterrupts ==
  /\ {} \in SUBSET Interrupt /\ {VBlank} \in SUBSET Interrupt /\ {LcdStat} \in SUBSET Interrupt
  /\ {TimerOverflow} \in SUBSET Interrupt /\ {SerialDone} \in SUBSET Interrupt
  /\ {JoypadPressed} \in SUBSET Interrupt
  BY DEF Interrupt, VBlank, LcdStat, TimerOverflow, SerialDone, JoypadPressed

LEMMA DmaLengthIs == DmaLength \in Nat \ {0}
  BY MachineAssumption DEF MachineAssumption

\* A transfer that copied its next byte.
LEMMA AdvanceKeeps ==
  ASSUME NEW dma \in DmaState, NEW oam \in Oam, Copied(dma, oam), dma.active
  PROVE  LET copied == [oam EXCEPT ![dma.index] = dma.source]
         IN  AdvanceDma(dma) \in DmaState /\ copied \in Oam /\ Copied(AdvanceDma(dma), copied)
<1> DEFINE copied == [oam EXCEPT ![dma.index] = dma.source]
           next == AdvanceDma(dma)
<1>1. /\ dma.index \in Nat /\ dma.index < DmaLength /\ dma.source \in Nat /\ DmaLength \in Nat
      /\ \A i \in 0 .. dma.index - 1 : oam[i] = dma.source
  <2>1. dma.index \in Nat /\ dma.source \in Nat
    BY DEF DmaState
  <2> QED
    BY <2>1, DmaLengthIs DEF Copied
<1>2. /\ next \in DmaState /\ next.index = dma.index + 1 /\ next.source = dma.source
      /\ next.active <=> dma.index + 1 # DmaLength
  <2> DEFINE index == dma.index + 1
             active == index # DmaLength
  <2>1. index \in 0 .. DmaLength /\ active \in BOOLEAN
    BY <1>1
  <2>2. next = [dma EXCEPT !.index = index, !.active = active]
    BY DEF AdvanceDma
  <2> HIDE DEF index, active, next
  <2>3. next \in DmaState /\ next.index = index /\ next.source = dma.source
    BY <2>1, <2>2 DEF DmaState
  <2>4. next.active = active
    BY <2>1, <2>2 DEF DmaState
  <2> QED
    BY <2>3, <2>4 DEF index, active
<1>3. copied \in Oam
  BY <1>1 DEF Oam
<1>4. copied[dma.index] = dma.source
  BY <1>1 DEF Oam
<1>5. \A i \in 0 .. dma.index - 1 : copied[i] = dma.source
  BY <1>1 DEF Oam
<1> HIDE DEF next, copied
<1>6. ASSUME NEW i \in 0 .. next.index - 1 PROVE copied[i] = next.source
  <2>1. i = dma.index \/ i \in 0 .. dma.index - 1
    BY <1>1, <1>2
  <2> QED
    BY <2>1, <1>2, <1>4, <1>5
<1>7. Copied(next, copied)
  BY <1>1, <1>2, <1>6 DEF Copied
<1> QED
  BY <1>2, <1>3, <1>7 DEF next, copied

LEMMA TickBusKeeps ==
  ASSUME NEW b, BusInv(b), NEW video \in SUBSET Interrupt
  PROVE  /\ BusInv(TickBus(b, video))
         /\ TickBus(b, video).joypad = b.joypad
         /\ TickBus(b, video).irq.enable = b.irq.enable
         /\ TickBus(b, video).dma.active => b.dma.active
<1> DEFINE ticked == TickMCycle(b.timer)
           mask == (IF ticked.overflow THEN {TimerOverflow} ELSE {}) \cup video
           timer == ticked.timer
           mirror == (b.mirror + 4) % DividerSize
           dma == IF b.dma.active THEN AdvanceDma(b.dma) ELSE b.dma
           oam == IF b.dma.active THEN [b.oam EXCEPT ![b.dma.index] = b.dma.source] ELSE b.oam
           irq == Request(b.irq, mask)
<1>1. /\ b.timer \in TimerState /\ b.mirror \in 0 .. DividerSize - 1 /\ b.dma \in DmaState
      /\ b.oam \in Oam /\ b.irq \in InterruptRegisters /\ b.joypad \in JoypadState
  BY DEF BusInv, BusState
<1>2. b.timer.divider = b.mirror /\ Copied(b.dma, b.oam) /\ Shown(b.joypad)
  BY DEF BusInv
<1>3. timer \in TimerState /\ timer.divider = (b.timer.divider + 4) % DividerSize
  BY <1>1, TickMCycleKeeps
<1>4. mirror \in 0 .. DividerSize - 1
  BY <1>1, TimerAssumption, Z3 DEF TimerAssumption
<1>5. dma \in DmaState /\ oam \in Oam /\ Copied(dma, oam)
  BY <1>1, <1>2, AdvanceKeeps
<1>6. mask \in SUBSET Interrupt
  BY MasksAreInterrupts
<1>7. irq \in InterruptRegisters /\ irq.enable = b.irq.enable
  BY <1>1, <1>6, RequestKeeps
<1>8. timer.divider = mirror
  BY <1>2, <1>3
<1>9. TickBus(b, video) = [timer |-> timer, mirror |-> mirror, dma |-> dma, oam |-> oam,
                           irq |-> irq, joypad |-> b.joypad]
  BY DEF TickBus, TickDevices
<1>10. dma.active => b.dma.active
  OBVIOUS
<1> HIDE DEF timer, mirror, dma, oam, irq
<1> QED
  BY <1>1, <1>2, <1>3, <1>4, <1>5, <1>7, <1>8, <1>9, <1>10 DEF BusInv, BusState

\* What a write leaves alone: the buttons, and a transfer that runs.
LEMMA ResetDividerKeeps ==
  ASSUME NEW b, BusInv(b)
  PROVE  BusInv(ResetDivider(b)) /\ ResetDivider(b).joypad = b.joypad
<1> DEFINE timer == WriteDivider(b.timer)
<1>1. timer \in TimerState /\ timer.divider = 0
  BY WriteDividerKeeps DEF BusInv, BusState
<1>2. 0 \in 0 .. DividerSize - 1
  BY TimerAssumption DEF TimerAssumption
<1>3. ResetDivider(b) = [b EXCEPT !.timer = timer, !.mirror = 0]
  BY DEF ResetDivider
<1> HIDE DEF timer
<1> QED
  BY <1>1, <1>2, <1>3 DEF BusInv, BusState

LEMMA TimerWritten ==
  ASSUME NEW b, BusInv(b), NEW timer \in TimerState, timer.divider = b.timer.divider
  PROVE  BusInv([b EXCEPT !.timer = timer]) /\ [b EXCEPT !.timer = timer].joypad = b.joypad
  BY DEF BusInv, BusState

LEMMA InterruptsWritten ==
  ASSUME NEW b, BusInv(b), NEW irq \in InterruptRegisters
  PROVE  BusInv([b EXCEPT !.irq = irq]) /\ [b EXCEPT !.irq = irq].joypad = b.joypad
  BY DEF BusInv, BusState

\* A change of the rows or of the buttons updates the lines.
LEMMA UpdateShows ==
  ASSUME NEW j \in JoypadState, NEW selected \in SUBSET Row, NEW state \in Buttons
  PROVE  /\ Update(j, selected, state) \in JoypadState
         /\ Shown(Update(j, selected, state))
         /\ Update(j, selected, state).state = state
<1>1. LowLines(selected, state) \in SUBSET Line
  BY DEF LowLines
<1> QED
  BY <1>1 DEF Update, JoypadState, Shown

JoypadChanged(b, selected, state, mask) ==
  [b EXCEPT !.joypad = Update(b.joypad, selected, state), !.irq = Request(@, mask)]

LEMMA JoypadUpdated ==
  ASSUME NEW b, BusInv(b), NEW selected \in SUBSET Row, NEW state \in Buttons,
         NEW mask \in SUBSET Interrupt
  PROVE  /\ BusInv(JoypadChanged(b, selected, state, mask))
         /\ JoypadChanged(b, selected, state, mask).joypad.state = state
<1> DEFINE joypad == Update(b.joypad, selected, state)
           irq == Request(b.irq, mask)
<1>1. joypad \in JoypadState /\ Shown(joypad) /\ joypad.state = state
  BY UpdateShows DEF BusInv, BusState
<1>2. irq \in InterruptRegisters
  BY RequestKeeps DEF BusInv, BusState
<1> HIDE DEF joypad, irq
<1>3. BusInv([b EXCEPT !.joypad = joypad, !.irq = irq])
  BY <1>1, <1>2 DEF BusInv, BusState
<1>4. [b EXCEPT !.joypad = joypad, !.irq = irq].joypad.state = state
  BY <1>1 DEF BusInv, BusState
<1> QED
  BY <1>3, <1>4 DEF JoypadChanged, joypad, irq

LEMMA WriteJoypadKeeps ==
  ASSUME NEW b, BusInv(b), NEW selected \in SUBSET Row
  PROVE  /\ BusInv(WriteJoypad(b, selected))
         /\ WriteJoypad(b, selected).joypad.state = b.joypad.state
<1> DEFINE joypad == Update(b.joypad, selected, b.joypad.state)
           mask == IF Fell(b.joypad, joypad) THEN {JoypadPressed} ELSE {}
<1>1. mask \in SUBSET Interrupt
  BY MasksAreInterrupts
<1>2. b.joypad.state \in Buttons
  BY DEF BusInv, BusState, JoypadState
<1>3. WriteJoypad(b, selected) = JoypadChanged(b, selected, b.joypad.state, mask)
  BY DEF WriteJoypad, WriteSelect, JoypadChanged
<1> HIDE DEF mask
<1> QED
  BY <1>1, <1>2, <1>3, JoypadUpdated

LEMMA SetJoypadStateKeeps ==
  ASSUME NEW b, BusInv(b), NEW state \in Buttons
  PROVE  BusInv(SetJoypadState(b, state)) /\ SetJoypadState(b, state).joypad.state = state
<1> DEFINE joypad == Update(b.joypad, b.joypad.selected, state)
           mask == IF Fell(b.joypad, joypad) THEN {JoypadPressed} ELSE {}
<1>1. mask \in SUBSET Interrupt
  BY MasksAreInterrupts
<1>2. b.joypad.selected \in SUBSET Row
  BY DEF BusInv, BusState, JoypadState
<1>3. SetJoypadState(b, state) = JoypadChanged(b, b.joypad.selected, state, mask)
  BY DEF SetJoypadState, SetState, JoypadChanged
<1> HIDE DEF mask
<1> QED
  BY <1>1, <1>2, <1>3, JoypadUpdated

LEMMA StartDmaKeeps ==
  ASSUME NEW b, BusInv(b), NEW value \in Nat
  PROVE  LET started == [b EXCEPT !.dma = [active |-> TRUE, index |-> 0, source |-> value]]
         IN  BusInv(started) /\ started.joypad = b.joypad
<1> DEFINE dma == [active |-> TRUE, index |-> 0, source |-> value]
<1>1. dma \in DmaState /\ Copied(dma, b.oam)
  BY DmaLengthIs DEF DmaState, Copied
<1> HIDE DEF dma
<1>2. BusInv([b EXCEPT !.dma = dma]) /\ [b EXCEPT !.dma = dma].joypad = b.joypad
  BY <1>1 DEF BusInv, BusState
<1> QED
  BY <1>2 DEF dma

LEMMA WriteOamKeeps ==
  ASSUME NEW b, BusInv(b), NEW i \in 0 .. DmaLength - 1, ~ b.dma.active
  PROVE  BusInv([b EXCEPT !.oam[i] = 0]) /\ [b EXCEPT !.oam[i] = 0].joypad = b.joypad
<1> DEFINE oam == [b.oam EXCEPT ![i] = 0]
<1>1. oam \in Oam /\ Copied(b.dma, oam)
  BY DEF Oam, BusInv, BusState, Copied
<1>2. [b EXCEPT !.oam[i] = 0] = [b EXCEPT !.oam = oam]
  BY DEF BusInv, BusState
<1> HIDE DEF oam
<1> QED
  BY <1>1, <1>2 DEF BusInv, BusState

\* The write of any place with what can be stored there.
LEMMA WriteUnclockedKeeps ==
  ASSUME NEW b, BusInv(b), NEW place, NEW value \in Stored(place),
         b.dma.active => place # "oam"
  PROVE  /\ BusInv(WriteUnclocked(b, place, value))
         /\ WriteUnclocked(b, place, value).joypad.state = b.joypad.state
<1> DEFINE after == WriteUnclocked(b, place, value)
<1>1. /\ b.timer \in TimerState /\ b.irq \in InterruptRegisters
      /\ b.irq.enable \in SUBSET Interrupt /\ b.irq.flags \in SUBSET Interrupt
  BY DEF BusInv, BusState, InterruptRegisters
<1>2. CASE place = "div"
  <2>1. after = ResetDivider(b)
    BY <1>2 DEF WriteUnclocked
  <2> HIDE DEF after
  <2>2. BusInv(after) /\ after.joypad = b.joypad
    BY <2>1, ResetDividerKeeps
  <2> QED
    BY <2>2 DEF after
<1>3. CASE place \in {"tima", "tma", "tac"}
  <2>1. PICK timer \in TimerState : /\ timer.divider = b.timer.divider
                                    /\ after = [b EXCEPT !.timer = timer]
    <3>1. CASE place = "tima"
      <4>1. value \in Counter /\ after = [b EXCEPT !.timer = WriteTima(b.timer, value)]
        BY <3>1 DEF Stored, WriteUnclocked
      <4> QED
        BY <4>1, <1>1, WriteTimaKeeps
    <3>2. CASE place = "tma"
      <4>1. value \in Counter /\ after = [b EXCEPT !.timer = WriteTma(b.timer, value)]
        BY <3>2 DEF Stored, WriteUnclocked
      <4> QED
        BY <4>1, <1>1, WriteTmaKeeps
    <3>3. CASE place = "tac"
      <4>1. value \in BOOLEAN \X Select
        BY <3>3 DEF Stored
      <4>2. value[1] \in BOOLEAN /\ value[2] \in Select
        BY <4>1
      <4>3. after = [b EXCEPT !.timer = WriteTac(b.timer, value[1], value[2])]
        BY <3>3 DEF WriteUnclocked
      <4> QED
        BY <4>2, <4>3, <1>1, WriteTacKeeps
    <3> QED
      BY <1>3, <3>1, <3>2, <3>3
  <2> HIDE DEF after
  <2>2. BusInv(after) /\ after.joypad = b.joypad
    BY <2>1, TimerWritten
  <2> QED
    BY <2>2 DEF after
<1>4. CASE place = "oam"
  <2>1. value \in 0 .. DmaLength - 1 /\ after = [b EXCEPT !.oam[value] = 0]
    BY <1>4 DEF Stored, WriteUnclocked
  <2> HIDE DEF after
  <2>2. BusInv(after) /\ after.joypad = b.joypad
    BY <2>1, <1>4, WriteOamKeeps
  <2> QED
    BY <2>2 DEF after
<1>5. CASE place = "dma"
  <2>1. value \in Nat
    BY <1>5 DEF Stored
  <2>2. after = [b EXCEPT !.dma = [active |-> TRUE, index |-> 0, source |-> value]]
    BY <1>5 DEF WriteUnclocked
  <2> HIDE DEF after
  <2>3. BusInv(after) /\ after.joypad = b.joypad
    BY <2>1, <2>2, StartDmaKeeps
  <2> QED
    BY <2>3 DEF after
<1>6. CASE place = "joypad"
  <2>1. value \in SUBSET Row /\ after = WriteJoypad(b, value)
    BY <1>6 DEF Stored, WriteUnclocked
  <2> HIDE DEF after
  <2>2. BusInv(after) /\ after.joypad.state = b.joypad.state
    BY <2>1, WriteJoypadKeeps
  <2> QED
    BY <2>2 DEF after
<1>7. CASE place \in {"serial", "video", "if", "ie"}
  <2>1. PICK irq \in InterruptRegisters : after = [b EXCEPT !.irq = irq]
    <3>1. CASE place = "serial"
      <4>1. after = [b EXCEPT !.irq = Request(b.irq, {SerialDone})]
        BY <3>1 DEF WriteUnclocked
      <4> QED
        BY <4>1, <1>1, RequestKeeps, MasksAreInterrupts
    <3>2. CASE place = "video"
      <4>1. after = [b EXCEPT !.irq = Request(b.irq, {LcdStat})]
        BY <3>2 DEF WriteUnclocked
      <4> QED
        BY <4>1, <1>1, RequestKeeps, MasksAreInterrupts
    <3>3. CASE place = "if"
      <4>1. value \in SUBSET Interrupt /\ after = [b EXCEPT !.irq.flags = value]
        BY <3>3 DEF Stored, WriteUnclocked
      <4>2. [b.irq EXCEPT !.flags = value] \in InterruptRegisters
        BY <4>1, <1>1 DEF InterruptRegisters
      <4>3. after = [b EXCEPT !.irq = [b.irq EXCEPT !.flags = value]]
        BY <4>1
      <4> QED
        BY <4>2, <4>3
    <3>4. CASE place = "ie"
      <4>1. value \in SUBSET Interrupt /\ after = [b EXCEPT !.irq.enable = value]
        BY <3>4 DEF Stored, WriteUnclocked
      <4>2. [b.irq EXCEPT !.enable = value] \in InterruptRegisters
        BY <4>1, <1>1 DEF InterruptRegisters
      <4>3. after = [b EXCEPT !.irq = [b.irq EXCEPT !.enable = value]]
        BY <4>1
      <4> QED
        BY <4>2, <4>3
    <3> QED
      BY <1>7, <3>1, <3>2, <3>3, <3>4
  <2> HIDE DEF after
  <2>2. BusInv(after) /\ after.joypad = b.joypad
    BY <2>1, InterruptsWritten
  <2> QED
    BY <2>2 DEF after
<1>8. CASE place \notin {"div", "tima", "tma", "tac", "oam", "dma", "joypad", "serial",
                         "video", "if", "ie"}
  <2>1. after = b
    BY <1>8 DEF WriteUnclocked
  <2> HIDE DEF after
  <2>2. BusInv(after) /\ after.joypad = b.joypad
    BY <2>1
  <2> QED
    BY <2>2 DEF after
<1> QED
  BY <1>2, <1>3, <1>4, <1>5, <1>6, <1>7, <1>8

-----------------------------------------------------------------------------
(* The accesses of a step.                                                  *)

Steps(input) == [cpu : CpuState, bus : BusState, elapsed : Nat, input : {input}]

\* Wherever a step has come to: its bus is in order, with the buttons held.
OnTrack(s, input, state) ==
  s \in Steps(input) /\ BusInv(s.bus) /\ s.bus.joypad.state = state

LEMMA BusOnTrack ==
  ASSUME NEW input, NEW state, NEW s, OnTrack(s, input, state), NEW b,
         BusInv(b), b.joypad.state = state
  PROVE  /\ OnTrack([s EXCEPT !.bus = b], input, state)
         /\ [s EXCEPT !.bus = b].elapsed = s.elapsed /\ [s EXCEPT !.bus = b].cpu = s.cpu
<1>1. b \in BusState
  BY DEF BusInv
<1> QED
  BY <1>1 DEF OnTrack, Steps

LEMMA CpuOnTrack ==
  ASSUME NEW input, NEW state, NEW s, OnTrack(s, input, state), NEW c \in CpuState
  PROVE  /\ OnTrack([s EXCEPT !.cpu = c], input, state)
         /\ [s EXCEPT !.cpu = c].elapsed = s.elapsed /\ [s EXCEPT !.cpu = c].bus = s.bus
         /\ [s EXCEPT !.cpu = c].cpu = c
  BY DEF OnTrack, Steps

LEMMA TickKeeps ==
  ASSUME NEW input, NEW state, NEW s, OnTrack(s, input, state)
  PROVE  /\ OnTrack(Tick(s), input, state)
         /\ Tick(s).elapsed = s.elapsed + 1 /\ Tick(s).cpu = s.cpu
         /\ Tick(s).bus.irq.enable = s.bus.irq.enable
         /\ Tick(s).bus.dma.active => s.bus.dma.active
<1> DEFINE video == IF s.input.vblank = s.elapsed + 1 THEN {VBlank} ELSE {}
           b == TickBus(s.bus, video)
           e == s.elapsed + 1
<1>1. video \in SUBSET Interrupt
  BY MasksAreInterrupts
<1>2. BusInv(s.bus) /\ s.bus.joypad.state = state /\ e \in Nat
  BY DEF OnTrack, Steps
<1>3. Tick(s) = [s EXCEPT !.elapsed = e, !.bus = b]
  BY DEF Tick
<1> HIDE DEF video
<1>4. /\ BusInv(b) /\ b.joypad = s.bus.joypad
      /\ b.irq.enable = s.bus.irq.enable
      /\ b.dma.active => s.bus.dma.active
  BY <1>1, <1>2, TickBusKeeps
<1> HIDE DEF b, e
<1>5. b \in BusState
  BY <1>4 DEF BusInv
<1>6. Tick(s) \in Steps(input) /\ Tick(s).bus = b /\ Tick(s).elapsed = e /\ Tick(s).cpu = s.cpu
  BY <1>2, <1>3, <1>5 DEF OnTrack, Steps
<1>7. OnTrack(Tick(s), input, state)
  BY <1>2, <1>4, <1>6 DEF OnTrack
<1>8. Tick(s).elapsed = s.elapsed + 1
  BY <1>6 DEF e
<1> QED
  BY <1>4, <1>6, <1>7, <1>8

LEMMA Fetch8Keeps ==
  ASSUME NEW input, NEW state, NEW s, OnTrack(s, input, state)
  PROVE  /\ OnTrack(Fetch8(s), input, state)
         /\ Fetch8(s).elapsed = s.elapsed + 1
         /\ Fetch8(s).bus.irq.enable = s.bus.irq.enable
         /\ Fetch8(s).bus.dma.active => s.bus.dma.active
<1> DEFINE ticked == Tick(s)
           c == [s.cpu EXCEPT !.haltBug = FALSE]
<1>1. /\ OnTrack(ticked, input, state) /\ ticked.elapsed = s.elapsed + 1 /\ ticked.cpu = s.cpu
      /\ ticked.bus.irq.enable = s.bus.irq.enable
      /\ ticked.bus.dma.active => s.bus.dma.active
  BY TickKeeps
<1> HIDE DEF ticked
<1>2. c \in CpuState
  BY DEF OnTrack, Steps, CpuState
<1>3. Fetch8(s) = [ticked EXCEPT !.cpu = c]
  <2>1. Fetch8(s) = [ticked EXCEPT !.cpu = [@ EXCEPT !.haltBug = FALSE]]
    BY DEF Fetch8, ticked
  <2> QED
    BY <2>1, <1>1 DEF OnTrack, Steps
<1> HIDE DEF c
<1> QED
  BY <1>1, <1>2, <1>3, CpuOnTrack

LEMMA Write8Keeps ==
  ASSUME NEW input, NEW state, NEW s, OnTrack(s, input, state),
         NEW place, NEW value \in Stored(place)
  PROVE  /\ OnTrack(Write8(s, place, value), input, state)
         /\ Write8(s, place, value).elapsed = s.elapsed + 1
<1> DEFINE allowed == ~ s.bus.dma.active \/ place \in {"hram", "dma"}
           first == place \in {"div", "tima", "tma", "tac", "oam"}
           early == IF allowed /\ first
                    THEN [s EXCEPT !.bus = WriteUnclocked(s.bus, place, value)] ELSE s
           ticked == Tick(early)
           late == [ticked EXCEPT !.bus = WriteUnclocked(ticked.bus, place, value)]
<1>1. BusInv(s.bus) /\ s.bus.joypad.state = state
  BY DEF OnTrack
<1>2. OnTrack(early, input, state) /\ early.elapsed = s.elapsed
  <2>1. CASE allowed /\ first
    <3> DEFINE b == WriteUnclocked(s.bus, place, value)
    <3>1. BusInv(b) /\ b.joypad.state = state
      BY <1>1, <2>1, WriteUnclockedKeeps
    <3>2. early = [s EXCEPT !.bus = b]
      BY <2>1
    <3> HIDE DEF b, early
    <3> QED
      BY <3>1, <3>2, BusOnTrack
  <2>2. CASE ~ (allowed /\ first)
    BY <2>2
  <2> QED
    BY <2>1, <2>2
<1> HIDE DEF early
<1>3. OnTrack(ticked, input, state) /\ ticked.elapsed = s.elapsed + 1
  BY <1>2, TickKeeps
<1> HIDE DEF ticked
<1>4. CASE allowed /\ ~ first
  <2> DEFINE b == WriteUnclocked(ticked.bus, place, value)
  <2>1. BusInv(b) /\ b.joypad.state = state
    BY <1>3, <1>4, WriteUnclockedKeeps DEF OnTrack
  <2>2. Write8(s, place, value) = [ticked EXCEPT !.bus = b]
    BY <1>4 DEF Write8, ticked, early
  <2> HIDE DEF b
  <2> QED
    BY <1>3, <2>1, <2>2, BusOnTrack
<1>5. CASE ~ (allowed /\ ~ first)
  <2>1. Write8(s, place, value) = ticked
    BY <1>5 DEF Write8, ticked, early
  <2> QED
    BY <1>3, <2>1
<1> QED
  BY <1>4, <1>5

LEMMA AccessKeeps ==
  ASSUME NEW input, StepInput(input), NEW state, NEW s, OnTrack(s, input, state), NEW access
  PROVE  OnTrack(Access(s, access), input, state) /\ Access(s, access).elapsed = s.elapsed + 1
<1>1. ASSUME NEW n \in {1, 2}
      PROVE  OnTrack(Store(s, n), input, state) /\ Store(s, n).elapsed = s.elapsed + 1
  <2>1. s.input = input
    BY DEF OnTrack, Steps
  <2>2. input.stores[n][2] \in Stored(input.stores[n][1])
    BY DEF StepInput
  <2> QED
    BY <2>1, <2>2, Write8Keeps DEF Store
<1>2. CASE access = "fetch"
  BY <1>2, Fetch8Keeps DEF Access
<1>3. CASE access = "write"
  BY <1>3, <1>1 DEF Access
<1>4. CASE access = "write2"
  BY <1>4, <1>1 DEF Access
<1>5. CASE access \notin {"fetch", "write", "write2"}
  BY <1>5, TickKeeps DEF Access
<1> QED
  BY <1>2, <1>3, <1>4, <1>5

\* At most five accesses follow each other, each an M-cycle long.
After(s, accesses, i) == IF i \in DOMAIN accesses THEN Access(s, accesses[i]) ELSE s

LEMMA AfterKeeps ==
  ASSUME NEW input, StepInput(input), NEW state, NEW s, OnTrack(s, input, state),
         NEW accesses, NEW i
  PROVE  /\ OnTrack(After(s, accesses, i), input, state)
         /\ After(s, accesses, i).elapsed =
              IF i \in DOMAIN accesses THEN s.elapsed + 1 ELSE s.elapsed
<1>1. CASE i \in DOMAIN accesses
  BY <1>1, AccessKeeps DEF After
<1>2. CASE i \notin DOMAIN accesses
  BY <1>2 DEF After
<1> QED
  BY <1>1, <1>2

LEMMA PerformKeeps ==
  ASSUME NEW input, StepInput(input), NEW state, NEW s, OnTrack(s, input, state), NEW accesses
  PROVE  /\ OnTrack(Perform(s, accesses), input, state)
         /\ \A n \in 0 .. 5 : DOMAIN accesses = 1 .. n =>
                                Perform(s, accesses).elapsed = s.elapsed + n
<1> DEFINE s1 == After(s, accesses, 1)
           s2 == After(s1, accesses, 2)
           s3 == After(s2, accesses, 3)
           s4 == After(s3, accesses, 4)
           s5 == After(s4, accesses, 5)
           Passed(a, b, i) == b.elapsed = IF i \in DOMAIN accesses THEN a.elapsed + 1 ELSE a.elapsed
<1>1. OnTrack(s1, input, state) /\ Passed(s, s1, 1)
  BY AfterKeeps
<1> HIDE DEF s1
<1>2. OnTrack(s2, input, state) /\ Passed(s1, s2, 2)
  BY <1>1, AfterKeeps
<1> HIDE DEF s2
<1>3. OnTrack(s3, input, state) /\ Passed(s2, s3, 3)
  BY <1>2, AfterKeeps
<1> HIDE DEF s3
<1>4. OnTrack(s4, input, state) /\ Passed(s3, s4, 4)
  BY <1>3, AfterKeeps
<1> HIDE DEF s4
<1>5. OnTrack(s5, input, state) /\ Passed(s4, s5, 5)
  BY <1>4, AfterKeeps
<1> HIDE DEF s5
<1>6. Perform(s, accesses) = s5
  BY DEF Perform, After, s1, s2, s3, s4, s5
<1>7. s.elapsed \in Nat
  BY DEF OnTrack, Steps
<1>8. ASSUME NEW n \in 0 .. 5, DOMAIN accesses = 1 .. n PROVE s5.elapsed = s.elapsed + n
  <2>1. \A i \in 1 .. 5 : i \in DOMAIN accesses <=> i <= n
    BY <1>8
  <2>2. n \in {0, 1, 2, 3, 4, 5}
    OBVIOUS
  <2> QED
    BY <1>1, <1>2, <1>3, <1>4, <1>5, <1>7, <2>1, <2>2
<1> QED
  BY <1>5, <1>6, <1>8

-----------------------------------------------------------------------------
(* The steps of the processor.                                              *)

LEMMA PadToKeeps ==
  ASSUME NEW input, StepInput(input), NEW state, NEW s, OnTrack(s, input, state),
         NEW cycles \in Nat
  PROVE  /\ OnTrack(PadTo(s, cycles), input, state)
         /\ \A n \in 1 .. 6 : (cycles = 4 * n /\ s.elapsed \in 1 .. n) =>
                                PadTo(s, cycles).elapsed = n
<1> DEFINE idle == IF 4 * s.elapsed < cycles THEN Idle(cycles \div 4 - s.elapsed) ELSE <<>>
<1>1. PadTo(s, cycles) = Perform(s, idle)
  BY DEF PadTo
<1>2. ASSUME NEW n \in 1 .. 6, cycles = 4 * n, s.elapsed \in 1 .. n
      PROVE  n - s.elapsed \in 0 .. 5 /\ DOMAIN idle = 1 .. n - s.elapsed
  <2>1. cycles \div 4 = n /\ n - s.elapsed \in 0 .. 5
    BY <1>2
  <2>2. CASE 4 * s.elapsed < cycles
    BY <2>1, <2>2 DEF Idle
  <2>3. CASE ~ (4 * s.elapsed < cycles)
    <3>1. n - s.elapsed = 0
      BY <1>2, <2>3
    <3>2. idle = <<>> /\ DOMAIN <<>> = 1 .. 0
      BY <2>3
    <3> QED
      BY <3>1, <3>2, <2>1
  <2> QED
    BY <2>1, <2>2, <2>3
<1> HIDE DEF idle
<1>3. /\ OnTrack(Perform(s, idle), input, state)
      /\ \A k \in 0 .. 5 : DOMAIN idle = 1 .. k => Perform(s, idle).elapsed = s.elapsed + k
  BY PerformKeeps
<1>4. ASSUME NEW n \in 1 .. 6, cycles = 4 * n, s.elapsed \in 1 .. n
      PROVE  Perform(s, idle).elapsed = n
  <2> DEFINE k == n - s.elapsed
  <2>1. k \in 0 .. 5 /\ s.elapsed + k = n
    BY <1>4
  <2>2. DOMAIN idle = 1 .. k
    BY <1>2, <1>4
  <2> HIDE DEF k
  <2>3. Perform(s, idle).elapsed = s.elapsed + k
    BY <2>1, <2>2, <1>3
  <2> QED
    BY <2>1, <2>3
<1> QED
  BY <1>1, <1>3, <1>4

LEMMA ControlKeeps ==
  ASSUME NEW input, NEW state, NEW s, OnTrack(s, input, state), NEW op
  PROVE  OnTrack(Control(s, op), input, state) /\ Control(s, op).elapsed = s.elapsed
<1>0. /\ HaltCode # StopCode /\ HaltCode # EiCode /\ HaltCode # DiCode /\ HaltCode # RetiCode
      /\ StopCode # EiCode /\ StopCode # DiCode /\ StopCode # RetiCode
      /\ EiCode # DiCode /\ EiCode # RetiCode /\ DiCode # RetiCode
  BY DEF HaltCode, StopCode, EiCode, DiCode, RetiCode
<1>1. s.cpu \in CpuState /\ BusInv(s.bus) /\ s.bus.joypad.state = state /\ s \in Steps(input)
  BY DEF OnTrack, Steps
<1>2. ASSUME NEW r, NEW c \in CpuState, r = [s EXCEPT !.cpu = c]
      PROVE  OnTrack(r, input, state) /\ r.elapsed = s.elapsed
  BY <1>2, CpuOnTrack
<1>3. /\ "Halted" \in Mode /\ "Stopped" \in Mode /\ "Running" \in Mode
      /\ 2 \in 0 .. 2 /\ 0 \in 0 .. 2
  BY DEF Mode
<1>4. CASE op = HaltCode
  <2>1. Control(s, op) = Halt(s)
    BY <1>0, <1>4 DEF Control
  <2>2. [s.cpu EXCEPT !.haltBug = TRUE] \in CpuState /\ [s.cpu EXCEPT !.mode = "Halted"] \in CpuState
    BY <1>1, <1>3 DEF CpuState
  <2>3. \/ Halt(s) = [s EXCEPT !.cpu = [s.cpu EXCEPT !.haltBug = TRUE]]
        \/ Halt(s) = [s EXCEPT !.cpu = [s.cpu EXCEPT !.mode = "Halted"]]
    BY DEF Halt
  <2> QED
    BY <2>1, <2>2, <2>3, <1>2
<1>5. CASE op = StopCode
  <2> DEFINE b == ResetDivider(s.bus)
             c == [s.cpu EXCEPT !.mode = "Stopped"]
  <2>1. Control(s, op) = [s EXCEPT !.bus = b, !.cpu = c]
    <3>1. Control(s, op) = [s EXCEPT !.bus = b, !.cpu.mode = "Stopped"]
      BY <1>0, <1>5 DEF Control
    <3> QED
      BY <3>1
  <2>2. BusInv(b) /\ b.joypad.state = state
    BY <1>1, ResetDividerKeeps
  <2>3. c \in CpuState
    BY <1>1, <1>3 DEF CpuState
  <2> HIDE DEF b, c
  <2>4. OnTrack([s EXCEPT !.bus = b], input, state) /\ [s EXCEPT !.bus = b].elapsed = s.elapsed
    BY <2>2, BusOnTrack
  <2> DEFINE r == [s EXCEPT !.bus = b]
  <2>5. Control(s, op) = [r EXCEPT !.cpu = c]
    BY <2>1
  <2>6. OnTrack(r, input, state) /\ r.elapsed = s.elapsed
    BY <2>4
  <2> HIDE DEF r
  <2> QED
    BY <2>3, <2>5, <2>6, CpuOnTrack
<1>6. CASE op = EiCode
  <2> DEFINE delay == IF s.cpu.delay = 0 THEN 2 ELSE s.cpu.delay
  <2>1. Control(s, op) = [s EXCEPT !.cpu = [s.cpu EXCEPT !.delay = delay]]
    BY <1>0, <1>6 DEF Control
  <2>2. [s.cpu EXCEPT !.delay = delay] \in CpuState
    BY <1>1, <1>3 DEF CpuState
  <2> QED
    BY <2>1, <2>2, <1>2
<1>7. CASE op = DiCode
  <2> DEFINE c == [s.cpu EXCEPT !.ime = FALSE, !.delay = 0]
  <2>1. Control(s, op) = [s EXCEPT !.cpu = c]
    BY <1>0, <1>7 DEF Control
  <2>2. c \in CpuState
    BY <1>1, <1>3 DEF CpuState
  <2> QED
    BY <2>1, <2>2, <1>2
<1>8. CASE op = RetiCode
  <2> DEFINE c == [s.cpu EXCEPT !.ime = TRUE, !.delay = 0]
  <2>1. Control(s, op) = [s EXCEPT !.cpu = c]
    BY <1>0, <1>8 DEF Control
  <2>2. c \in CpuState
    BY <1>1, <1>3 DEF CpuState
  <2> QED
    BY <2>1, <2>2, <1>2
<1>9. CASE op \notin {HaltCode, StopCode, EiCode, DiCode, RetiCode}
  BY <1>9 DEF Control
<1> QED
  BY <1>4, <1>5, <1>6, <1>7, <1>8, <1>9

-----------------------------------------------------------------------------
(* The instructions fit the cycles that the decoder promises.               *)

LEMMA FieldsOf ==
  ASSUME NEW op \in Byte
  PROVE  X(op) \in 0 .. 3 /\ Y(op) \in 0 .. 7 /\ Z(op) \in 0 .. 7
         /\ op = 64 * X(op) + 8 * Y(op) + Z(op)
  BY Z3 DEF Byte, X, Y, Z

\* A list of k accesses.
AccessKind == {"fetch", "read", "write", "write2"}

Short(accesses, k) == accesses \in Seq(AccessKind) /\ Len(accesses) = k

LEMMA ShortLists ==
  /\ Short(<<>>, 0)
  /\ \A n \in 1 .. 2 : Short(Fetch(n), n) /\ Short(Read(n), n) /\ Short(Write(n), n)
<1>1. Short(<<>>, 0)
  BY DEF Short
<1>2. ASSUME NEW n \in 1 .. 2 PROVE Short(Fetch(n), n) /\ Short(Read(n), n) /\ Short(Write(n), n)
  <2>1. Fetch(n) \in [1 .. n -> AccessKind] /\ Read(n) \in [1 .. n -> AccessKind]
        /\ Write(n) \in [1 .. n -> AccessKind]
    BY DEF Fetch, Read, Write, AccessKind
  <2>2. ASSUME NEW f \in [1 .. n -> AccessKind] PROVE Short(f, n)
    BY DEF Short
  <2> QED
    BY <2>1, <2>2
<1> QED
  BY <1>1, <1>2

LEMMA ShortJoined ==
  ASSUME NEW j \in Nat, NEW k \in Nat, NEW s, NEW t, Short(s, j), Short(t, k)
  PROVE  Short(s \o t, j + k)
  BY DEF Short

LEMMA ShortDomain ==
  ASSUME NEW k \in Nat, NEW s, Short(s, k)
  PROVE  DOMAIN s = 1 .. k
  BY DEF Short

\* Fewer accesses than M-cycles, the first of which fetches the opcode.
Fits(accesses, cycles) ==
  \E n \in 1 .. 6, k \in 0 .. 5 : cycles = 4 * n /\ k < n /\ Short(accesses, k)

LEMMA FitsIs ==
  ASSUME NEW n \in 1 .. 6, NEW k \in 0 .. 5, k < n, NEW accesses, Short(accesses, k),
         NEW cycles, cycles = 4 * n
  PROVE  Fits(accesses, cycles)
  BY DEF Fits

\* The lists of accesses that the instructions have.
LEMMA ShortSequences ==
  /\ Short(<<>>, 0) /\ Short(Fetch(1), 1) /\ Short(Fetch(2), 2) /\ Short(Read(1), 1)
  /\ Short(Read(2), 2) /\ Short(Write(1), 1) /\ Short(Write(2), 2)
  /\ Short(Read(1) \o Write(1), 2) /\ Short(Read(1) \o <<>>, 1) /\ Short(<<>> \o Write(1), 1)
  /\ Short(<<>> \o <<>>, 0) /\ Short(Fetch(1) \o Write(1), 2) /\ Short(Fetch(1) \o Read(1), 2)
  /\ Short(Fetch(2) \o Write(1), 3) /\ Short(Fetch(2) \o Read(1), 3)
  /\ Short(Fetch(2) \o Write(2), 4) /\ Short(Fetch(2) \o <<>>, 2)
<1>1. /\ Short(<<>>, 0) /\ Short(Fetch(1), 1) /\ Short(Fetch(2), 2) /\ Short(Read(1), 1)
      /\ Short(Read(2), 2) /\ Short(Write(1), 1) /\ Short(Write(2), 2)
  BY ShortLists
<1>2. ASSUME NEW j \in Nat, NEW k \in Nat, NEW m, m = j + k, NEW s, NEW t, Short(s, j), Short(t, k)
      PROVE  Short(s \o t, m)
  BY <1>2, ShortJoined
<1> QED
  BY <1>1, <1>2

LEMMA FirstQuarterFits ==
  ASSUME NEW op \in Byte, X(op) = 0, NEW i \in {2, 3}
  PROVE  Fits(LoadAccesses(op), FirstQuarter(op)[i])
<1>1. Y(op) \in 0 .. 7 /\ Z(op) \in 0 .. 7
  BY FieldsOf
<1> DEFINE accesses == LoadAccesses(op)
           cycles == FirstQuarter(op)[i]
<1>2. CASE Z(op) = 0
  <2>1. CASE Y(op) \in {0, 2}
    <3>1. accesses = <<>> /\ cycles = 4 * 1
      BY <1>2, <2>1 DEF LoadAccesses, FirstQuarter
    <3> QED
      BY <3>1, ShortSequences, FitsIs
  <2>2. CASE Y(op) = 1
    <3>1. accesses = Fetch(2) \o Write(2) /\ cycles = 4 * 5
      BY <1>2, <2>2 DEF LoadAccesses, FirstQuarter
    <3> QED
      BY <3>1, ShortSequences, FitsIs
  <2>3. CASE Y(op) > 2
    <3>1. accesses = Fetch(1) /\ cycles \in {4 * 2, 4 * 3}
      BY <1>1, <1>2, <2>3 DEF LoadAccesses, FirstQuarter
    <3> QED
      BY <3>1, ShortSequences, FitsIs
  <2> QED
    BY <1>1, <2>1, <2>2, <2>3
<1>3. CASE Z(op) = 1
  <2>1. \/ accesses = Fetch(2) /\ cycles = 4 * 3
        \/ accesses = <<>> /\ cycles = 4 * 2
    BY <1>3 DEF LoadAccesses, FirstQuarter
  <2> QED
    BY <2>1, ShortSequences, FitsIs
<1>4. CASE Z(op) = 2
  <2>1. accesses \in {Write(1), Read(1)} /\ cycles = 4 * 2
    BY <1>4 DEF LoadAccesses, FirstQuarter
  <2> QED
    BY <2>1, ShortSequences, FitsIs
<1>5. CASE Z(op) = 3
  <2>1. accesses = <<>> /\ cycles = 4 * 2
    BY <1>5 DEF LoadAccesses, FirstQuarter
  <2> QED
    BY <2>1, ShortSequences, FitsIs
<1>6. CASE Z(op) \in {4, 5}
  <2>1. CASE Y(op) = 6
    <3>1. accesses = Read(1) \o Write(1) /\ cycles = 4 * 3
      BY <1>6, <2>1 DEF LoadAccesses, FirstQuarter, Operand
    <3> QED
      BY <3>1, ShortSequences, FitsIs
  <2>2. CASE Y(op) # 6
    <3>1. accesses = <<>> /\ cycles = 4 * 1
      BY <1>6, <2>2 DEF LoadAccesses, FirstQuarter, Operand
    <3> QED
      BY <3>1, ShortSequences, FitsIs
  <2> QED
    BY <2>1, <2>2
<1>7. CASE Z(op) = 6
  <2>1. CASE Y(op) = 6
    <3>1. accesses = Fetch(1) \o Write(1) /\ cycles = 4 * 3
      BY <1>7, <2>1 DEF LoadAccesses, FirstQuarter, Operand
    <3> QED
      BY <3>1, ShortSequences, FitsIs
  <2>2. CASE Y(op) # 6
    <3>1. accesses = Fetch(1) \o <<>> /\ cycles = 4 * 2
      BY <1>7, <2>2 DEF LoadAccesses, FirstQuarter, Operand
    <3> QED
      BY <3>1, ShortSequences, FitsIs
  <2> QED
    BY <2>1, <2>2
<1>8. CASE Z(op) = 7
  <2>1. accesses = <<>> /\ cycles = 4 * 1
    BY <1>8 DEF LoadAccesses, FirstQuarter
  <2> QED
    BY <2>1, ShortSequences, FitsIs
<1> QED
  BY <1>1, <1>2, <1>3, <1>4, <1>5, <1>6, <1>7, <1>8

LEMMA MiddleHalfFits ==
  ASSUME NEW op \in Byte, X(op) \in {1, 2}, NEW i \in {2, 3}
  PROVE  Fits(RegisterAccesses(op), MiddleHalf(op)[i])
<1> DEFINE accesses == RegisterAccesses(op)
           cycles == MiddleHalf(op)[i]
<1>1. X(op) = 1 /\ Y(op) = 6 /\ Z(op) = 6 => op = HaltCode
  BY FieldsOf DEF HaltCode
<1>2. CASE op = HaltCode
  <2>1. accesses = <<>> /\ cycles = 4 * 1
    BY <1>2 DEF RegisterAccesses, MiddleHalf
  <2> QED
    BY <2>1, ShortSequences, FitsIs
<1>3. CASE op # HaltCode /\ Z(op) = 6
  <2>1. X(op) # 1 \/ Y(op) # 6
    BY <1>1, <1>3
  <2>2. accesses = Read(1) \o <<>>
    BY <1>3, <2>1 DEF RegisterAccesses, Operand
  <2>3. cycles = 4 * 2
    BY <1>3 DEF MiddleHalf
  <2> QED
    BY <2>2, <2>3, ShortSequences, FitsIs
<1>4. CASE op # HaltCode /\ Z(op) # 6 /\ X(op) = 1 /\ Y(op) = 6
  <2>1. accesses = <<>> \o Write(1) /\ cycles = 4 * 2
    BY <1>4 DEF RegisterAccesses, MiddleHalf, Operand
  <2> QED
    BY <2>1, ShortSequences, FitsIs
<1>5. CASE op # HaltCode /\ Z(op) # 6 /\ ~ (X(op) = 1 /\ Y(op) = 6)
  <2>1. accesses = <<>> \o <<>> /\ cycles = 4 * 1
    BY <1>5 DEF RegisterAccesses, MiddleHalf, Operand
  <2> QED
    BY <2>1, ShortSequences, FitsIs
<1> QED
  BY <1>2, <1>3, <1>4, <1>5

LEMMA LastQuarterFits ==
  ASSUME NEW op \in Byte, X(op) = 3, NEW taken \in BOOLEAN
  PROVE  Fits(ControlAccesses(op, taken), LastQuarter(op)[IF taken THEN 2 ELSE 3])
<1>1. Y(op) \in 0 .. 7 /\ Z(op) \in 0 .. 7
  BY FieldsOf
<1> DEFINE accesses == ControlAccesses(op, taken)
           cycles == LastQuarter(op)[IF taken THEN 2 ELSE 3]
<1>2. CASE Z(op) = 0
  <2>1. CASE Y(op) < 4
    <3>1. CASE taken
      <4>1. accesses = Read(2) /\ cycles = 4 * 5
        BY <1>2, <2>1, <3>1 DEF ControlAccesses, LastQuarter
      <4> QED
        BY <4>1, ShortSequences, FitsIs
    <3>2. CASE ~ taken
      <4>1. accesses = <<>> /\ cycles = 4 * 2
        BY <1>2, <2>1, <3>2 DEF ControlAccesses, LastQuarter
      <4> QED
        BY <4>1, ShortSequences, FitsIs
    <3> QED
      BY <3>1, <3>2
  <2>2. CASE Y(op) = 4
    <3>1. accesses = Fetch(1) \o Write(1) /\ cycles = 4 * 3
      BY <1>2, <2>2 DEF ControlAccesses, LastQuarter
    <3> QED
      BY <3>1, ShortSequences, FitsIs
  <2>3. CASE Y(op) = 5
    <3>1. accesses = Fetch(1) /\ cycles = 4 * 4
      BY <1>2, <2>3 DEF ControlAccesses, LastQuarter
    <3> QED
      BY <3>1, ShortSequences, FitsIs
  <2>4. CASE Y(op) = 6
    <3>1. accesses = Fetch(1) \o Read(1) /\ cycles = 4 * 3
      BY <1>2, <2>4 DEF ControlAccesses, LastQuarter
    <3> QED
      BY <3>1, ShortSequences, FitsIs
  <2>5. CASE Y(op) = 7
    <3>1. accesses = Fetch(1) /\ cycles = 4 * 3
      BY <1>2, <2>5 DEF ControlAccesses, LastQuarter
    <3> QED
      BY <3>1, ShortSequences, FitsIs
  <2> QED
    BY <1>1, <2>1, <2>2, <2>3, <2>4, <2>5
<1>3. CASE Z(op) = 1
  <2>1. CASE Q(op) = 0
    <3>1. accesses = Read(2) /\ cycles = 4 * 3
      BY <1>3, <2>1 DEF ControlAccesses, LastQuarter
    <3> QED
      BY <3>1, ShortSequences, FitsIs
  <2>2. CASE Q(op) = 1 /\ P(op) < 2
    <3>1. accesses = Read(2) /\ cycles = 4 * 4
      BY <1>3, <2>2 DEF ControlAccesses, LastQuarter
    <3> QED
      BY <3>1, ShortSequences, FitsIs
  <2>3. CASE Q(op) = 1 /\ ~ P(op) < 2
    <3>1. CASE P(op) = 2
      <4>1. accesses = <<>> /\ cycles = 4 * 1
        BY <1>3, <2>3, <3>1 DEF ControlAccesses, LastQuarter
      <4> QED
        BY <4>1, ShortSequences, FitsIs
    <3>2. CASE P(op) # 2
      <4>1. accesses = <<>> /\ cycles = 4 * 2
        BY <1>3, <2>3, <3>2 DEF ControlAccesses, LastQuarter
      <4> QED
        BY <4>1, ShortSequences, FitsIs
    <3> QED
      BY <3>1, <3>2
  <2> QED
    BY <1>1, <2>1, <2>2, <2>3, Z3 DEF Q
<1>4. CASE Z(op) = 2
  <2>1. CASE Y(op) < 4
    <3>1. accesses = Fetch(2) /\ cycles \in {4 * 3, 4 * 4}
      BY <1>4, <2>1 DEF ControlAccesses, LastQuarter
    <3> QED
      BY <3>1, ShortSequences, FitsIs
  <2>2. CASE Y(op) = 4
    <3>1. accesses = Write(1) /\ cycles = 4 * 2
      BY <1>4, <2>2 DEF ControlAccesses, LastQuarter
    <3> QED
      BY <3>1, ShortSequences, FitsIs
  <2>3. CASE Y(op) = 5
    <3>1. accesses = Fetch(2) \o Write(1) /\ cycles = 4 * 4
      BY <1>4, <2>3 DEF ControlAccesses, LastQuarter
    <3> QED
      BY <3>1, ShortSequences, FitsIs
  <2>4. CASE Y(op) = 6
    <3>1. accesses = Read(1) /\ cycles = 4 * 2
      BY <1>4, <2>4 DEF ControlAccesses, LastQuarter
    <3> QED
      BY <3>1, ShortSequences, FitsIs
  <2>5. CASE Y(op) = 7
    <3>1. accesses = Fetch(2) \o Read(1) /\ cycles = 4 * 4
      BY <1>4, <2>5 DEF ControlAccesses, LastQuarter
    <3> QED
      BY <3>1, ShortSequences, FitsIs
  <2> QED
    BY <1>1, <2>1, <2>2, <2>3, <2>4, <2>5
<1>5. CASE Z(op) = 3
  <2>1. CASE Y(op) = 0
    <3>1. accesses = Fetch(2) /\ cycles = 4 * 4
      BY <1>5, <2>1 DEF ControlAccesses, LastQuarter
    <3> QED
      BY <3>1, ShortSequences, FitsIs
  <2>2. CASE Y(op) # 0
    <3>1. accesses = <<>> /\ cycles \in {4 * 1, 4 * 2}
      BY <1>5, <2>2 DEF ControlAccesses, LastQuarter
    <3> QED
      BY <3>1, ShortSequences, FitsIs
  <2> QED
    BY <2>1, <2>2
<1>6. CASE Z(op) = 4
  <2>1. CASE taken
    <3>1. accesses = Fetch(2) \o Write(2) /\ cycles = 4 * 6
      BY <1>6, <2>1 DEF ControlAccesses, LastQuarter
    <3> QED
      BY <3>1, ShortSequences, FitsIs
  <2>2. CASE ~ taken
    <3>1. accesses = Fetch(2) \o <<>> /\ cycles = 4 * 3
      BY <1>6, <2>2 DEF ControlAccesses, LastQuarter
    <3> QED
      BY <3>1, ShortSequences, FitsIs
  <2> QED
    BY <2>1, <2>2
<1>7. CASE Z(op) = 5
  <2>1. CASE Q(op) = 0
    <3>1. accesses = Write(2) /\ cycles = 4 * 4
      BY <1>7, <2>1 DEF ControlAccesses, LastQuarter
    <3> QED
      BY <3>1, ShortSequences, FitsIs
  <2>2. CASE Q(op) # 0 /\ P(op) = 0
    <3>1. accesses = Fetch(2) \o Write(2) /\ cycles = 4 * 6
      BY <1>7, <2>2 DEF ControlAccesses, LastQuarter
    <3> QED
      BY <3>1, ShortSequences, FitsIs
  <2>3. CASE Q(op) # 0 /\ P(op) # 0
    <3>1. accesses = <<>> /\ cycles = 4 * 6
      BY <1>7, <2>3 DEF ControlAccesses, LastQuarter
    <3> QED
      BY <3>1, ShortSequences, FitsIs
  <2> QED
    BY <2>1, <2>2, <2>3
<1>8. CASE Z(op) = 6
  <2>1. accesses = Fetch(1) /\ cycles = 4 * 2
    BY <1>8 DEF ControlAccesses, LastQuarter
  <2> QED
    BY <2>1, ShortSequences, FitsIs
<1>9. CASE Z(op) = 7
  <2>1. accesses = Write(2) /\ cycles = 4 * 4
    BY <1>9 DEF ControlAccesses, LastQuarter
  <2> QED
    BY <2>1, ShortSequences, FitsIs
<1> QED
  BY <1>1, <1>2, <1>3, <1>4, <1>5, <1>6, <1>7, <1>8, <1>9

\* Every instruction, whether it branches or not.
LEMMA InstructionFits ==
  ASSUME NEW op \in Byte, NEW taken \in BOOLEAN
  PROVE  Fits(Accesses(op, taken), Cycles(op, taken))
<1> DEFINE i == IF taken THEN 2 ELSE 3
<1>1. X(op) \in 0 .. 3 /\ i \in {2, 3}
  BY FieldsOf
<1>2. Cycles(op, taken) = BaseMetadata(op)[i]
  BY DEF Cycles
<1>3. CASE X(op) = 0
  <2>1. Accesses(op, taken) = LoadAccesses(op) /\ BaseMetadata(op) = FirstQuarter(op)
    BY <1>3 DEF Accesses, BaseMetadata
  <2> HIDE DEF i
  <2> QED
    BY <1>1, <1>2, <1>3, <2>1, FirstQuarterFits
<1>4. CASE X(op) \in {1, 2}
  <2>1. Accesses(op, taken) = RegisterAccesses(op) /\ BaseMetadata(op) = MiddleHalf(op)
    BY <1>4 DEF Accesses, BaseMetadata
  <2> HIDE DEF i
  <2> QED
    BY <1>1, <1>2, <1>4, <2>1, MiddleHalfFits
<1>5. CASE X(op) = 3
  <2>1. Accesses(op, taken) = ControlAccesses(op, taken) /\ BaseMetadata(op) = LastQuarter(op)
    BY <1>5 DEF Accesses, BaseMetadata
  <2> QED
    BY <1>2, <1>5, <2>1, LastQuarterFits
<1> QED
  BY <1>1, <1>3, <1>4, <1>5

LEMMA PrefixedFitsItsCycles ==
  ASSUME NEW op \in Byte
  PROVE  \E n \in 2 .. 6, k \in 0 .. 4 :
           PrefixedCycles(op) = 4 * n /\ k + 1 < n /\ Short(PrefixedAccesses(op), k)
<1>1. CASE Z(op) # 6
  <2>1. PrefixedCycles(op) = 4 * 2 /\ PrefixedAccesses(op) = <<>> \o <<>>
    BY <1>1 DEF PrefixedCycles, PrefixedAccesses, Operand
  <2> QED
    BY <2>1, ShortSequences
<1>2. CASE Z(op) = 6 /\ X(op) = 1
  <2>1. PrefixedCycles(op) = 4 * 3 /\ PrefixedAccesses(op) = Read(1) \o <<>>
    BY <1>2 DEF PrefixedCycles, PrefixedAccesses, Operand
  <2> QED
    BY <2>1, ShortSequences
<1>3. CASE Z(op) = 6 /\ X(op) # 1
  <2>1. PrefixedCycles(op) = 4 * 4 /\ PrefixedAccesses(op) = Read(1) \o Write(1)
    BY <1>3 DEF PrefixedCycles, PrefixedAccesses, Operand
  <2> QED
    BY <2>1, ShortSequences
<1> QED
  BY <1>1, <1>2, <1>3

\* The prediction holds a branch for taken exactly if the interpreter takes it.
LEMMA ConditionIs ==
  ASSUME NEW flags
  PROVE  /\ Condition(0, flags) = ("Z" \notin flags) /\ Condition(1, flags) = ("Z" \in flags)
         /\ Condition(2, flags) = ("C" \notin flags) /\ Condition(3, flags) = ("C" \in flags)
<1>1. 0 # 1 /\ 0 # 2 /\ 1 # 2 /\ 3 # 0 /\ 3 # 1 /\ 3 # 2 /\ 1 # 0 /\ 2 # 0 /\ 2 # 1
  OBVIOUS
<1>2. Condition(0, flags) = ("Z" \notin flags)
  BY <1>1, Zenon DEF Condition
<1>3. Condition(1, flags) = ("Z" \in flags)
  BY <1>1, Zenon DEF Condition
<1>4. Condition(2, flags) = ("C" \notin flags)
  BY <1>1, Zenon DEF Condition
<1>5. Condition(3, flags) = ("C" \in flags)
  BY <1>1, Zenon DEF Condition
<1> QED
  BY <1>2, <1>3, <1>4, <1>5

LEMMA TakenIs ==
  ASSUME NEW op \in Byte, NEW flags
  PROVE  /\ X(op) = 0 /\ Z(op) = 0 /\ Y(op) > 3 => Taken(op, flags) = Condition(Y(op) - 4, flags)
         /\ X(op) = 3 /\ Z(op) \in {0, 2} /\ Y(op) < 4 => Taken(op, flags) = Condition(Y(op), flags)
         /\ X(op) = 3 /\ Z(op) = 4 => Taken(op, flags) = Condition(Y(op), flags)
         /\ (/\ ~ (X(op) = 0 /\ Z(op) = 0 /\ Y(op) > 3)
             /\ ~ (X(op) = 3 /\ Z(op) \in {0, 2} /\ Y(op) < 4)
             /\ ~ (X(op) = 3 /\ Z(op) = 4)) => Taken(op, flags) = TRUE
<1>1. 0 # 3 /\ 0 # 2 /\ 0 # 4 /\ 2 # 4 /\ 3 # 0 /\ 2 # 0 /\ 4 # 0 /\ 4 # 2
  OBVIOUS
<1>2. ASSUME X(op) = 0, Z(op) = 0, Y(op) > 3 PROVE Taken(op, flags) = Condition(Y(op) - 4, flags)
  BY <1>1, <1>2, Zenon DEF Taken
<1>3. ASSUME X(op) = 3, Z(op) = 0, Y(op) < 4 PROVE Taken(op, flags) = Condition(Y(op), flags)
  BY <1>1, <1>3, Zenon DEF Taken
<1>4. ASSUME X(op) = 3, Z(op) = 2, Y(op) < 4 PROVE Taken(op, flags) = Condition(Y(op), flags)
  BY <1>1, <1>4, Zenon DEF Taken
<1>5. ASSUME X(op) = 3, Z(op) = 4 PROVE Taken(op, flags) = Condition(Y(op), flags)
  BY <1>1, <1>5, Zenon DEF Taken
<1>6. ASSUME ~ (X(op) = 0 /\ Z(op) = 0 /\ Y(op) > 3), ~ (X(op) = 3 /\ Z(op) = 0 /\ Y(op) < 4),
             ~ (X(op) = 3 /\ Z(op) = 2 /\ Y(op) < 4), ~ (X(op) = 3 /\ Z(op) = 4)
      PROVE  Taken(op, flags) = TRUE
  BY <1>6, Zenon DEF Taken
<1> QED
  BY <1>2, <1>3, <1>4, <1>5, <1>6, Zenon

\* The branches on each condition.
OnNotZero == {32, 192, 194, 196}
OnZero == {40, 200, 202, 204}
OnNotCarry == {48, 208, 210, 212}
OnCarry == {56, 216, 218, 220}

LEMMA BranchTakenIs ==
  ASSUME NEW op, NEW flags
  PROVE  /\ op \in OnNotZero => BranchTaken(op, flags) = ("Z" \notin flags)
         /\ op \in OnZero => BranchTaken(op, flags) = ("Z" \in flags)
         /\ op \in OnNotCarry => BranchTaken(op, flags) = ("C" \notin flags)
         /\ op \in OnCarry => BranchTaken(op, flags) = ("C" \in flags)
         /\ (/\ op \notin OnNotZero /\ op \notin OnZero
             /\ op \notin OnNotCarry /\ op \notin OnCarry) => BranchTaken(op, flags) = TRUE
<1>1. BranchTaken(op, flags) = CASE op \in OnNotZero -> "Z" \notin flags
                                 [] op \in OnZero -> "Z" \in flags
                                 [] op \in OnNotCarry -> "C" \notin flags
                                 [] op \in OnCarry -> "C" \in flags
                                 [] OTHER -> TRUE
  BY DEF BranchTaken, OnNotZero, OnZero, OnNotCarry, OnCarry
<1>2. /\ op \in OnNotZero => op \notin OnZero /\ op \notin OnNotCarry /\ op \notin OnCarry
      /\ op \in OnZero => op \notin OnNotZero /\ op \notin OnNotCarry /\ op \notin OnCarry
      /\ op \in OnNotCarry => op \notin OnZero /\ op \notin OnNotZero /\ op \notin OnCarry
      /\ op \in OnCarry => op \notin OnZero /\ op \notin OnNotCarry /\ op \notin OnNotZero
  BY DEF OnNotZero, OnZero, OnNotCarry, OnCarry
<1>3. op \in OnNotZero => BranchTaken(op, flags) = ("Z" \notin flags)
  BY <1>1, <1>2, Zenon
<1>4. op \in OnZero => BranchTaken(op, flags) = ("Z" \in flags)
  BY <1>1, <1>2, Zenon
<1>5. op \in OnNotCarry => BranchTaken(op, flags) = ("C" \notin flags)
  BY <1>1, <1>2, Zenon
<1>6. op \in OnCarry => BranchTaken(op, flags) = ("C" \in flags)
  BY <1>1, <1>2, Zenon
<1>7. (/\ op \notin OnNotZero /\ op \notin OnZero
       /\ op \notin OnNotCarry /\ op \notin OnCarry) => BranchTaken(op, flags) = TRUE
  BY <1>1, Zenon
<1> QED
  BY <1>3, <1>4, <1>5, <1>6, <1>7, Zenon

LEMMA BranchIsTaken ==
  ASSUME NEW op \in Byte \ Illegal, NEW flags
  PROVE  BranchTaken(op, flags) = Taken(op, flags) /\ Taken(op, flags) \in BOOLEAN
<1>1. /\ X(op) \in 0 .. 3 /\ Y(op) \in 0 .. 7 /\ Z(op) \in 0 .. 7
      /\ op = 64 * X(op) + 8 * Y(op) + Z(op) /\ op \in Byte
  BY FieldsOf
<1>2. ASSUME NEW code \in 0 .. 3,
             \/ X(op) = 0 /\ Z(op) = 0 /\ Y(op) = code + 4
             \/ X(op) = 3 /\ Z(op) \in {0, 2, 4} /\ Y(op) = code
      PROVE  Taken(op, flags) = Condition(code, flags)
  <2>1. CASE X(op) = 0 /\ Z(op) = 0 /\ Y(op) = code + 4
    <3>1. Y(op) > 3 /\ Y(op) - 4 = code
      BY <2>1
    <3> QED
      BY <1>1, <2>1, <3>1, TakenIs
  <2>2. CASE X(op) = 3 /\ Z(op) \in {0, 2, 4} /\ Y(op) = code
    <3>1. Y(op) < 4
      BY <2>2
    <3> QED
      BY <1>1, <2>2, <3>1, TakenIs
  <2> QED
    BY <1>2, <2>1, <2>2
<1>3. CASE op \in OnNotZero
  <2>1. \/ X(op) = 0 /\ Z(op) = 0 /\ Y(op) = 0 + 4
        \/ X(op) = 3 /\ Z(op) \in {0, 2, 4} /\ Y(op) = 0
    BY <1>1, <1>3 DEF OnNotZero
  <2>2. 0 \in 0 .. 3
    OBVIOUS
  <2>3. Taken(op, flags) = Condition(0, flags)
    BY <2>1, <2>2, <1>2, Zenon
  <2>4. BranchTaken(op, flags) = ("Z" \notin flags)
    BY <1>1, <1>3, BranchTakenIs, Zenon
  <2> QED
    BY <2>3, <2>4, ConditionIs, Zenon
<1>4. CASE op \in OnZero
  <2>1. \/ X(op) = 0 /\ Z(op) = 0 /\ Y(op) = 1 + 4
        \/ X(op) = 3 /\ Z(op) \in {0, 2, 4} /\ Y(op) = 1
    BY <1>1, <1>4 DEF OnZero
  <2>2. 1 \in 0 .. 3
    OBVIOUS
  <2>3. Taken(op, flags) = Condition(1, flags)
    BY <2>1, <2>2, <1>2, Zenon
  <2>4. BranchTaken(op, flags) = ("Z" \in flags)
    BY <1>1, <1>4, BranchTakenIs, Zenon
  <2>5. ("Z" \in flags) \in BOOLEAN
    OBVIOUS
  <2> QED
    BY <2>3, <2>4, <2>5, ConditionIs, Zenon
<1>5. CASE op \in OnNotCarry
  <2>1. \/ X(op) = 0 /\ Z(op) = 0 /\ Y(op) = 2 + 4
        \/ X(op) = 3 /\ Z(op) \in {0, 2, 4} /\ Y(op) = 2
    BY <1>1, <1>5 DEF OnNotCarry
  <2>2. 2 \in 0 .. 3
    OBVIOUS
  <2>3. Taken(op, flags) = Condition(2, flags)
    BY <2>1, <2>2, <1>2, Zenon
  <2>4. BranchTaken(op, flags) = ("C" \notin flags)
    BY <1>1, <1>5, BranchTakenIs, Zenon
  <2> QED
    BY <2>3, <2>4, ConditionIs, Zenon
<1>6. CASE op \in OnCarry
  <2>1. \/ X(op) = 0 /\ Z(op) = 0 /\ Y(op) = 3 + 4
        \/ X(op) = 3 /\ Z(op) \in {0, 2, 4} /\ Y(op) = 3
    BY <1>1, <1>6 DEF OnCarry
  <2>2. 3 \in 0 .. 3
    OBVIOUS
  <2>3. Taken(op, flags) = Condition(3, flags)
    BY <2>1, <2>2, <1>2, Zenon
  <2>4. BranchTaken(op, flags) = ("C" \in flags)
    BY <1>1, <1>6, BranchTakenIs, Zenon
  <2>5. ("C" \in flags) \in BOOLEAN
    OBVIOUS
  <2> QED
    BY <2>3, <2>4, <2>5, ConditionIs, Zenon
<1>7. CASE /\ op \notin OnNotZero /\ op \notin OnZero
           /\ op \notin OnNotCarry /\ op \notin OnCarry
  <2>1. BranchTaken(op, flags) = TRUE
    BY <1>1, <1>7, BranchTakenIs, Zenon
  <2>2. ~ (X(op) = 0 /\ Z(op) = 0 /\ Y(op) > 3)
    BY <1>1, <1>7 DEF OnNotZero, OnZero, OnNotCarry, OnCarry
  <2>3. ~ (X(op) = 3 /\ Z(op) \in {0, 2} /\ Y(op) < 4)
    BY <1>1, <1>7 DEF OnNotZero, OnZero, OnNotCarry, OnCarry
  <2>4. ~ (X(op) = 3 /\ Z(op) = 4)
    BY <1>1, <1>7 DEF Illegal, OnNotZero, OnZero, OnNotCarry, OnCarry
  <2>5. Taken(op, flags) = TRUE
    BY <1>1, <2>2, <2>3, <2>4, TakenIs, Zenon
  <2> QED
    BY <2>1, <2>5, Zenon
<1> QED
  BY <1>3, <1>4, <1>5, <1>6, <1>7, Zenon

-----------------------------------------------------------------------------
(* A whole step.                                                            *)

LEMMA PeekIsByte ==
  ASSUME NEW input, StepInput(input), NEW b, NEW i \in {1, 2}
  PROVE  Peek8(b, input, i) \in Byte
<1>1. input.code[i] \in Byte
  BY DEF StepInput
<1>2. EnableByte(b.irq) \in Byte /\ 255 \in Byte
  BY DEF EnableByte, Byte
<1> QED
  BY <1>1, <1>2 DEF Peek8

\* What the bus shows an M-cycle later are bytes in the same place.
LEMMA AfterFetchIsInput ==
  ASSUME NEW input, StepInput(input)
  PROVE  /\ \A b : \A i \in {1, 2} : Peek8(b, AfterFetch(input), i) \in Byte
         /\ \A b : \A i \in {1, 2} : input.region[i] # "device" =>
              Peek8(b, AfterFetch(input), i) = Peek8(b, input, i)
<1> DEFINE code == [i \in {1, 2} |->
                      IF input.region[i] = "device" THEN input.later[i] ELSE input.code[i]]
           after == AfterFetch(input)
<1>1. \A i \in {1, 2} : input.code[i] \in Byte /\ input.later[i] \in Byte
  BY DEF StepInput
<1>2. \A i \in {1, 2} :
        /\ code[i] \in Byte
        /\ input.region[i] # "device" => code[i] = input.code[i]
  BY <1>1
<1>3. after.region = input.region /\ after.code = code
  BY DEF AfterFetch, StepInput
<1>4. ASSUME NEW b, NEW i \in {1, 2} PROVE EnableByte(b.irq) \in Byte /\ 255 \in Byte
  BY DEF EnableByte, Byte
<1> HIDE DEF code, after
<1>5. ASSUME NEW b, NEW i \in {1, 2}
      PROVE  /\ Peek8(b, after, i) \in Byte
             /\ input.region[i] # "device" => Peek8(b, after, i) = Peek8(b, input, i)
  BY <1>2, <1>3, <1>4 DEF Peek8
<1> QED
  BY <1>5 DEF after

LEMMA ExecuteBaseKeeps ==
  ASSUME NEW input, StepInput(input), NEW state, NEW s, OnTrack(s, input, state),
         NEW op \in Byte \ Illegal
  PROVE  /\ OnTrack(ExecuteBase(s, op), input, state)
         /\ s.elapsed = 1 =>
              4 * ExecuteBase(s, op).elapsed = Cycles(op, BranchTaken(op, input.flags))
<1> DEFINE taken == Taken(op, s.input.flags)
           accesses == Accesses(op, taken)
           cycles == Cycles(op, taken)
           performed == Perform(s, accesses)
           controlled == Control(performed, op)
           padded == PadTo(controlled, cycles)
<1>1. taken \in BOOLEAN /\ BranchTaken(op, input.flags) = taken
  BY BranchIsTaken DEF OnTrack, Steps
<1>2. ExecuteBase(s, op) = padded
  BY DEF ExecuteBase
<1>3. Cycles(op, BranchTaken(op, input.flags)) = cycles
  BY <1>1
<1> HIDE DEF taken
<1>4. PICK n \in 1 .. 6, k \in 0 .. 5 : cycles = 4 * n /\ k < n /\ Short(accesses, k)
  BY <1>1, InstructionFits DEF Fits
<1> HIDE DEF accesses, cycles
<1>5. DOMAIN accesses = 1 .. k
  BY <1>4, ShortDomain
<1>6. /\ OnTrack(performed, input, state)
      /\ \A m \in 0 .. 5 : DOMAIN accesses = 1 .. m => performed.elapsed = s.elapsed + m
  BY PerformKeeps
<1>7. performed.elapsed = s.elapsed + k
  BY <1>5, <1>6
<1> HIDE DEF performed
<1>8. OnTrack(controlled, input, state) /\ controlled.elapsed = s.elapsed + k
  BY <1>6, <1>7, ControlKeeps
<1> HIDE DEF controlled
<1>9. cycles \in Nat
  BY <1>4
<1>10. /\ OnTrack(padded, input, state)
       /\ \A m \in 1 .. 6 : cycles = 4 * m /\ controlled.elapsed \in 1 .. m => padded.elapsed = m
  BY <1>8, <1>9, PadToKeeps
<1> HIDE DEF padded
<1>11. ASSUME s.elapsed = 1 PROVE 4 * padded.elapsed = cycles
  <2>1. controlled.elapsed \in 1 .. n
    BY <1>4, <1>8, <1>11
  <2> QED
    BY <2>1, <1>4, <1>10
<1> QED
  BY <1>2, <1>3, <1>10, <1>11

LEMMA ExecutePrefixedKeeps ==
  ASSUME NEW input, StepInput(input), NEW state, NEW s, OnTrack(s, input, state),
         NEW i \in {1, 2}
  PROVE  /\ OnTrack(ExecutePrefixed(s, i), input, state)
         /\ s.elapsed = 1 =>
              4 * ExecutePrefixed(s, i).elapsed
                = PrefixedCycles(Peek8(s.bus, AfterFetch(input), i))
<1> DEFINE op == Peek8(s.bus, AfterFetch(s.input), i)
           accesses == PrefixedAccesses(op)
           cycles == PrefixedCycles(op)
           fetched == Fetch8(s)
           performed == Perform(fetched, accesses)
           padded == PadTo(performed, cycles)
<1>1. s.input = input
  BY DEF OnTrack, Steps
<1>2. op \in Byte /\ PrefixedCycles(Peek8(s.bus, AfterFetch(input), i)) = cycles
  BY <1>1, AfterFetchIsInput
<1>3. ExecutePrefixed(s, i) = padded
  BY DEF ExecutePrefixed
<1> HIDE DEF op
<1>4. PICK n \in 2 .. 6, k \in 0 .. 4 : cycles = 4 * n /\ k + 1 < n /\ Short(accesses, k)
  BY <1>2, PrefixedFitsItsCycles
<1> HIDE DEF accesses, cycles
<1>5. DOMAIN accesses = 1 .. k
  BY <1>4, ShortDomain
<1>6. OnTrack(fetched, input, state) /\ fetched.elapsed = s.elapsed + 1
  BY Fetch8Keeps
<1> HIDE DEF fetched
<1>7. /\ OnTrack(performed, input, state)
      /\ \A m \in 0 .. 5 : DOMAIN accesses = 1 .. m => performed.elapsed = fetched.elapsed + m
  BY <1>6, PerformKeeps
<1>8. performed.elapsed = s.elapsed + 1 + k
  BY <1>5, <1>6, <1>7
<1> HIDE DEF performed
<1>9. cycles \in Nat
  BY <1>4
<1>10. /\ OnTrack(padded, input, state)
       /\ \A m \in 1 .. 6 : cycles = 4 * m /\ performed.elapsed \in 1 .. m => padded.elapsed = m
  BY <1>7, <1>9, PadToKeeps
<1> HIDE DEF padded
<1>11. ASSUME s.elapsed = 1 PROVE 4 * padded.elapsed = cycles
  <2>1. performed.elapsed \in 1 .. n /\ n \in 1 .. 6
    BY <1>4, <1>8, <1>11
  <2> QED
    BY <2>1, <1>4, <1>10
<1> QED
  BY <1>2, <1>3, <1>10, <1>11

LEMMA EnableAfterDelayKeeps ==
  ASSUME NEW input, NEW state, NEW s, OnTrack(s, input, state)
  PROVE  /\ OnTrack(EnableAfterDelay(s), input, state)
         /\ EnableAfterDelay(s).elapsed = s.elapsed
<1> DEFINE delay == IF s.cpu.delay = 0 THEN 0 ELSE s.cpu.delay - 1
           ime == s.cpu.ime \/ s.cpu.delay = 1
           c == [s.cpu EXCEPT !.delay = delay, !.ime = ime]
<1>1. s.cpu \in CpuState
  BY DEF OnTrack, Steps
<1>2. delay \in 0 .. 2 /\ ime \in BOOLEAN
  BY <1>1 DEF CpuState
<1>3. EnableAfterDelay(s) = [s EXCEPT !.cpu = c]
  BY DEF EnableAfterDelay
<1> HIDE DEF delay, ime
<1>4. c \in CpuState
  BY <1>1, <1>2 DEF CpuState
<1> HIDE DEF c
<1> QED
  BY <1>3, <1>4, CpuOnTrack

LEMMA ServiceInterruptKeeps ==
  ASSUME NEW input, StepInput(input), NEW state, NEW s, OnTrack(s, input, state), NEW i
  PROVE  /\ OnTrack(ServiceInterrupt(s, i), input, state)
         /\ ServiceInterrupt(s, i).elapsed = s.elapsed + 5
<1> DEFINE c == [s.cpu EXCEPT !.ime = FALSE, !.delay = 0, !.mode = "Running"]
           irq == Acknowledge(s.bus.irq, i)
           b == [s.bus EXCEPT !.irq = irq]
           accesses == <<"idle", "idle", "write", "write2", "idle">>
           r == [s EXCEPT !.bus = b]
           started == [r EXCEPT !.cpu = c]
<1>1. s.cpu \in CpuState /\ BusInv(s.bus) /\ s.bus.joypad.state = state /\ s \in Steps(input)
  BY DEF OnTrack, Steps
<1>2. s.bus.irq \in InterruptRegisters
  BY <1>1 DEF BusInv, BusState
<1>3. irq \in InterruptRegisters
  BY <1>2 DEF Acknowledge, InterruptRegisters
<1>4. c \in CpuState
  <2>1. ASSUME NEW ime \in BOOLEAN, NEW delay \in 0 .. 2, NEW mode \in Mode
        PROVE  [s.cpu EXCEPT !.ime = ime, !.delay = delay, !.mode = mode] \in CpuState
    <3> DEFINE quiet == [s.cpu EXCEPT !.ime = ime, !.delay = delay]
    <3>1. quiet \in CpuState
      BY <1>1 DEF CpuState
    <3>2. [s.cpu EXCEPT !.ime = ime, !.delay = delay, !.mode = mode] = [quiet EXCEPT !.mode = mode]
      BY <1>1 DEF CpuState
    <3> HIDE DEF quiet
    <3> QED
      BY <3>1, <3>2 DEF CpuState
  <2>2. FALSE \in BOOLEAN /\ 0 \in 0 .. 2 /\ "Running" \in Mode
    BY DEF Mode
  <2> QED
    BY <2>1, <2>2, Zenon
<1>5. r.cpu = s.cpu
  BY <1>1 DEF Steps
<1>6. ServiceInterrupt(s, i) = Perform(started, accesses) /\ DOMAIN accesses = 1 .. 5
  BY <1>5 DEF ServiceInterrupt
<1> HIDE DEF c, irq, accesses
<1>7. BusInv(b) /\ b.joypad = s.bus.joypad
  BY <1>1, <1>3, InterruptsWritten
<1> HIDE DEF b
<1>8. OnTrack(r, input, state) /\ r.elapsed = s.elapsed
  BY <1>1, <1>7, BusOnTrack
<1> HIDE DEF r
<1>9. OnTrack(started, input, state) /\ started.elapsed = s.elapsed
  BY <1>4, <1>8, CpuOnTrack
<1> HIDE DEF started
<1>10. /\ OnTrack(Perform(started, accesses), input, state)
       /\ \A m \in 0 .. 5 : DOMAIN accesses = 1 .. m =>
                              Perform(started, accesses).elapsed = started.elapsed + m
  BY <1>9, PerformKeeps
<1>11. 5 \in 0 .. 5
  OBVIOUS
<1> QED
  BY <1>6, <1>9, <1>10, <1>11

\* The bytes at the program counter after the first of them was fetched: the
\* fetch may end a transfer, but it hides no code that a prefix was read from.
LEMMA PeekStays ==
  ASSUME NEW input, StepInput(input), NEW c, SecondByteStays(c, input),
         NEW b, NEW after, after.irq.enable = b.irq.enable,
         after.dma.active => b.dma.active,
         Peek8(b, input, 1) = Prefix
  PROVE  Peek8(after, AfterFetch(input), PrefixedPosition(c))
           = Peek8(b, input, PrefixedPosition(c))
<1> DEFINE i == PrefixedPosition(c)
<1>0. i \in {1, 2} /\ input.region[i] # "device" /\ (i = 2 => input.region # <<"hram", "ie">>)
  BY DEF SecondByteStays, PrefixedPosition
<1> HIDE DEF i
<1>1. EnableByte(after.irq) = EnableByte(b.irq)
  BY DEF EnableByte
<1>2. EnableByte(b.irq) # Prefix /\ 255 # Prefix
  BY DEF EnableByte, Prefix
<1>3. input.region[1] # "ie" /\ (b.dma.active => input.region[1] = "hram")
  BY <1>2 DEF Peek8
<1>4. i = 2 /\ input.region[1] = "hram" => input.region[2] = "hram"
  BY <1>0 DEF StepInput, Neighbours
<1>5. Peek8(after, input, i) = Peek8(b, input, i)
  BY <1>0, <1>1, <1>3, <1>4 DEF Peek8
<1> QED
  BY <1>0, <1>5, AfterFetchIsInput DEF i

\* What the step of a running CPU takes; after is the bus when the first byte
\* was fetched.
ExecutionTime(s, after, input) ==
  LET opcode == Peek8(s.bus, input, 1)
  IN  IF opcode = Prefix
      THEN PrefixedCycles(Peek8(after, AfterFetch(input), PrefixedPosition(s.cpu)))
      ELSE Cycles(opcode, BranchTaken(opcode, input.flags))

LEMMA ExecuteNextKeeps ==
  ASSUME NEW input, StepInput(input), NEW state, NEW s, OnTrack(s, input, state),
         Peek8(s.bus, input, 1) \notin Illegal
  PROVE  /\ OnTrack(ExecuteNext(s), input, state)
         /\ s.elapsed = 0 =>
              \E after : /\ after.irq.enable = s.bus.irq.enable
                         /\ after.dma.active => s.bus.dma.active
                         /\ 4 * ExecuteNext(s).elapsed = ExecutionTime(s, after, input)
<1> DEFINE opcode == Peek8(s.bus, input, 1)
           c == [s.cpu EXCEPT !.mode = "Running"]
           running == [s EXCEPT !.cpu = c]
           fetched == Fetch8(running)
           i == PrefixedPosition(s.cpu)
           prefixed == ExecutePrefixed(fetched, i)
           base == ExecuteBase(fetched, opcode)
           done == IF opcode = Prefix THEN prefixed ELSE base
<1>1. s.cpu \in CpuState /\ s.input = input
  BY DEF OnTrack, Steps
<1>2. c \in CpuState
  <2>1. "Running" \in Mode
    BY DEF Mode
  <2> QED
    BY <1>1, <2>1 DEF CpuState
<1>3. ExecuteNext(s) = EnableAfterDelay(done)
  BY <1>1 DEF ExecuteNext, PrefixedPosition
<1>4. i \in {1, 2}
  BY DEF PrefixedPosition
<1>5. opcode \in Byte \ Illegal
  BY PeekIsByte
<1> HIDE DEF c
<1>6. OnTrack(running, input, state) /\ running.elapsed = s.elapsed /\ running.bus = s.bus
  BY <1>2, CpuOnTrack
<1> HIDE DEF running
<1>7. /\ OnTrack(fetched, input, state)
      /\ fetched.elapsed = running.elapsed + 1
      /\ fetched.bus.irq.enable = running.bus.irq.enable
      /\ fetched.bus.dma.active => running.bus.dma.active
  BY <1>6, Fetch8Keeps
<1>8. s.elapsed \in Nat
  BY DEF OnTrack, Steps
<1> HIDE DEF fetched, i
<1>9. /\ OnTrack(prefixed, input, state)
      /\ fetched.elapsed = 1 =>
           4 * prefixed.elapsed = PrefixedCycles(Peek8(fetched.bus, AfterFetch(input), i))
  BY <1>4, <1>7, ExecutePrefixedKeeps
<1> HIDE DEF opcode
<1>10. /\ OnTrack(base, input, state)
       /\ fetched.elapsed = 1 =>
            4 * base.elapsed = Cycles(opcode, BranchTaken(opcode, input.flags))
  BY <1>5, <1>7, ExecuteBaseKeeps
<1> HIDE DEF prefixed, base
<1>11. OnTrack(done, input, state)
  BY <1>9, <1>10
<1>12. s.elapsed = 0 => 4 * done.elapsed = ExecutionTime(s, fetched.bus, input)
  BY <1>6, <1>7, <1>9, <1>10 DEF ExecutionTime, opcode, i
<1> HIDE DEF done
<1>13. /\ OnTrack(EnableAfterDelay(done), input, state)
       /\ EnableAfterDelay(done).elapsed = done.elapsed
  BY <1>11, EnableAfterDelayKeeps
<1> QED
  BY <1>3, <1>6, <1>7, <1>12, <1>13

LEMMA StepKeeps ==
  ASSUME NEW input, StepInput(input), NEW c \in CpuState, NEW b, BusInv(b),
         ~ Fails(c, b, input)
  PROVE  /\ OnTrack(StepOf(c, b, input), input, b.joypad.state)
         /\ (Peek8(b, input, 1) = Prefix => SecondByteStays(c, input)) =>
              NextStepTCycles(c, b, input) = 4 * StepOf(c, b, input).elapsed
         /\ NextStepTCycles(c, b, input) <= 4 * StepOf(c, b, input).elapsed + 8
         /\ 4 * StepOf(c, b, input).elapsed <= NextStepTCycles(c, b, input) + 8
<1> DEFINE s == [cpu |-> c, bus |-> b, elapsed |-> 0, input |-> input]
           pending == WakeCapable(c, b)
           state == b.joypad.state
           step == StepOf(c, b, input)
<1>1. OnTrack(s, input, state)
  BY DEF OnTrack, Steps, BusInv
<1>2. s.cpu = c /\ s.bus = b /\ s.elapsed = 0
  OBVIOUS
<1>3. CASE c.ime /\ pending # {}
  <2> DEFINE i == HighestPriority(pending)
  <2>1. step = ServiceInterrupt(s, i)
    BY <1>3 DEF StepOf
  <2>2. NextStepTCycles(c, b, input) = 20
    BY <1>3 DEF NextStepTCycles
  <2> HIDE DEF s, step, i
  <2>3. OnTrack(ServiceInterrupt(s, i), input, state)
        /\ ServiceInterrupt(s, i).elapsed = s.elapsed + 5
    BY <1>1, ServiceInterruptKeeps
  <2> QED
    BY <1>2, <2>1, <2>2, <2>3 DEF step
<1>4. CASE ~ (c.ime /\ pending # {}) /\ c.mode = "Stopped" /\ pending = {}
  <2>1. step = s
    BY <1>4 DEF StepOf
  <2>2. NextStepTCycles(c, b, input) = 0
    BY <1>4 DEF NextStepTCycles
  <2> HIDE DEF s, step
  <2> QED
    BY <1>1, <1>2, <2>1, <2>2 DEF step
<1>5. CASE ~ (c.ime /\ pending # {}) /\ c.mode = "Halted" /\ pending = {}
  <2>1. step = Tick(s)
    BY <1>5 DEF StepOf
  <2>2. NextStepTCycles(c, b, input) = 4
    BY <1>5 DEF NextStepTCycles
  <2> HIDE DEF s, step
  <2>3. OnTrack(Tick(s), input, state) /\ Tick(s).elapsed = s.elapsed + 1
    BY <1>1, TickKeeps
  <2> QED
    BY <1>2, <2>1, <2>2, <2>3 DEF step
<1>6. CASE /\ ~ (c.ime /\ pending # {})
           /\ ~ (c.mode = "Stopped" /\ pending = {})
           /\ ~ (c.mode = "Halted" /\ pending = {})
  <2> DEFINE opcode == Peek8(b, input, 1)
  <2>1. step = ExecuteNext(s)
    BY <1>6 DEF StepOf
  <2>2. NextStepTCycles(c, b, input) =
          IF opcode = Prefix THEN PrefixedCycles(Peek8(b, input, PrefixedPosition(c)))
          ELSE Cycles(opcode, BranchTaken(opcode, input.flags))
    BY <1>6 DEF NextStepTCycles
  <2>3. opcode \notin Illegal
    BY <1>6 DEF Fails
  <2> HIDE DEF s, step
  <2>4. OnTrack(ExecuteNext(s), input, state)
    BY <1>1, <1>2, <2>3, ExecuteNextKeeps
  <2>5. PICK after : /\ after.irq.enable = b.irq.enable
                     /\ after.dma.active => b.dma.active
                     /\ 4 * ExecuteNext(s).elapsed = ExecutionTime(s, after, input)
    BY <1>1, <1>2, <2>3, ExecuteNextKeeps
  <2> DEFINE peeked == Peek8(b, input, PrefixedPosition(c))
             fetched == Peek8(after, AfterFetch(input), PrefixedPosition(c))
             base == Cycles(opcode, BranchTaken(opcode, input.flags))
             predicted == NextStepTCycles(c, b, input)
             taken == 4 * step.elapsed
  <2>6. SecondByteStays(c, input) /\ opcode = Prefix => fetched = peeked
    BY <2>5, PeekStays
  <2>7. taken = IF opcode = Prefix THEN PrefixedCycles(fetched) ELSE base
    BY <1>2, <2>1, <2>5 DEF ExecutionTime
  <2>8. PrefixedCycles(peeked) \in {8, 12, 16} /\ PrefixedCycles(fetched) \in {8, 12, 16}
    BY DEF PrefixedCycles
  <2>9. (opcode = Prefix => SecondByteStays(c, input)) => predicted = taken
    BY <2>2, <2>6, <2>7
  <2>10. predicted = taken \/ (predicted \in {8, 12, 16} /\ taken \in {8, 12, 16})
    BY <2>2, <2>7, <2>8
  <2>11. taken \in Nat
    BY <2>1, <2>4 DEF OnTrack, Steps, step
  <2> HIDE DEF predicted, taken, opcode
  <2>12. predicted <= taken + 8 /\ taken <= predicted + 8
    BY <2>10, <2>11
  <2> QED
    BY <2>1, <2>4, <2>9, <2>12 DEF predicted, taken, opcode, step
<1> QED
  BY <1>3, <1>4, <1>5, <1>6

-----------------------------------------------------------------------------
(* The machine.                                                             *)

LEMMA FreshBusKeeps ==
  ASSUME NEW state \in Buttons
  PROVE  BusInv(FreshBus(state)) /\ FreshBus(state).joypad.state = state
<1> DEFINE joypad == SetState(InitialJoypad, state)
           mask == IF Fell(InitialJoypad, joypad) THEN {JoypadPressed} ELSE {}
           irq == Request(NoInterrupts, mask)
           dma == [active |-> FALSE, index |-> 0, source |-> 0]
           oam == [i \in 0 .. DmaLength - 1 |-> 0]
<1>1. InitialJoypad \in JoypadState
  BY DEF InitialJoypad, JoypadState, Buttons
<1>2. joypad = Update(InitialJoypad, {}, state) /\ {} \in SUBSET Row
  BY DEF SetState, InitialJoypad
<1>3. joypad \in JoypadState /\ Shown(joypad) /\ joypad.state = state
  BY <1>1, <1>2, UpdateShows
<1>4. irq \in InterruptRegisters
  <2>1. mask \in SUBSET Interrupt
    BY MasksAreInterrupts
  <2>2. NoInterrupts \in InterruptRegisters
    BY MasksAreInterrupts DEF NoInterrupts, InterruptRegisters
  <2> QED
    BY <2>1, <2>2, RequestKeeps
<1>5. InitialTimer \in TimerState /\ InitialTimer.divider \in 0 .. DividerSize - 1
  <2> DEFINE divider == 43980 % DividerSize
  <2>1. divider \in 0 .. DividerSize - 1
    <3>1. \A n \in Nat, d \in Nat : d > 0 => n % d \in 0 .. d - 1
      BY Z3
    <3>2. DividerSize \in Nat /\ DividerSize > 0
      BY TimerAssumption DEF TimerAssumption
    <3> QED
      BY <3>1, <3>2
  <2>2. 0 \in Counter /\ 1 \in Select /\ 0 \in 0 .. ReloadDelay
    BY TimerAssumption DEF TimerAssumption, Counter, Select, ReloadDelay
  <2>3. InitialTimer =
          [divider |-> divider, tima |-> 0, tma |-> 0, enabled |-> FALSE,
           select |-> 1, reloadDelay |-> 0, reloaded |-> FALSE]
    BY DEF InitialTimer
  <2> HIDE DEF divider
  <2> QED
    BY <2>1, <2>2, <2>3 DEF TimerState
<1>6. dma \in DmaState /\ oam \in Oam /\ Copied(dma, oam)
  BY DmaLengthIs DEF DmaState, Oam, Copied
<1>7. FreshBus(state) =
        [timer |-> InitialTimer, mirror |-> InitialTimer.divider, dma |-> dma, oam |-> oam,
         irq |-> irq, joypad |-> joypad]
  BY DEF FreshBus
<1> HIDE DEF irq, joypad, dma, oam
<1> QED
  BY <1>3, <1>4, <1>5, <1>6, <1>7 DEF BusInv, BusState

LEMMA EffectiveIsButtons ==
  ASSUME NEW held \in [Source -> Buttons]
  PROVE  Effective(held) \in Buttons
<1>1. \A s \in Source : held[s] \subseteq Row \X Line
  BY DEF Buttons
<1> QED
  BY <1>1 DEF Effective, Buttons

LEMMA PostBootIsState == PostBootCpu \in CpuState
<1>1. "Running" \in Mode
  BY DEF Mode
<1> QED
  BY <1>1 DEF PostBootCpu, CpuState

LEMMA InitHolds ==
  ASSUME Init
  PROVE  MachineInv
<1>1. {} \in Buttons
  BY DEF Buttons
<1>2. BusInv(FreshBus({}))
  BY <1>1, FreshBusKeeps
<1> QED
  BY <1>1, <1>2, PostBootIsState DEF Init, MachineInv

\* LoadRom and Reset: the new machine is told what the sources hold.
LEMMA FreshKeeps ==
  ASSUME MachineInv, NEW g \in Game \cup {NoGame}, game' = g, cpu' = PostBootCpu,
         bus' = FreshBus(Effective(inputs)), inputs' = inputs
  PROVE  MachineInv'
<1>1. Effective(inputs) \in Buttons
  BY EffectiveIsButtons DEF MachineInv
<1>2. BusInv(bus') /\ bus'.joypad.state = Effective(inputs)
  BY <1>1, FreshBusKeeps
<1>3. BusInv(bus)'
  BY <1>2
<1> QED
  BY <1>2, <1>3, PostBootIsState DEF MachineInv

LEMMA UpdateInputKeeps ==
  ASSUME MachineInv, NEW source, NEW state \in Buttons, UpdateInput(source, state)
  PROVE  MachineInv'
<1>1. inputs' \in [Source -> Buttons]
  BY DEF UpdateInput, MachineInv
<1>2. Effective(inputs') \in Buttons
  BY <1>1, EffectiveIsButtons
<1>3. CASE game # NoGame
  <2>1. bus' = SetJoypadState(bus, Effective(inputs'))
    BY <1>3 DEF UpdateInput
  <2>2. BusInv(SetJoypadState(bus, Effective(inputs')))
        /\ SetJoypadState(bus, Effective(inputs')).joypad.state = Effective(inputs')
    BY <1>2, SetJoypadStateKeeps DEF MachineInv
  <2>3. BusInv(bus)'
    BY <2>1, <2>2
  <2> QED
    BY <1>1, <2>1, <2>2, <2>3 DEF UpdateInput, MachineInv
<1>4. CASE game = NoGame
  <2>1. bus' = bus
    BY <1>4 DEF UpdateInput
  <2>2. BusInv(bus)'
    BY <2>1 DEF MachineInv
  <2> QED
    BY <1>1, <1>4, <2>2 DEF UpdateInput, MachineInv
<1> QED
  BY <1>3, <1>4

LEMMA InputIsStepInput ==
  ASSUME NEW g \in Game, NEW input \in Inputs[g]
  PROVE  StepInput(input)
  BY MachineAssumption DEF MachineAssumption

LEMMA RunKeeps ==
  ASSUME MachineInv, RunCycles
  PROVE  MachineInv'
<1>1. game \in Game
  BY DEF MachineInv, RunCycles
<1>2. PICK input \in Inputs[game] : Run(input)
  BY DEF RunCycles
<1> DEFINE step == StepOf(cpu, bus, input)
<1>3. StepInput(input)
  BY <1>1, InputIsStepInput
<1>4. ~ Fails(cpu, bus, input) /\ cpu' = step.cpu /\ bus' = step.bus
      /\ game' = game /\ inputs' = inputs
  BY <1>2 DEF Run
<1>5. OnTrack(step, input, bus.joypad.state)
  BY <1>3, <1>4, StepKeeps DEF MachineInv
<1> HIDE DEF step
<1>6. step.cpu \in CpuState /\ BusInv(step.bus) /\ step.bus.joypad.state = bus.joypad.state
  BY <1>5 DEF OnTrack, Steps
<1>7. BusInv(bus)'
  BY <1>4, <1>6
<1> QED
  BY <1>4, <1>6, <1>7 DEF MachineInv

LEMMA NextKeeps ==
  ASSUME MachineInv, [Next]_vars
  PROVE  MachineInv'
<1>1. CASE RunCycles
  BY <1>1, RunKeeps
<1>2. ASSUME NEW g \in Game, LoadRom(g) PROVE MachineInv'
  BY <1>2, FreshKeeps DEF LoadRom
<1>3. CASE Reset
  <2>1. game \in Game \cup {NoGame} /\ game' = game
    BY <1>3 DEF Reset, MachineInv
  <2> QED
    BY <1>3, <2>1, FreshKeeps DEF Reset
<1>4. ASSUME NEW s \in Source, ClearInputSource(s) PROVE MachineInv'
  <2>1. {} \in Buttons
    BY DEF Buttons
  <2> QED
    BY <1>4, <2>1, UpdateInputKeeps DEF ClearInputSource
<1>5. ASSUME NEW press \in UNION {Presses[g] : g \in Game}, SetInput(press[1], press[2])
      PROVE  MachineInv'
  <2>1. press[2] \in Buttons
    BY MachineAssumption DEF MachineAssumption
  <2> QED
    BY <1>5, <2>1, UpdateInputKeeps DEF SetInput
<1>6. CASE UNCHANGED vars
  <2>1. game' = game /\ cpu' = cpu /\ bus' = bus /\ inputs' = inputs
    BY <1>6 DEF vars
  <2>2. BusInv(bus)'
    BY <2>1 DEF MachineInv
  <2> QED
    BY <2>1, <2>2 DEF MachineInv
<1> QED
  BY <1>1, <1>2, <1>3, <1>4, <1>5, <1>6 DEF Next

-----------------------------------------------------------------------------
(* The CPU in HALT and the running timer.  Induction on the M-cycles is the *)
(* well-foundedness of < on the natural numbers.                            *)

LEMMA LessIsWellFounded == IsWellFoundedOn({p \in Nat \X Nat : p[1] < p[2]}, Nat)
  BY NatLessThanWellFounded DEF OpToRel

LEMMA SetInduction ==
  ASSUME NEW S, 0 \in S, \A n \in Nat : n \in S => n + 1 \in S
  PROVE  Nat \subseteq S
<1> SUFFICES ASSUME Nat \ S # {} PROVE FALSE
  OBVIOUS
<1> DEFINE T == Nat \ S
           R == {p \in Nat \X Nat : p[1] < p[2]}
<1>1. \E x \in T : \A y \in T : ~ (<<y, x>> \in R)
  <2>1. T \subseteq Nat /\ T # {}
    OBVIOUS
  <2>2. IsWellFoundedOn(R, Nat)
    BY LessIsWellFounded
  <2> HIDE DEF T, R
  <2> QED
    BY <2>1, <2>2, WFMin
<1>2. PICK x \in T : \A y \in T : ~ (y < x)
  BY <1>1
<1>3. x - 1 \in Nat /\ x - 1 \notin T
  BY <1>2
<1> QED
  BY <1>2, <1>3

\* The M-cycles after b, one after the other.
Follows(f, b, m) == f = [n \in 0 .. m |-> IF n = 0 THEN b ELSE TickBus(f[n - 1], {})]

LEMMA CyclesFollow ==
  ASSUME NEW b, NEW m \in Nat
  PROVE  \E f : Follows(f, b, m)
<1> DEFINE S == {n \in Nat : \E f : Follows(f, b, n)}
<1>1. 0 \in S
  <2> DEFINE f == [n \in 0 .. 0 |-> b]
  <2>1. f = [n \in 0 .. 0 |-> IF n = 0 THEN b ELSE TickBus(f[n - 1], {})]
    <3> DEFINE g == [n \in 0 .. 0 |-> IF n = 0 THEN b ELSE TickBus(f[n - 1], {})]
    <3>1. \A n \in 0 .. 0 : n = 0
      OBVIOUS
    <3> QED
      BY <3>1
  <2> HIDE DEF f
  <2> QED
    BY <2>1 DEF Follows
<1>2. ASSUME NEW k \in Nat, k \in S PROVE k + 1 \in S
  <2>1. PICK f : Follows(f, b, k)
    BY <1>2
  <2> DEFINE g == [n \in 0 .. k + 1 |-> IF n = k + 1 THEN TickBus(f[k], {}) ELSE f[n]]
             h == [n \in 0 .. k + 1 |-> IF n = 0 THEN b ELSE TickBus(g[n - 1], {})]
  <2>2. ASSUME NEW n \in 0 .. k + 1 PROVE g[n] = h[n]
    <3>1. CASE n = 0
      <4>1. g[n] = f[0]
        BY <3>1
      <4>2. f[0] = b
        BY <2>1 DEF Follows
      <4> QED
        BY <3>1, <4>1, <4>2
    <3>2. CASE n = k + 1
      <4>1. g[n] = TickBus(f[k], {})
        BY <3>2
      <4>2. g[n - 1] = f[k]
        BY <3>2
      <4>3. h[n] = TickBus(g[n - 1], {})
        BY <3>2
      <4> QED
        BY <4>1, <4>2, <4>3
    <3>3. CASE n # 0 /\ n # k + 1
      <4>1. n \in 0 .. k /\ n - 1 \in 0 .. k + 1 /\ n - 1 # k + 1
        BY <3>3
      <4>2. g[n] = f[n] /\ g[n - 1] = f[n - 1]
        BY <3>3, <4>1
      <4>3. f[n] = TickBus(f[n - 1], {})
        BY <2>1, <3>3, <4>1 DEF Follows
      <4>4. h[n] = TickBus(g[n - 1], {})
        BY <3>3
      <4> QED
        BY <4>2, <4>3, <4>4
    <3> QED
      BY <3>1, <3>2, <3>3
  <2>3. g = h
    BY <2>2
  <2>4. Follows(g, b, k + 1)
    <3> HIDE DEF g
    <3> QED
      BY <2>3 DEF Follows
  <2> QED
    BY <2>4
<1> HIDE DEF S
<1>3. m \in S
  BY <1>1, <1>2, SetInduction
<1> QED
  BY <1>3 DEF S

LEMMA QuietFollows ==
  ASSUME NEW b, NEW m \in Nat
  PROVE  \E f : Follows(f, b, m) /\ AfterCycles(b, m) = f[m]
<1> DEFINE f == CHOOSE g : g = [n \in 0 .. m |-> IF n = 0 THEN b ELSE TickBus(g[n - 1], {})]
<1>1. Follows(f, b, m)
  BY CyclesFollow DEF Follows
<1>2. AfterCycles(b, m) = f[m]
  BY DEF AfterCycles
<1> QED
  BY <1>1, <1>2

\* A quiet M-cycle requests the interrupt of the timer or brings it nearer,
\* and withdraws no request.
LEMMA QuietCycle ==
  ASSUME NEW b, BusInv(b), b.timer.enabled
  PROVE  /\ BusInv(TickBus(b, {}))
         /\ TickBus(b, {}).timer.enabled
         /\ TickBus(b, {}).timer.select = b.timer.select
         /\ TimerOverflow \in b.irq.flags => TimerOverflow \in TickBus(b, {}).irq.flags
         /\ \/ TimerOverflow \in TickBus(b, {}).irq.flags
            \/ Wait(TickBus(b, {}).timer) = Wait(b.timer) - 4
<1> DEFINE ticked == TickMCycle(b.timer)
           c == TickBus(b, {})
<1>1. b.timer \in TimerState /\ b.irq \in InterruptRegisters
  BY DEF BusInv, BusState
<1>2. c.timer = ticked.timer
  BY DEF TickBus, TickDevices
<1>3. c.irq = Request(b.irq, (IF ticked.overflow THEN {TimerOverflow} ELSE {}) \cup {})
  BY DEF TickBus, TickDevices
<1>4. c.irq.flags = b.irq.flags \cup (IF ticked.overflow THEN {TimerOverflow} ELSE {})
  BY <1>1, <1>3 DEF Request, InterruptRegisters
<1>5. /\ ticked.timer.enabled /\ ticked.timer.select = b.timer.select
      /\ ticked.overflow \/ Wait(ticked.timer) = Wait(b.timer) - 4
  BY <1>1, CycleCountsDown
<1>6. BusInv(c)
  BY TickBusKeeps
<1> HIDE DEF c, ticked
<1> QED
  BY <1>2, <1>4, <1>5, <1>6 DEF c

LEMMA QuietCounts ==
  ASSUME NEW b, BusInv(b), b.timer.enabled, NEW m \in Nat
  PROVE  \/ TimerOverflow \in AfterCycles(b, m).irq.flags
         \/ Wait(AfterCycles(b, m).timer) + 4 * m = Wait(b.timer) /\ BusInv(AfterCycles(b, m))
<1>1. PICK f : Follows(f, b, m) /\ AfterCycles(b, m) = f[m]
  BY QuietFollows
<1> DEFINE Counts(n) == \/ TimerOverflow \in f[n].irq.flags
                        \/ Wait(f[n].timer) + 4 * n = Wait(b.timer)
           Good(n) == BusInv(f[n]) /\ f[n].timer.enabled /\ Counts(n)
           S == {n \in Nat : n <= m => Good(n)}
<1>2. f[0] = b
  BY <1>1 DEF Follows
<1>3. 0 \in S
  <2>1. Wait(b.timer) \in Nat
    BY WaitIsPositive DEF BusInv, BusState
  <2> QED
    BY <1>2, <2>1
<1>4. ASSUME NEW k \in Nat, k \in S PROVE k + 1 \in S
  <2> SUFFICES ASSUME k + 1 <= m PROVE Good(k + 1)
    OBVIOUS
  <2>1. Good(k)
    BY <1>4
  <2>2. f[k + 1] = TickBus(f[k], {})
    <3>1. k + 1 \in 0 .. m /\ k + 1 # 0 /\ (k + 1) - 1 = k
      OBVIOUS
    <3> QED
      BY <1>1, <3>1 DEF Follows
  <2> DEFINE c == f[k]
             d == f[k + 1]
  <2>3. BusInv(c) /\ c.timer.enabled
    BY <2>1
  <2>4. Wait(c.timer) \in Nat
    BY <2>3, WaitIsPositive DEF BusInv, BusState
  <2>5. /\ BusInv(d) /\ d.timer.enabled
        /\ TimerOverflow \in c.irq.flags => TimerOverflow \in d.irq.flags
        /\ TimerOverflow \in d.irq.flags \/ Wait(d.timer) = Wait(c.timer) - 4
    <3> HIDE DEF c
    <3>1. d = TickBus(c, {})
      BY <2>2 DEF c
    <3> QED
      BY <2>3, <3>1, QuietCycle
  <2>6. TimerOverflow \in c.irq.flags \/ Wait(c.timer) + 4 * k = Wait(b.timer)
    BY <2>1
  <2> HIDE DEF c
  <2>7. Counts(k + 1)
    BY <2>4, <2>5, <2>6
  <2> QED
    BY <2>5, <2>7
<1> HIDE DEF S
<1>5. m \in S
  BY <1>3, <1>4, SetInduction
<1>6. Good(m)
  BY <1>5 DEF S
<1> QED
  BY <1>1, <1>6

\* The registers are in range, both dividers agree, a transfer keeps what it
\* copied, the lines follow the buttons, and with a game loaded the buttons are
\* what the sources hold: after every step, press, reset and load.
THEOREM MachineInvariant == Spec => []MachineInv
  BY InitHolds, NextKeeps, PTL DEF Spec

\* Every write of DIV and every STOP restarts both dividers, every M-cycle
\* moves both, in whatever order an instruction interleaves them
\* (bus/mod.rs:87, 142 and 262).
THEOREM DividersNeverPart == Spec => []DividersAgree
<1>1. MachineInv => DividersAgree
  BY DEF MachineInv, BusInv, DividersAgree
<1> QED
  BY <1>1, MachineInvariant, PTL

\* No load, reset, write of P1 or change of one source loses what the other
\* source holds (machine.rs:75, 83 and 111).
THEOREM JoypadFollowsInputs == Spec => []JoypadShowsInputs
<1>1. MachineInv => JoypadShowsInputs
  BY DEF MachineInv, BusInv, Shown, JoypadShowsInputs
<1> QED
  BY <1>1, MachineInvariant, PTL

\* No access of an instruction, stack write of an interrupt or restart of the
\* transfer touches what the running transfer has copied (bus/mod.rs:229).
THEOREM DmaKeepsItsCopy == Spec => []DmaIsExclusive
<1>1. MachineInv => DmaIsExclusive
  BY DEF MachineInv, BusInv, Copied, DmaIsExclusive
<1> QED
  BY <1>1, MachineInvariant, PTL

\* Wherever a game's code lies, the budget charges every step with the cycles
\* it takes, for all 256 opcodes and their 256 prefixed ones, both outcomes of
\* every branch, the halt bug and every interrupt, unless the second byte of a
\* prefixed instruction may change under the fetch; and it never errs by more
\* than 8 cycles (machine.rs:98).
THEOREM BudgetChargesTheStep == Spec => []BudgetIsExact
<1>1. ASSUME MachineInv PROVE BudgetIsExact
  <2>1. SUFFICES ASSUME game # NoGame, NEW input \in Inputs[game], ~ Fails(cpu, bus, input)
                 PROVE  /\ (Peek8(bus, input, 1) = Prefix => SecondByteStays(cpu, input)) =>
                             NextStepTCycles(cpu, bus, input)
                               = 4 * StepOf(cpu, bus, input).elapsed
                        /\ NextStepTCycles(cpu, bus, input)
                             <= 4 * StepOf(cpu, bus, input).elapsed + 8
                        /\ 4 * StepOf(cpu, bus, input).elapsed
                             <= NextStepTCycles(cpu, bus, input) + 8
    BY DEF BudgetIsExact
  <2>2. game \in Game
    BY <1>1, <2>1 DEF MachineInv
  <2>3. StepInput(input)
    BY <2>1, <2>2, InputIsStepInput
  <2> QED
    BY <1>1, <2>1, <2>3, StepKeeps DEF MachineInv
<1> QED
  BY <1>1, MachineInvariant, PTL

\* Whatever the timer counts when the CPU halts: Longest quiet M-cycles later
\* its interrupt is requested, so that a HALT on a running timer whose
\* interrupt is enabled ends (cpu/execute.rs:73, timer.rs:68).
THEOREM HaltEndsWithTheTimer == Spec => []HaltedTimerWakes
<1>1. ASSUME MachineInv PROVE HaltedTimerWakes
  <2> SUFFICES ASSUME bus.timer.enabled
               PROVE  TimerOverflow \in AfterCycles(bus, Longest).irq.flags
    BY DEF HaltedTimerWakes
  <2> DEFINE p == Period(bus.timer.select)
             n == CounterSize * p
  <2>1. BusInv(bus) /\ bus.timer \in TimerState
    BY <1>1 DEF MachineInv, BusInv, BusState
  <2>2. p \in Nat \ {0} /\ p % 4 = 0 /\ CounterSize \in Nat \ {0}
    BY <2>1, PeriodFits DEF TimerState
  <2>3. n \in Nat /\ n % 4 = 0
    <3> HIDE DEF p
    <3>1. p = 4 * (p \div 4) /\ p \div 4 \in Nat
      BY <2>2, Z3
    <3>2. n = 4 * (CounterSize * (p \div 4)) /\ CounterSize * (p \div 4) \in Nat
      BY <2>2, <3>1, Z3
    <3> QED
      BY <3>2, Z3
  <2>4. Longest = n \div 4 + 1
    <3>1. CounterSize * 2 * BitWeight[bus.timer.select] = n
      BY <2>1, <2>2, PeriodFits, Z3 DEF Period, TimerState
    <3> QED
      BY <3>1 DEF Longest
  <2>5. Longest \in Nat /\ 4 * Longest = n + 4
    <3> HIDE DEF n
    <3> QED
      BY <2>3, <2>4, Z3
  <2>6. Wait(bus.timer) \in Nat /\ Wait(bus.timer) <= n + 4
    BY <2>1, WaitIsPositive DEF ReloadDelay
  <2>7. CASE Wait(AfterCycles(bus, Longest).timer) + 4 * Longest = Wait(bus.timer)
               /\ BusInv(AfterCycles(bus, Longest))
    <3>1. Wait(AfterCycles(bus, Longest).timer) \in Nat \ {0}
      BY <2>7, WaitIsPositive DEF BusInv, BusState
    <3> HIDE DEF n
    <3> QED
      BY <2>3, <2>5, <2>6, <2>7, <3>1
  <2> QED
    BY <2>1, <2>5, <2>7, QuietCounts
<1> QED
  BY <1>1, MachineInvariant, PTL

-----------------------------------------------------------------------------
(* What a game computes: bytes, words and decimal digits.                   *)

\* The accumulator and the flags.
Registers == [r : Octet, f : Flags]

\* Every number below 100 has two digits.
LEMMA DigitsOf ==
  ASSUME NEW m \in 0 .. 99
  PROVE  /\ m \div 10 \in 0 .. 9 /\ m % 10 \in 0 .. 9
         /\ m = 10 * (m \div 10) + (m % 10)
         /\ Decimal(m) \in 0 .. 153
         /\ Decimal(m) % 16 = m % 10
         /\ Decimal(m) = 16 * (m \div 10) + (m % 10)
  BY Z3 DEF Decimal

\* The carry as a number.
LEMMA OfIs == ASSUME NEW b \in BOOLEAN PROVE Of(b) \in 0 .. 1 /\ (Of(b) = 1 <=> b)
  BY DEF Of

LEMMA AluIs ==
  ASSUME NEW a, NEW value, NEW f
  PROVE  /\ Alu(0, a, value, f) = Add8(a, value, FALSE)
         /\ Alu(1, a, value, f) = Add8(a, value, f.c)
         /\ Alu(2, a, value, f) = Sub8(a, value, FALSE)
         /\ Alu(3, a, value, f) = Sub8(a, value, f.c)
         /\ Alu(4, a, value, f) = Zero(And8(a, value), [NoFlags EXCEPT !.h = TRUE])
         /\ Alu(5, a, value, f) = Zero(Xor8(a, value), NoFlags)
         /\ Alu(6, a, value, f) = Zero(Or8(a, value), NoFlags)
         /\ Alu(7, a, value, f) = Result(a, Sub8(a, value, FALSE).f)
  BY DEF Alu

LEMMA DaaIs ==
  ASSUME NEW a, NEW f PROVE AccumulatorMisc(4, a, f) = Daa(a, f)
  BY DEF AccumulatorMisc

\* A decimal number that a result stands for.
Shows(result, number) == result = 16 * ((number % 100) \div 10) + ((number % 100) % 10)

LEMMA SumIsDecimal ==
  ASSUME NEW m \in 0 .. 99, NEW n \in 0 .. 99, NEW f \in Flags
  PROVE  LET sum == Alu(1, Decimal(m), Decimal(n), f)
             result == AccumulatorMisc(4, sum.r, sum.f)
             number == m + n + Of(f.c)
         IN  /\ result.r = Decimal(number % 100)
             /\ result.f.c = (number \notin 0 .. 99)
             /\ result.f.z = (number % 100 = 0)
<1> DEFINE a == Decimal(m)
           b == Decimal(n)
           e == Of(f.c)
           s == a + b + e
           h == (a % 16) + (b % 16) + e > 15
           c == s > 255
           flags == [z |-> s % 256 = 0, n |-> FALSE, h |-> h, c |-> c]
           x == s % 256
           low == flags.h \/ (~ flags.n /\ x % 16 > 9)
           high == flags.c \/ (~ flags.n /\ x > 153)
           r == (x + ((IF low THEN 6 ELSE 0) + (IF high THEN 96 ELSE 0))) % 256
           number == m + n + e
<1>1. Alu(1, a, b, f).r = x /\ Alu(1, a, b, f).f = flags
  <2>1. Add8(a, b, f.c) = [r |-> x, f |-> flags]
    BY Zenon DEF Add8, Result
  <2>2. Alu(1, a, b, f) = Add8(a, b, f.c)
    BY AluIs
  <2> HIDE DEF x, flags, a, b
  <2> QED
    BY <2>1, <2>2
<1>2. AccumulatorMisc(4, x, flags) = Daa(x, flags)
  BY DaaIs
<1>3. flags.n = FALSE /\ flags.h = h /\ flags.c = c
  OBVIOUS
<1>4. low \in BOOLEAN /\ high \in BOOLEAN
  OBVIOUS
<1>5. (low <=> (h \/ x % 16 > 9)) /\ (high <=> (c \/ x > 153))
  <2> HIDE DEF x, h, c, flags
  <2> QED
    BY <1>3
<1>6. e \in 0 .. 1
  BY OfIs DEF Flags
<1> DEFINE i == m \div 10
           j == m % 10
           k == n \div 10
           l == n % 10
<1>7. /\ a = 16 * i + j /\ a % 16 = j /\ m = 10 * i + j
      /\ b = 16 * k + l /\ b % 16 = l /\ n = 10 * k + l
      /\ i \in 0 .. 9 /\ j \in 0 .. 9 /\ k \in 0 .. 9 /\ l \in 0 .. 9
  <2> HIDE DEF a, b
  <2> QED
    BY DigitsOf DEF a, b
<1> HIDE DEF a, b, e, i, j, k, l
<1>8. s = (16 * i + j) + (16 * k + l) + e
  BY <1>7
<1>9. number = (10 * i + j) + (10 * k + l) + e
  BY <1>7
<1>10. x \in Nat
  BY <1>6, <1>7, Z3
<1> HIDE DEF flags
<1>11. Daa(x, flags).r = r /\ Daa(x, flags).f.c = high /\ Daa(x, flags).f.z = (r = 0)
  <2> DEFINE correction == (IF low THEN 6 ELSE 0) + (IF high THEN 96 ELSE 0)
             p == (IF flags.n THEN x - correction ELSE x + correction) % 256
             zero == p = 0
  <2>1. Daa(x, flags) = [r |-> p, f |-> [z |-> zero, n |-> flags.n, h |-> FALSE, c |-> high]]
    <3> HIDE DEF x
    <3> QED
      BY Zenon DEF Daa, Result
  <2>2. p = r
    <3> HIDE DEF x, low, high
    <3> QED
      BY <1>3
  <2> HIDE DEF p, zero, high, r
  <2>3. Daa(x, flags).r = p /\ Daa(x, flags).f.c = high /\ Daa(x, flags).f.z = zero
    BY <2>1
  <2> QED
    BY <2>2, <2>3, Zenon DEF zero
<1>12. /\ high <=> number > 99
       /\ Shows(r, number)
       /\ r = 0 <=> number % 100 = 0
  <2> DEFINE u == j + l + e
             v == i + k
  <2>1. /\ u \in 0 .. 19 /\ v \in 0 .. 18 /\ s = 16 * v + u /\ number = 10 * v + u
        /\ h <=> u > 15
    <3> HIDE DEF s, number
    <3> QED
      BY <1>6, <1>7, <1>8, <1>9
  <2> HIDE DEF h, u, v, number, s, low, high
  <2>2. low <=> u > 9
    BY <1>5, <2>1, Z3
  <2>3. high <=> number > 99
    BY <1>5, <2>1, Z3
  <2>4. Shows(r, number)
    BY <2>1, <2>2, <2>3, Z3 DEF Shows
  <2>5. r = 0 <=> number % 100 = 0
    BY <2>1, <2>2, <2>3, Z3
  <2> QED
    BY <2>3, <2>4, <2>5
<1>13. number > 99 <=> number \notin 0 .. 99
  BY <1>6
<1>14. Decimal(number % 100) = r
  BY <1>6, <1>12, Z3 DEF Decimal, Shows
<1> HIDE DEF r, high, number, x
<1> QED
  BY <1>1, <1>2, <1>4, <1>11, <1>12, <1>13, <1>14 DEF number, a, b, e
LEMMA DifferenceIsDecimal ==
  ASSUME NEW m \in 0 .. 99, NEW n \in 0 .. 99, NEW f \in Flags
  PROVE  LET difference == Alu(3, Decimal(m), Decimal(n), f)
             result == AccumulatorMisc(4, difference.r, difference.f)
             number == m - n - Of(f.c)
         IN  /\ result.r = Decimal(number % 100)
             /\ result.f.c = (number \notin 0 .. 99)
             /\ result.f.z = (number % 100 = 0)
<1> DEFINE a == Decimal(m)
           b == Decimal(n)
           e == Of(f.c)
           s == a - b - e
           h == a % 16 < (b % 16) + e
           c == s < 0
           flags == [z |-> s % 256 = 0, n |-> TRUE, h |-> h, c |-> c]
           x == s % 256
           low == flags.h \/ (~ flags.n /\ x % 16 > 9)
           high == flags.c \/ (~ flags.n /\ x > 153)
           r == (x - ((IF low THEN 6 ELSE 0) + (IF high THEN 96 ELSE 0))) % 256
           number == m - n - e
<1>1. Alu(3, a, b, f).r = x /\ Alu(3, a, b, f).f = flags
  <2>1. Sub8(a, b, f.c) = [r |-> x, f |-> flags]
    BY Zenon DEF Sub8, Result
  <2>2. Alu(3, a, b, f) = Sub8(a, b, f.c)
    BY AluIs
  <2> HIDE DEF x, flags, a, b
  <2> QED
    BY <2>1, <2>2
<1>2. AccumulatorMisc(4, x, flags) = Daa(x, flags)
  BY DaaIs
<1>3. flags.n = TRUE /\ flags.h = h /\ flags.c = c
  OBVIOUS
<1>4. low \in BOOLEAN /\ high \in BOOLEAN
  OBVIOUS
<1>5. (low <=> h) /\ (high <=> c)
  <2> HIDE DEF x, h, c, flags
  <2> QED
    BY <1>3
<1>6. e \in 0 .. 1
  BY OfIs DEF Flags
<1> DEFINE i == m \div 10
           j == m % 10
           k == n \div 10
           l == n % 10
<1>7. /\ a = 16 * i + j /\ a % 16 = j /\ m = 10 * i + j
      /\ b = 16 * k + l /\ b % 16 = l /\ n = 10 * k + l
      /\ i \in 0 .. 9 /\ j \in 0 .. 9 /\ k \in 0 .. 9 /\ l \in 0 .. 9
  <2> HIDE DEF a, b
  <2> QED
    BY DigitsOf DEF a, b
<1> HIDE DEF a, b, e, i, j, k, l
<1>8. s = (16 * i + j) - (16 * k + l) - e
  BY <1>7
<1>9. number = (10 * i + j) - (10 * k + l) - e
  BY <1>7
<1>10. x \in Nat
  BY <1>6, <1>7, Z3
<1> HIDE DEF flags
<1>11. Daa(x, flags).r = r /\ Daa(x, flags).f.c = high /\ Daa(x, flags).f.z = (r = 0)
  <2> DEFINE correction == (IF low THEN 6 ELSE 0) + (IF high THEN 96 ELSE 0)
             p == (IF flags.n THEN x - correction ELSE x + correction) % 256
             zero == p = 0
  <2>1. Daa(x, flags) = [r |-> p, f |-> [z |-> zero, n |-> flags.n, h |-> FALSE, c |-> high]]
    <3> HIDE DEF x
    <3> QED
      BY Zenon DEF Daa, Result
  <2>2. p = r
    <3> HIDE DEF x, low, high
    <3> QED
      BY <1>3
  <2> HIDE DEF p, zero, high, r
  <2>3. Daa(x, flags).r = p /\ Daa(x, flags).f.c = high /\ Daa(x, flags).f.z = zero
    BY <2>1
  <2> QED
    BY <2>2, <2>3, Zenon DEF zero
<1>12. /\ high <=> number < 0
       /\ Shows(r, number)
       /\ r = 0 <=> number % 100 = 0
  <2> DEFINE u == j - l - e
             v == i - k
  <2>1. /\ u \in -10 .. 9 /\ v \in -9 .. 9 /\ s = 16 * v + u /\ number = 10 * v + u
        /\ h <=> u < 0
    <3> HIDE DEF s, number
    <3> QED
      BY <1>6, <1>7, <1>8, <1>9
  <2> HIDE DEF h, u, v, number, s, low, high
  <2>2. low <=> u < 0
    BY <1>5, <2>1, Z3
  <2>3. high <=> number < 0
    BY <1>5, <2>1, Z3
  <2>4. Shows(r, number)
    BY <2>1, <2>2, <2>3, Z3 DEF Shows
  <2>5. r = 0 <=> number % 100 = 0
    BY <2>1, <2>2, <2>3, Z3
  <2> QED
    BY <2>3, <2>4, <2>5
<1>13. number < 0 <=> number \notin 0 .. 99
  BY <1>6
<1>14. Decimal(number % 100) = r
  BY <1>6, <1>12, Z3 DEF Decimal, Shows
<1> HIDE DEF r, high, number, x
<1> QED
  BY <1>1, <1>2, <1>4, <1>11, <1>12, <1>13, <1>14 DEF number, a, b, e

LEMMA ResultKeeps ==
  ASSUME NEW r \in Octet, NEW f \in Flags
  PROVE  Result(r, f) \in Registers /\ Result(r, f).r = r /\ Result(r, f).f = f
  BY DEF Result, Registers

LEMMA ZeroKeeps ==
  ASSUME NEW r \in Octet, NEW f \in Flags
  PROVE  Zero(r, f) \in Registers /\ Zero(r, f).r = r /\ Zero(r, f).f.c = f.c
<1>1. [f EXCEPT !.z = r = 0] \in Flags /\ [f EXCEPT !.z = r = 0].c = f.c
  BY DEF Flags
<1> DEFINE g == [f EXCEPT !.z = r = 0]
<1> HIDE DEF g
<1>2. Result(r, g) \in Registers /\ Result(r, g).r = r /\ Result(r, g).f = g
  BY <1>1, ResultKeeps DEF g
<1> QED
  BY <1>1, <1>2 DEF Zero, g

LEMMA FlagsMade ==
  ASSUME NEW z \in BOOLEAN, NEW n \in BOOLEAN, NEW h \in BOOLEAN, NEW c \in BOOLEAN
  PROVE  [z |-> z, n |-> n, h |-> h, c |-> c] \in Flags
  BY DEF Flags

\* Flags that are conditions.
LEMMA ConditionsAreFlags ==
  ASSUME NEW r \in Octet, NEW z, NEW n, NEW h, NEW c
  PROVE  z \in BOOLEAN /\ n \in BOOLEAN /\ h \in BOOLEAN /\ c \in BOOLEAN =>
           Result(r, [z |-> z, n |-> n, h |-> h, c |-> c]) \in Registers
  BY ResultKeeps, FlagsMade

LEMMA SumKeeps ==
  ASSUME NEW a \in Octet, NEW b \in Octet, NEW carry \in BOOLEAN
  PROVE  Add8(a, b, carry) \in Registers /\ Sub8(a, b, carry) \in Registers
<1> DEFINE e == Of(carry)
           s == (a + b + e) % 256
           d == (a - b - e) % 256
           z1 == s = 0
           z2 == d = 0
           h1 == (a % 16) + (b % 16) + e > 15
           h2 == a % 16 < (b % 16) + e
           c1 == a + b + e > 255
           c2 == a - b - e < 0
<1>1. e \in 0 .. 1
  BY OfIs
<1>2. Add8(a, b, carry) = Result(s, [z |-> z1, n |-> FALSE, h |-> h1, c |-> c1])
  BY Zenon DEF Add8
<1>3. Sub8(a, b, carry) = Result(d, [z |-> z2, n |-> TRUE, h |-> h2, c |-> c2])
  BY Zenon DEF Sub8
<1>4. /\ z1 \in BOOLEAN /\ h1 \in BOOLEAN /\ c1 \in BOOLEAN
      /\ z2 \in BOOLEAN /\ h2 \in BOOLEAN /\ c2 \in BOOLEAN
  OBVIOUS
<1> HIDE DEF e, z1, z2, h1, h2, c1, c2
<1>5. s \in Octet /\ d \in Octet
  BY <1>1, Z3 DEF Octet
<1> HIDE DEF s, d
<1>6. /\ [z |-> z1, n |-> FALSE, h |-> h1, c |-> c1] \in Flags
      /\ [z |-> z2, n |-> TRUE, h |-> h2, c |-> c2] \in Flags
  BY <1>4 DEF Flags
<1>7. Add8(a, b, carry) \in Registers /\ Sub8(a, b, carry) \in Registers
  BY <1>2, <1>3, <1>5, <1>6, ResultKeeps
<1> QED
  BY <1>7

LEMMA CountKeeps ==
  ASSUME NEW a \in Octet, NEW carry \in BOOLEAN
  PROVE  Inc8(a, carry) \in Registers /\ Dec8(a, carry) \in Registers
<1> DEFINE s == (a + 1) % 256
           d == (a - 1) % 256
           z1 == s = 0
           z2 == d = 0
           h1 == a % 16 = 15
           h2 == a % 16 = 0
<1>1. Inc8(a, carry) = Result(s, [z |-> z1, n |-> FALSE, h |-> h1, c |-> carry])
  BY Zenon DEF Inc8
<1>2. Dec8(a, carry) = Result(d, [z |-> z2, n |-> TRUE, h |-> h2, c |-> carry])
  BY Zenon DEF Dec8
<1>3. z1 \in BOOLEAN /\ h1 \in BOOLEAN /\ z2 \in BOOLEAN /\ h2 \in BOOLEAN
  OBVIOUS
<1>4. s \in Octet /\ d \in Octet
  BY Z3 DEF Octet
<1> HIDE DEF s, d, z1, z2, h1, h2
<1>5. /\ [z |-> z1, n |-> FALSE, h |-> h1, c |-> carry] \in Flags
      /\ [z |-> z2, n |-> TRUE, h |-> h2, c |-> carry] \in Flags
  BY <1>3 DEF Flags
<1> QED
  BY <1>1, <1>2, <1>4, <1>5, ResultKeeps

LEMMA OfBitsIsOctet ==
  ASSUME NEW holds PROVE OfBits(holds) \in Octet
  BY DEF OfBits, Of, Octet

LEMMA NoFlagsKeep ==
  /\ NoFlags \in Flags
  /\ [NoFlags EXCEPT !.h = TRUE] \in Flags
  /\ \A c \in BOOLEAN : [NoFlags EXCEPT !.c = c] \in Flags /\ [NoFlags EXCEPT !.c = c].c = c
  BY DEF NoFlags, Flags

LEMMA AluKeeps ==
  ASSUME NEW operation \in 0 .. 7, NEW a \in Octet, NEW value \in Octet, NEW f \in Flags
  PROVE  Alu(operation, a, value, f) \in Registers
<1>1. /\ Add8(a, value, FALSE) \in Registers /\ Add8(a, value, f.c) \in Registers
      /\ Sub8(a, value, FALSE) \in Registers /\ Sub8(a, value, f.c) \in Registers
  <2>1. f.c \in BOOLEAN
    BY DEF Flags
  <2> QED
    BY <2>1, SumKeeps
<1>2. And8(a, value) \in Octet /\ Xor8(a, value) \in Octet /\ Or8(a, value) \in Octet
  <2>1. \A holds : OfBits(holds) \in Octet
    BY OfBitsIsOctet
  <2> QED
    BY <2>1 DEF And8, Xor8, Or8
<1>3. /\ Zero(And8(a, value), [NoFlags EXCEPT !.h = TRUE]) \in Registers
      /\ Zero(Xor8(a, value), NoFlags) \in Registers
      /\ Zero(Or8(a, value), NoFlags) \in Registers
  <2> DEFINE g == [NoFlags EXCEPT !.h = TRUE]
  <2>1. g \in Flags /\ NoFlags \in Flags
    BY NoFlagsKeep
  <2> HIDE DEF g
  <2>2. /\ Zero(And8(a, value), g) \in Registers
        /\ Zero(Xor8(a, value), NoFlags) \in Registers
        /\ Zero(Or8(a, value), NoFlags) \in Registers
    BY <1>2, <2>1, ZeroKeeps
  <2> QED
    BY <2>2 DEF g
<1>4. Result(a, Sub8(a, value, FALSE).f) \in Registers
  <2>1. Sub8(a, value, FALSE).f \in Flags
    BY <1>1 DEF Registers
  <2> QED
    BY <2>1, ResultKeeps
<1>5. operation \in {0, 1, 2, 3, 4, 5, 6, 7}
  OBVIOUS
<1> QED
  BY <1>1, <1>3, <1>4, <1>5, AluIs

LEMMA PlaceValues ==
  /\ PlaceValue(0) = 1 /\ PlaceValue(1) = 2 /\ PlaceValue(2) = 4 /\ PlaceValue(3) = 8
  /\ PlaceValue(4) = 16 /\ PlaceValue(5) = 32 /\ PlaceValue(6) = 64 /\ PlaceValue(7) = 128
  BY DEF PlaceValue

LEMMA EndBits ==
  ASSUME NEW value \in Octet
  PROVE  /\ Bit(value, 0) \in BOOLEAN /\ Bit(value, 7) \in BOOLEAN
         /\ Bit(value, 0) <=> value % 2 = 1
         /\ Bit(value, 7) <=> value > 127
<1>1. Bit(value, 0) \in BOOLEAN /\ Bit(value, 7) \in BOOLEAN
  BY DEF Bit
<1>2. Bit(value, 0) <=> (value \div 1) % 2 = 1
  BY PlaceValues DEF Bit
<1>3. Bit(value, 7) <=> (value \div 128) % 2 = 1
  BY PlaceValues DEF Bit
<1>4. value \div 1 = value
  BY Z3 DEF Octet
<1>5. (value \div 128) % 2 = 1 <=> value > 127
  BY Z3 DEF Octet
<1> QED
  BY <1>1, <1>2, <1>3, <1>4, <1>5

\* What the rotations make of a value, in numbers.
Rotates(value, f) ==
  /\ Shift(0, value, f).r = IF value > 127 THEN 2 * value - 255 ELSE 2 * value
  /\ Shift(1, value, f).r = (value \div 2) + 128 * (value % 2)
  /\ Shift(2, value, f).r = (IF value > 127 THEN 2 * value - 256 ELSE 2 * value) + Of(f.c)
  /\ Shift(3, value, f).r = (value \div 2) + 128 * Of(f.c)
  /\ Shift(6, value, f).r = (value % 16) * 16 + (value \div 16)
  /\ Shift(2, value, f).f.c = (value > 127)
  /\ Shift(3, value, f).f.c = (value % 2 = 1)

LEMMA ShiftIs ==
  ASSUME NEW value \in Octet, NEW f \in Flags
  PROVE  (\A y \in 0 .. 7 : Shift(y, value, f) \in Registers) /\ Rotates(value, f)
<1> DEFINE left == (value * 2) % 256
           right == value \div 2
           e == Of(f.c)
           low == Of(Bit(value, 0))
           top == Of(Bit(value, 7))
           swapped == (value % 16) * 16 + (value \div 16)
           Carry(y) == IF y \in {0, 2, 4} THEN Bit(value, 7) ELSE y # 6 /\ Bit(value, 0)
           g(y) == [NoFlags EXCEPT !.c = Carry(y)]
<1>1. \A y \in 0 .. 7 : g(y) \in Flags /\ g(y).c = Carry(y)
  <2> SUFFICES ASSUME NEW y \in 0 .. 7 PROVE g(y) \in Flags /\ g(y).c = Carry(y)
    OBVIOUS
  <2>1. Carry(y) \in BOOLEAN
    BY EndBits
  <2> DEFINE c == Carry(y)
  <2> HIDE DEF c
  <2> QED
    BY <2>1, NoFlagsKeep DEF c
<1>2. /\ low = value % 2 /\ top = (IF value > 127 THEN 1 ELSE 0) /\ e \in 0 .. 1
  <2>1. value % 2 \in 0 .. 1
    BY Z3 DEF Octet
  <2> QED
    BY <2>1, EndBits, OfIs DEF Of, Flags
<1>3. left = IF value > 127 THEN 2 * value - 256 ELSE 2 * value
  BY Z3 DEF Octet
<1>4. right \in 0 .. 127 /\ (value > 127 <=> right >= 64) /\ value % 2 \in 0 .. 1
  BY Z3 DEF Octet
<1>5. swapped \in Octet
  BY Z3 DEF Octet
<1>6. /\ left + top \in Octet /\ right + 128 * low \in Octet /\ left + e \in Octet
      /\ right + 128 * e \in Octet /\ left \in Octet /\ right + 128 * top \in Octet
      /\ right \in Octet
  <2> HIDE DEF left, right, e, low, top
  <2> QED
    BY <1>2, <1>3, <1>4 DEF Octet
<1>7. /\ Shift(0, value, f) = Zero(left + top, g(0))
      /\ Shift(1, value, f) = Zero(right + 128 * low, g(1))
      /\ Shift(2, value, f) = Zero(left + e, g(2))
      /\ Shift(3, value, f) = Zero(right + 128 * e, g(3))
      /\ Shift(4, value, f) = Zero(left, g(4))
      /\ Shift(5, value, f) = Zero(right + 128 * top, g(5))
      /\ Shift(6, value, f) = Zero(swapped, g(6))
      /\ Shift(7, value, f) = Zero(right, g(7))
  BY DEF Shift
<1> HIDE DEF left, right, e, low, top, swapped, g
<1>8. \A y \in 0 .. 7 : Shift(y, value, f) \in Registers
  BY <1>1, <1>5, <1>6, <1>7, ZeroKeeps
<1>9. /\ Shift(0, value, f).r = left + top /\ Shift(1, value, f).r = right + 128 * low
      /\ Shift(2, value, f).r = left + e /\ Shift(3, value, f).r = right + 128 * e
      /\ Shift(6, value, f).r = swapped
  BY <1>1, <1>5, <1>6, <1>7, ZeroKeeps
<1>10. Shift(2, value, f).f.c = Bit(value, 7) /\ Shift(3, value, f).f.c = Bit(value, 0)
  <2>1. g(2).c = Bit(value, 7) /\ g(3).c = Bit(value, 0)
    BY <1>1, EndBits
  <2> QED
    BY <1>1, <1>6, <1>7, <2>1, ZeroKeeps
<1>11. Bit(value, 7) = (value > 127) /\ Bit(value, 0) = (value % 2 = 1)
  BY EndBits
<1>12. left + top = IF value > 127 THEN 2 * value - 255 ELSE 2 * value
  BY <1>2, <1>3 DEF Octet
<1> QED
  BY <1>2, <1>3, <1>8, <1>9, <1>10, <1>11, <1>12 DEF right, swapped, e, Rotates

\* Testing, clearing and setting one bit.
LEMMA BitsOf ==
  ASSUME NEW value \in Octet, NEW y \in 0 .. 7
  PROVE  /\ Bit(value, y) \in BOOLEAN
         /\ Bit(value, y) => /\ value - PlaceValue(y) \in Octet
                             /\ ~ Bit(value - PlaceValue(y), y)
         /\ ~ Bit(value, y) => /\ value + PlaceValue(y) \in Octet
                               /\ Bit(value + PlaceValue(y), y)
<1> DEFINE Holds(p) ==
             /\ (value \div p) % 2 = 1 => value - p \in 0 .. 255 /\ ((value - p) \div p) % 2 # 1
             /\ (value \div p) % 2 # 1 => value + p \in 0 .. 255 /\ ((value + p) \div p) % 2 = 1
<1>1. Holds(1) /\ Holds(2) /\ Holds(4) /\ Holds(8)
  BY Z3 DEF Octet
<1>2. Holds(16) /\ Holds(32) /\ Holds(64) /\ Holds(128)
  BY Z3 DEF Octet
<1> HIDE DEF Holds
<1>3. Holds(PlaceValue(y))
  BY <1>1, <1>2, PlaceValues
<1> QED
  BY <1>3 DEF Holds, Bit, Octet

LEMMA CbKeeps ==
  ASSUME NEW x \in 0 .. 3, NEW y \in 0 .. 7, NEW value \in Octet, NEW f \in Flags
  PROVE  ExecuteCb(x, y, value, f) \in Registers
<1>1. CASE x = 0
  BY <1>1, ShiftIs DEF ExecuteCb
<1>2. CASE x = 1
  <2> DEFINE z == ~ Bit(value, y)
  <2>1. ExecuteCb(x, y, value, f) = Result(value, [z |-> z, n |-> FALSE, h |-> TRUE, c |-> f.c])
    BY <1>2 DEF ExecuteCb
  <2>2. z \in BOOLEAN /\ f.c \in BOOLEAN
    BY DEF Flags
  <2> HIDE DEF z
  <2> QED
    BY <2>1, <2>2, ConditionsAreFlags
<1>3. CASE x \in {2, 3}
  <2>1. \E r \in Octet : ExecuteCb(x, y, value, f) = Result(r, f)
    BY <1>3, BitsOf DEF ExecuteCb
  <2> QED
    BY <2>1, ResultKeeps
<1> QED
  BY <1>1, <1>2, <1>3

LEMMA MiscKeeps ==
  ASSUME NEW operation \in 0 .. 7, NEW a \in Octet, NEW f \in Flags
  PROVE  AccumulatorMisc(operation, a, f) \in Registers
<1>1. CASE operation \in 0 .. 3
  <2> DEFINE s == Shift(operation, a, f)
             g == [s.f EXCEPT !.z = FALSE]
  <2>1. s \in Registers
    BY <1>1, ShiftIs
  <2>2. AccumulatorMisc(operation, a, f) = Result(s.r, g)
    BY <1>1 DEF AccumulatorMisc
  <2> HIDE DEF s
  <2>3. s.r \in Octet /\ g \in Flags
    BY <2>1 DEF Registers, Flags
  <2> HIDE DEF g
  <2> QED
    BY <2>2, <2>3, ResultKeeps
<1>2. CASE operation = 4
  <2> DEFINE low == f.h \/ (~ f.n /\ a % 16 > 9)
             high == f.c \/ (~ f.n /\ a > 153)
             correction == (IF low THEN 6 ELSE 0) + (IF high THEN 96 ELSE 0)
             r == (IF f.n THEN a - correction ELSE a + correction) % 256
             z == r = 0
  <2>1. Daa(a, f) = Result(r, [z |-> z, n |-> f.n, h |-> FALSE, c |-> high])
    BY Zenon DEF Daa
  <2>2. correction \in 0 .. 102
    <3> HIDE DEF low, high
    <3> QED
      OBVIOUS
  <2>3. z \in BOOLEAN /\ f.n \in BOOLEAN /\ high \in BOOLEAN
    BY DEF Flags
  <2>4. AccumulatorMisc(operation, a, f) = Daa(a, f)
    BY <1>2, DaaIs
  <2> HIDE DEF correction, high, z
  <2>5. r \in Octet
    BY <2>2, Z3 DEF Octet
  <2> HIDE DEF r
  <2> QED
    BY <2>1, <2>3, <2>4, <2>5, ConditionsAreFlags
<1>3. CASE operation = 5
  <2> DEFINE g == [f EXCEPT !.n = TRUE, !.h = TRUE]
  <2>1. 255 - a \in Octet
    BY DEF Octet
  <2>3. g \in Flags
    BY DEF Flags
  <2>2. AccumulatorMisc(operation, a, f) = Result(255 - a, g)
    BY <1>3 DEF AccumulatorMisc
  <2> HIDE DEF g
  <2> QED
    BY <2>1, <2>2, <2>3, ResultKeeps
<1>4. CASE operation \in {6, 7}
  <2> DEFINE g(c) == [NoFlags EXCEPT !.c = c, !.z = f.z]
  <2>1. ASSUME NEW c \in BOOLEAN PROVE g(c) \in Flags
    BY DEF Flags, NoFlags
  <2>2. AccumulatorMisc(operation, a, f) \in {Result(a, g(TRUE)), Result(a, g(~ f.c))}
    BY <1>4 DEF AccumulatorMisc
  <2>3. g(TRUE) \in Flags /\ g(~ f.c) \in Flags
    BY <2>1
  <2> HIDE DEF g
  <2> QED
    BY <2>2, <2>3, ResultKeeps
<1> QED
  BY <1>1, <1>2, <1>3, <1>4

\* What an addition of bytes leaves, and the half carry of a subtraction.
IsSum(x, a, b, carry) ==
  /\ x.r = (a + b + Of(carry)) % 256
  /\ x.f.h = ((a % 16) + (b % 16) + Of(carry) > 15)
  /\ x.f.c = (a + b + Of(carry) > 255)

IsDifference(x, a, b, carry) == x.f.h = (a % 16 < (b % 16) + Of(carry))

LEMMA SumFields ==
  ASSUME NEW a, NEW b, NEW carry
  PROVE  /\ IsSum(Add8(a, b, carry), a, b, carry)
         /\ IsDifference(Sub8(a, b, carry), a, b, carry)
<1> DEFINE s == a + b + Of(carry)
           d == a - b - Of(carry)
           r1 == s % 256
           r2 == d % 256
           z1 == r1 = 0
           z2 == r2 = 0
           h1 == (a % 16) + (b % 16) + Of(carry) > 15
           h2 == a % 16 < (b % 16) + Of(carry)
           c1 == s > 255
           c2 == d < 0
<1>1. Add8(a, b, carry) = [r |-> r1, f |-> [z |-> z1, n |-> FALSE, h |-> h1, c |-> c1]]
  BY Zenon DEF Add8, Result
<1>2. Sub8(a, b, carry) = [r |-> r2, f |-> [z |-> z2, n |-> TRUE, h |-> h2, c |-> c2]]
  BY Zenon DEF Sub8, Result
<1> HIDE DEF r1, r2, z1, z2, h1, h2, c1, c2
<1>3. /\ Add8(a, b, carry).r = r1 /\ Add8(a, b, carry).f.h = h1
      /\ Add8(a, b, carry).f.c = c1 /\ Sub8(a, b, carry).f.h = h2
  BY <1>1, <1>2
<1> QED
  BY <1>3, Zenon DEF r1, h1, c1, h2, IsSum, IsDifference

LEMMA CountFields ==
  ASSUME NEW a, NEW carry
  PROVE  /\ Inc8(a, carry).r = (a + 1) % 256 /\ Inc8(a, carry).f.h = (a % 16 = 15)
         /\ Dec8(a, carry).r = (a - 1) % 256 /\ Dec8(a, carry).f.h = (a % 16 = 0)
<1> DEFINE r1 == (a + 1) % 256
           r2 == (a - 1) % 256
           z1 == r1 = 0
           z2 == r2 = 0
           h1 == a % 16 = 15
           h2 == a % 16 = 0
<1>1. Inc8(a, carry) = [r |-> r1, f |-> [z |-> z1, n |-> FALSE, h |-> h1, c |-> carry]]
  BY Zenon DEF Inc8, Result
<1>2. Dec8(a, carry) = [r |-> r2, f |-> [z |-> z2, n |-> TRUE, h |-> h2, c |-> carry]]
  BY Zenon DEF Dec8, Result
<1> HIDE DEF r1, r2, z1, z2, h1, h2
<1>3. /\ Inc8(a, carry).r = r1 /\ Inc8(a, carry).f.h = h1
      /\ Dec8(a, carry).r = r2 /\ Dec8(a, carry).f.h = h2
  BY <1>1, <1>2
<1> QED
  BY <1>3, Zenon DEF r1, h1, r2, h2

\* What the additions to HL and to SP leave.
IsWordSum(x, left, right) ==
  /\ x.r = (left + right) % 65536
  /\ x.f.h = ((left % 4096) + (right % 4096) > 4095)
  /\ x.f.c = (left + right > 65535)

IsMoved(x, left, right) ==
  /\ x.r = (left + (IF right > 127 THEN right - 256 ELSE right)) % 65536
  /\ x.f.h = ((left % 16) + (right % 16) > 15)
  /\ x.f.c = ((left % 256) + right > 255)

LEMMA WordFields ==
  ASSUME NEW left, NEW right, NEW f
  PROVE  IsWordSum(AddHl(left, right, f), left, right) /\ IsMoved(AddSp(left, right), left, right)
<1> DEFINE r1 == (left + right) % 65536
           r2 == (left + (IF right > 127 THEN right - 256 ELSE right)) % 65536
           h1 == (left % 4096) + (right % 4096) > 4095
           h2 == (left % 16) + (right % 16) > 15
           c1 == left + right > 65535
           c2 == (left % 256) + right > 255
<1>1. AddHl(left, right, f) = [r |-> r1, f |-> [z |-> f.z, n |-> FALSE, h |-> h1, c |-> c1]]
  BY DEF AddHl, Result
<1>2. AddSp(left, right) = [r |-> r2, f |-> [z |-> FALSE, n |-> FALSE, h |-> h2, c |-> c2]]
  BY DEF AddSp, Result
<1> HIDE DEF r1, r2, h1, h2, c1, c2
<1>3. /\ AddHl(left, right, f).r = r1 /\ AddHl(left, right, f).f.h = h1
      /\ AddHl(left, right, f).f.c = c1 /\ AddSp(left, right).r = r2
      /\ AddSp(left, right).f.h = h2 /\ AddSp(left, right).f.c = c2
  BY <1>1, <1>2
<1> QED
  BY <1>3 DEF r1, r2, h1, h2, c1, c2, IsWordSum, IsMoved

\* The word operations on two words, and the bytes a, b and c, d of these.
AsBytes(left, right, a, b, c, d, f) ==
  LET low == Add8(b, d, FALSE)
      high == Add8(a, c, low.f.c)
      hl == AddHl(left, right, f)
      sp == AddSp(left, d)
  IN  /\ hl.r = high.r * 256 + low.r
      /\ hl.f.h = high.f.h /\ hl.f.c = high.f.c
      /\ sp.r % 256 = low.r
      /\ sp.f.h = low.f.h /\ sp.f.c = low.f.c

\* The carry between two bytes makes them a word.
LEMMA WordsAgree ==
  ASSUME NEW a \in Octet, NEW b \in Octet, NEW c \in Octet, NEW d \in Octet, NEW f \in Flags
  PROVE  AsBytes(256 * a + b, 256 * c + d, a, b, c, d, f)
<1> DEFINE left == 256 * a + b
           right == 256 * c + d
           no == FALSE
           low == Add8(b, d, no)
           high == Add8(a, c, low.f.c)
           hl == AddHl(left, right, f)
           sp == AddSp(left, d)
           k == b + d + Of(no) > 255
           e == Of(k)
           word == (left + right) % 65536
           moved == (left + (IF d > 127 THEN d - 256 ELSE d)) % 65536
           lowByte == (b + d + Of(no)) % 256
           highByte == (a + c + e) % 256
           h1 == (left % 4096) + (right % 4096) > 4095
           h2 == (left % 16) + (d % 16) > 15
           h3 == (a % 16) + (c % 16) + e > 15
           h4 == (b % 16) + (d % 16) + Of(no) > 15
           c1 == left + right > 65535
           c2 == (left % 256) + d > 255
           c3 == a + c + e > 255
<1>1. Of(no) = 0
  BY DEF Of
<1>2. e \in 0 .. 1 /\ (e = 1 <=> k)
  <2>1. k \in BOOLEAN
    OBVIOUS
  <2> HIDE DEF k
  <2> QED
    BY <2>1, OfIs
<1> HIDE DEF no
<1>3. low.r = lowByte /\ low.f.h = h4 /\ low.f.c = k
  <2>1. IsSum(low, b, d, no)
    BY SumFields
  <2> HIDE DEF low
  <2> QED
    BY <2>1 DEF IsSum
<1>4. high.r = highByte /\ high.f.h = h3 /\ high.f.c = c3
  <2>1. IsSum(Add8(a, c, k), a, c, k)
    BY SumFields
  <2>2. high = Add8(a, c, k)
    BY <1>3
  <2> HIDE DEF high, k
  <2> QED
    BY <2>1, <2>2 DEF IsSum
<1>5. hl.r = word /\ hl.f.h = h1 /\ hl.f.c = c1
  <2> HIDE DEF left, right
  <2>1. IsWordSum(hl, left, right)
    BY WordFields
  <2> HIDE DEF hl
  <2> QED
    BY <2>1 DEF IsWordSum
<1>6. sp.r = moved /\ sp.f.h = h2 /\ sp.f.c = c2
  <2> HIDE DEF left, right
  <2>1. IsMoved(sp, left, d)
    BY WordFields
  <2> HIDE DEF sp
  <2> QED
    BY <2>1 DEF IsMoved
<1> HIDE DEF low, high, hl, sp, e
<1>7. lowByte = (b + d) % 256 /\ (k <=> b + d > 255) /\ (h4 <=> (b % 16) + (d % 16) > 15)
  BY <1>1, Z3 DEF Octet
<1>8. word = highByte * 256 + lowByte
  <2> HIDE DEF k, lowByte
  <2> QED
    BY <1>2, <1>7, Z3 DEF Octet
<1>9. h1 = h3 /\ c1 = c3
  <2> HIDE DEF k
  <2>1. left % 4096 = 256 * (a % 16) + b /\ right % 4096 = 256 * (c % 16) + d
    BY Z3 DEF Octet
  <2>2. h1 <=> h3
    <3> DEFINE x == a % 16
               y == c % 16
               p == left % 4096
               q == right % 4096
    <3>1. x \in Nat /\ y \in Nat
      BY Z3 DEF Octet
    <3>2. p = 256 * x + b /\ q = 256 * y + d
      BY <2>1
    <3> HIDE DEF x, y, p, q, left, right
    <3>3. p + q > 4095 <=> x + y + e > 15
      BY <1>2, <1>7, <3>1, <3>2 DEF Octet
    <3> QED
      BY <3>3 DEF x, y, p, q
  <2>3. c1 <=> c3
    BY <1>2, <1>7, Z3 DEF Octet
  <2>4. h1 \in BOOLEAN /\ h3 \in BOOLEAN /\ c1 \in BOOLEAN /\ c3 \in BOOLEAN
    OBVIOUS
  <2> HIDE DEF h1, h3, c1, c3
  <2> QED
    BY <2>2, <2>3, <2>4
<1>10. moved % 256 = lowByte
  <2> HIDE DEF lowByte
  <2> QED
    BY <1>7, Z3 DEF Octet
<1>11. h2 = h4 /\ c2 = k
  <2>1. left % 16 = b % 16 /\ left % 256 = b
    BY Z3 DEF Octet
  <2>2. h2 \in BOOLEAN /\ h4 \in BOOLEAN /\ c2 \in BOOLEAN /\ k \in BOOLEAN
    OBVIOUS
  <2> HIDE DEF h4, k
  <2>3. (h2 <=> h4) /\ (c2 <=> k)
    BY <1>7, <2>1
  <2> HIDE DEF h2, c2
  <2> QED
    BY <2>2, <2>3
<1> HIDE DEF word, moved, h1, h2, h3, h4, c1, c2, c3, k, lowByte, highByte
<1>12. /\ hl.r = high.r * 256 + low.r /\ hl.f.h = high.f.h /\ hl.f.c = high.f.c
       /\ sp.r % 256 = low.r /\ sp.f.h = low.f.h /\ sp.f.c = low.f.c
  BY <1>3, <1>4, <1>5, <1>6, <1>8, <1>9, <1>10, <1>11
<1> QED
  BY <1>12 DEF AsBytes, hl, sp, low, high, no

\* A value after a rotation is a byte again, and the way back is exact.
Return(value, f) ==
  LET Back(y, z) == LET first == ExecuteCb(0, y, value, f)
                    IN  ExecuteCb(0, z, first.r, first.f)
  IN  /\ Back(0, 1).r = value /\ Back(1, 0).r = value /\ Back(6, 6).r = value
      /\ Back(2, 3).r = value /\ Back(2, 3).f.c = f.c
      /\ Back(3, 2).r = value /\ Back(3, 2).f.c = f.c

LEMMA RotationsReturn ==
  ASSUME NEW value \in Octet, NEW f \in Flags
  PROVE  Return(value, f)
<1> DEFINE First(y) == Shift(y, value, f)
           Twice(y, z) == Shift(z, First(y).r, First(y).f)
           v == value
           e == Of(f.c)
<1>1. \A y \in 0 .. 7 : \A x, g : ExecuteCb(0, y, x, g) = Shift(y, x, g)
  BY DEF ExecuteCb
<1>2. \A y \in 0 .. 7 : First(y).r \in Octet /\ First(y).f \in Flags
  <2>1. \A y \in 0 .. 7 : First(y) \in Registers
    BY ShiftIs
  <2> QED
    BY <2>1 DEF Registers
<1>3. v \in 0 .. 255 /\ e \in 0 .. 1 /\ f.c \in BOOLEAN /\ (e = 1 <=> f.c)
  BY OfIs DEF Octet, Flags, Of
<1> DEFINE Again(y) == Rotates(First(y).r, First(y).f)
<1>4. Rotates(value, f) /\ \A y \in 0 .. 7 : Again(y)
  BY <1>2, ShiftIs
<1>5. Again(0) /\ Again(1) /\ Again(6) /\ Again(2) /\ Again(3)
  BY <1>4
<1>6. Twice(0, 1).r = v
  <2> DEFINE x == First(0).r
  <2>1. x = IF v > 127 THEN 2 * v - 255 ELSE 2 * v
    BY <1>4 DEF Rotates
  <2>2. Twice(0, 1).r = (x \div 2) + 128 * (x % 2)
    BY <1>5 DEF Rotates
  <2> HIDE DEF v, x, Twice
  <2> QED
    BY <1>3, <2>1, <2>2, Z3
<1>7. Twice(1, 0).r = v
  <2> DEFINE x == First(1).r
  <2>1. x = (v \div 2) + 128 * (v % 2)
    BY <1>4 DEF Rotates
  <2>2. Twice(1, 0).r = IF x > 127 THEN 2 * x - 255 ELSE 2 * x
    BY <1>5 DEF Rotates
  <2> HIDE DEF v, x, Twice
  <2> QED
    BY <1>3, <2>1, <2>2, Z3
<1>8. Twice(6, 6).r = v
  <2> DEFINE x == First(6).r
  <2>1. x = (v % 16) * 16 + (v \div 16)
    BY <1>4 DEF Rotates
  <2>2. Twice(6, 6).r = (x % 16) * 16 + (x \div 16)
    BY <1>5 DEF Rotates
  <2> HIDE DEF v, x, Twice
  <2> QED
    BY <1>3, <2>1, <2>2, Z3
<1>9. Twice(2, 3).r = v /\ Twice(2, 3).f.c = f.c
  <2> DEFINE x == First(2).r
             g == First(2).f
             d == Of(g.c)
  <2>6. g.c \in BOOLEAN
    BY <1>2 DEF Flags
  <2>1. x = (IF v > 127 THEN 2 * v - 256 ELSE 2 * v) + e /\ g.c = (v > 127)
    BY <1>4 DEF Rotates
  <2>2. Twice(2, 3).r = (x \div 2) + 128 * d /\ Twice(2, 3).f.c = (x % 2 = 1)
    BY <1>5 DEF Rotates
  <2> HIDE DEF v, x, g, Twice, e
  <2>3. d \in 0 .. 1 /\ (d = 1 <=> v > 127)
    BY <2>1, <2>6, OfIs
  <2> HIDE DEF d
  <2>4. (x \div 2) + 128 * d = v /\ (x % 2 = 1 <=> e = 1)
    BY <1>3, <2>1, <2>3, Z3
  <2>5. (x % 2 = 1) = f.c
    BY <1>3, <2>4
  <2> QED
    BY <2>2, <2>4, <2>5
<1>10. Twice(3, 2).r = v /\ Twice(3, 2).f.c = f.c
  <2> DEFINE x == First(3).r
             g == First(3).f
             d == Of(g.c)
  <2>6. g.c \in BOOLEAN
    BY <1>2 DEF Flags
  <2>1. x = (v \div 2) + 128 * e /\ g.c = (v % 2 = 1)
    BY <1>4 DEF Rotates
  <2>2. Twice(3, 2).r = (IF x > 127 THEN 2 * x - 256 ELSE 2 * x) + d /\ Twice(3, 2).f.c = (x > 127)
    BY <1>5 DEF Rotates
  <2> HIDE DEF v, x, g, Twice, e
  <2>3. d \in 0 .. 1 /\ (d = 1 <=> v % 2 = 1)
    BY <2>1, <2>6, OfIs
  <2> HIDE DEF d
  <2>4. (IF x > 127 THEN 2 * x - 256 ELSE 2 * x) + d = v /\ (x > 127 <=> e = 1)
    BY <1>3, <2>1, <2>3, Z3
  <2>5. (x > 127) = f.c
    BY <1>3, <2>4
  <2> QED
    BY <2>2, <2>4, <2>5
<1>11. \A y, z \in 0 .. 7 :
        ExecuteCb(0, z, ExecuteCb(0, y, value, f).r, ExecuteCb(0, y, value, f).f) = Twice(y, z)
  <2>1. \A y \in 0 .. 7 : ExecuteCb(0, y, value, f) = First(y)
    BY <1>1
  <2>2. \A y, z \in 0 .. 7 : ExecuteCb(0, z, First(y).r, First(y).f) = Twice(y, z)
    BY <1>1
  <2> HIDE DEF First, Twice
  <2> QED
    BY <2>1, <2>2
<1> HIDE DEF Twice, First, Again
<1> QED
  BY <1>6, <1>7, <1>8, <1>9, <1>10, <1>11 DEF v, Return

LEMMA BitsAgree ==
  ASSUME NEW value \in Octet, NEW f \in Flags, NEW y \in 0 .. 7
  PROVE  /\ ~ ExecuteCb(1, y, ExecuteCb(3, y, value, f).r, f).f.z
         /\ ExecuteCb(1, y, ExecuteCb(2, y, value, f).r, f).f.z
<1>1. ASSUME NEW r \in Octet
      PROVE  ExecuteCb(1, y, r, f).f.z = ~ Bit(r, y)
  <2> DEFINE z == ~ Bit(r, y)
  <2>1. ExecuteCb(1, y, r, f) = Result(r, [z |-> z, n |-> FALSE, h |-> TRUE, c |-> f.c])
    BY DEF ExecuteCb
  <2> HIDE DEF z
  <2>2. ExecuteCb(1, y, r, f).f.z = z
    BY <2>1 DEF Result
  <2> QED
    BY <2>2 DEF z
<1> DEFINE p == ExecuteCb(3, y, value, f).r
           q == ExecuteCb(2, y, value, f).r
<1>2. p = IF Bit(value, y) THEN value ELSE value + PlaceValue(y)
  BY DEF ExecuteCb, Result
<1>3. q = IF Bit(value, y) THEN value - PlaceValue(y) ELSE value
  BY DEF ExecuteCb, Result
<1> HIDE DEF p, q
<1>4. p \in Octet /\ Bit(p, y) /\ q \in Octet /\ ~ Bit(q, y)
  BY <1>2, <1>3, BitsOf
<1>5. Bit(p, y) \in BOOLEAN /\ Bit(q, y) \in BOOLEAN
  BY DEF Bit
<1> QED
  BY <1>1, <1>4, <1>5 DEF p, q

LEMMA CountsAgree ==
  ASSUME NEW value \in Octet, NEW carry \in BOOLEAN
  PROVE  /\ Inc8(Dec8(value, carry).r, carry).r = value
         /\ Dec8(value, carry).f.h = Sub8(value, 1, FALSE).f.h
         /\ Inc8(value, carry).f.h = Add8(value, 1, FALSE).f.h
<1> DEFINE d == Dec8(value, carry).r
           no == FALSE
           h1 == value % 16 = 15
           h2 == value % 16 = 0
           h3 == (value % 16) + (1 % 16) + Of(no) > 15
           h4 == value % 16 < (1 % 16) + Of(no)
<1>1. Of(no) = 0
  BY DEF Of
<1> HIDE DEF no
<1>2. d = (value - 1) % 256 /\ Inc8(d, carry).r = (d + 1) % 256
  BY CountFields
<1>3. (d + 1) % 256 = value
  BY <1>2, Z3 DEF Octet
<1>4. Inc8(value, carry).f.h = h1 /\ Dec8(value, carry).f.h = h2
  BY CountFields
<1>5. Add8(value, 1, no).f.h = h3 /\ Sub8(value, 1, no).f.h = h4
  BY SumFields DEF IsSum, IsDifference
<1>6. h1 = h3 /\ h2 = h4
  <2>1. (h1 <=> h3) /\ (h2 <=> h4)
    BY <1>1, Z3 DEF Octet
  <2>2. h1 \in BOOLEAN /\ h2 \in BOOLEAN /\ h3 \in BOOLEAN /\ h4 \in BOOLEAN
    OBVIOUS
  <2> HIDE DEF h1, h2, h3, h4
  <2> QED
    BY <2>1, <2>2
<1> HIDE DEF h1, h2, h3, h4
<1>7. Inc8(value, carry).f.h = Add8(value, 1, no).f.h /\ Dec8(value, carry).f.h = Sub8(value, 1, no).f.h
  BY <1>4, <1>5, <1>6
<1> QED
  BY <1>2, <1>3, <1>7 DEF no, d

\* The accumulator is a byte, its flags are four conditions.
AccTypeOK == acc \in Registers \cup {NoProgram}

LEMMA AccKeeps ==
  ASSUME AccTypeOK, [AccNext]_acc PROVE AccTypeOK'
<1>1. CASE StartProgram
  <2>1. 1 \in Octet /\ [z |-> TRUE, n |-> FALSE, h |-> TRUE, c |-> TRUE] \in Flags
    BY DEF Octet, Flags
  <2> QED
    BY <1>1, <2>1, ResultKeeps DEF StartProgram, AccTypeOK
<1>2. CASE Compute
  <2>1. acc.r \in Octet /\ acc.f \in Flags /\ acc.f.c \in BOOLEAN
    BY <1>2 DEF AccTypeOK, Compute, Registers, Flags
  <2>2. \A value \in Operands : value \in Octet
    BY ArithmeticAssumption DEF ArithmeticAssumption
  <2>3. CASE \E operation \in 0 .. 7, value \in Operands :
               acc' = Alu(operation, acc.r, value, acc.f)
    BY <2>1, <2>2, <2>3, AluKeeps DEF AccTypeOK
  <2>4. CASE \E operation \in 0 .. 7 : acc' = AccumulatorMisc(operation, acc.r, acc.f)
    BY <2>1, <2>4, MiscKeeps DEF AccTypeOK
  <2>5. CASE \E x \in 0 .. 3, y \in 0 .. 7 : acc' = ExecuteCb(x, y, acc.r, acc.f)
    BY <2>1, <2>5, CbKeeps DEF AccTypeOK
  <2>6. CASE acc' = Inc8(acc.r, acc.f.c) \/ acc' = Dec8(acc.r, acc.f.c)
    BY <2>1, <2>6, CountKeeps DEF AccTypeOK
  <2> QED
    BY <1>2, <2>3, <2>4, <2>5, <2>6 DEF Compute
<1>3. CASE UNCHANGED acc
  BY <1>3 DEF AccTypeOK
<1> QED
  BY <1>1, <1>2, <1>3 DEF AccNext

\* Whatever a game computes, DAA after an addition or a subtraction of decimal
\* bytes leaves the decimal result, and the word operations, the rotations, the
\* bits and the counters agree with the operations on bytes: for every byte in
\* the accumulator, all flags and any operands that the game computed with
\* (cpu/registers.rs:131, cpu/execute.rs:516, 528 and 591).
THEOREM ComputationIsExact == AccSpec => []ArithmeticIsExact
<1>1. AccInit => AccTypeOK
  BY DEF AccInit, AccTypeOK
<1>2. AccTypeOK /\ [AccNext]_acc => AccTypeOK'
  BY AccKeeps
<1>3. ASSUME AccTypeOK PROVE ArithmeticIsExact
  <2> SUFFICES ASSUME acc # NoProgram PROVE DecimalIsExact /\ OperationsAgree
    BY DEF ArithmeticIsExact
  <2>1. acc.r \in Octet /\ acc.f \in Flags /\ acc.f.c \in BOOLEAN
    BY <1>3 DEF AccTypeOK, Registers, Flags
  <2> DEFINE r == acc.r
             f == acc.f
  <2> HIDE DEF r, f
  <2>2. DecimalIsExact
    <3> SUFFICES ASSUME NEW m \in 0 .. 99, acc.r = Decimal(m), NEW n \in 0 .. 99
                 PROVE LET sum == Alu(1, acc.r, Decimal(n), acc.f)
                           difference == Alu(3, acc.r, Decimal(n), acc.f)
                           Exactly(result, number) ==
                             /\ result.r = Decimal(number % 100)
                             /\ result.f.c = (number \notin 0 .. 99)
                             /\ result.f.z = (number % 100 = 0)
                       IN  /\ Exactly(AccumulatorMisc(4, sum.r, sum.f), m + n + Of(acc.f.c))
                           /\ Exactly(AccumulatorMisc(4, difference.r, difference.f),
                                      m - n - Of(acc.f.c))
      BY Zenon DEF DecimalIsExact
    <3>1. f \in Flags /\ r = Decimal(m)
      BY <2>1 DEF r, f
    <3>2. LET sum == Alu(1, Decimal(m), Decimal(n), f)
              result == AccumulatorMisc(4, sum.r, sum.f)
              number == m + n + Of(f.c)
          IN  /\ result.r = Decimal(number % 100)
              /\ result.f.c = (number \notin 0 .. 99)
              /\ result.f.z = (number % 100 = 0)
      BY <3>1, SumIsDecimal
    <3>3. LET difference == Alu(3, Decimal(m), Decimal(n), f)
              result == AccumulatorMisc(4, difference.r, difference.f)
              number == m - n - Of(f.c)
          IN  /\ result.r = Decimal(number % 100)
              /\ result.f.c = (number \notin 0 .. 99)
              /\ result.f.z = (number % 100 = 0)
      BY <3>1, DifferenceIsDecimal
    <3> QED
      BY <3>2, <3>3, Zenon DEF f
  <2>3. OperationsAgree
    <3>1. f \in Flags /\ r \in Octet /\ f.c \in BOOLEAN
      BY <2>1 DEF r, f
    <3>2. ASSUME NEW high \in EdgeBytes, NEW low \in EdgeBytes, NEW byte \in EdgeBytes
          PROVE LET left == high * 256 + r
                    right == low * 256 + byte
                IN  AsBytes(left, right, left \div 256, left % 256, right \div 256, right % 256, f)
      <4> DEFINE left == high * 256 + r
                 right == low * 256 + byte
      <4>1. high \in Octet /\ low \in Octet /\ byte \in Octet
        BY DEF EdgeBytes, Octet
      <4>2. left % 256 = r /\ left \div 256 = high /\ right % 256 = byte /\ right \div 256 = low
        BY <3>1, <4>1, Z3 DEF Octet
      <4>3. left = 256 * high + r /\ right = 256 * low + byte
        BY <3>1, <4>1 DEF Octet
      <4>4. AsBytes(256 * high + r, 256 * low + byte, high, r, low, byte, f)
        BY <3>1, <4>1, WordsAgree
      <4> QED
        BY <4>2, <4>3, <4>4
    <3>3. Return(r, f)
      BY <3>1, RotationsReturn
    <3>4. \A y \in 0 .. 7 : /\ ~ ExecuteCb(1, y, ExecuteCb(3, y, r, f).r, f).f.z
                            /\ ExecuteCb(1, y, ExecuteCb(2, y, r, f).r, f).f.z
      BY <3>1, BitsAgree
    <3>5. /\ Inc8(Dec8(r, f.c).r, f.c).r = r
          /\ Dec8(r, f.c).f.h = Sub8(r, 1, FALSE).f.h
          /\ Inc8(r, f.c).f.h = Add8(r, 1, FALSE).f.h
      BY <3>1, CountsAgree
    <3> QED
      BY <3>2, <3>3, <3>4, <3>5, Zenon DEF OperationsAgree, AsBytes, Return, r, f
  <2> QED
    BY <2>2, <2>3
<1> QED
  BY <1>1, <1>2, <1>3, PTL DEF AccSpec
=============================================================================
