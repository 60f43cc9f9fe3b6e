------------------------------- MODULE Timer -------------------------------
(* The timer of the emulator core (crates/gb-core/src/timer.rs): a free     *)
(* running divider, one bit of which, chosen by TAC, counts TIMA up when it *)
(* falls.  An overflow of TIMA shows as zero for four T-cycles; then TIMA   *)
(* is loaded from TMA and the interrupt is requested, unless a write to     *)
(* TIMA came first.                                                         *)
EXTENDS Naturals

CONSTANTS
  DividerSize,  \* the divider counts modulo this: 2^16 in the code
  CounterSize,  \* TIMA and TMA are below this: 256 in the code
  BitWeight     \* the weight of the divider bit that each clock select
                \* chooses: <<512, 8, 32, 128>>, bits 9, 3, 5 and 7

TimerAssumption ==
  /\ DividerSize \in Nat /\ DividerSize > 4
  /\ CounterSize \in Nat \ {0}
  /\ 1 \in DOMAIN BitWeight
  /\ \A s \in DOMAIN BitWeight :
       /\ BitWeight[s] \in Nat \ {0}
       /\ BitWeight[s] % 2 = 0
       /\ DividerSize % (2 * BitWeight[s]) = 0

ASSUME TimerAssumption

ReloadDelay == 4

Counter == 0 .. CounterSize - 1
Select == DOMAIN BitWeight

TimerState ==
  [divider : 0 .. DividerSize - 1,
   tima : Counter,
   tma : Counter,
   enabled : BOOLEAN,
   select : Select,
   reloadDelay : 0 .. ReloadDelay,  \* 0 while no reload is due
   reloaded : BOOLEAN]              \* TIMA was loaded in this T-cycle

\* The code starts the divider at 0xabcc, all but the lowest bits of which
\* the boot program determines.
InitialTimer ==
  [divider |-> 43980 % DividerSize, tima |-> 0, tma |-> 0, enabled |-> FALSE,
   select |-> 1, reloadDelay |-> 0, reloaded |-> FALSE]

TimerInput(t) ==
  /\ t.enabled
  /\ (t.divider \div BitWeight[t.select]) % 2 = 1

\* Mutant: an overflow goes unnoticed.
CountOnly(t) == [t EXCEPT !.tima = (@ + 1) % CounterSize]

IncrementTima(t) ==
  IF t.reloadDelay > 0 THEN t
  ELSE IF t.tima = CounterSize - 1
       THEN [t EXCEPT !.tima = 0, !.reloadDelay = ReloadDelay]
       ELSE [t EXCEPT !.tima = @ + 1]

\* What a change of the divider or of TAC does to TIMA.
FallingEdge(before, after) ==
  IF TimerInput(before) /\ ~ TimerInput(after) THEN IncrementTima(after) ELSE after

WriteDivider(t) == FallingEdge(t, [t EXCEPT !.divider = 0])

WriteTima(t, value) ==
  IF t.reloaded THEN t ELSE [t EXCEPT !.tima = value, !.reloadDelay = 0]

WriteTma(t, value) ==
  [t EXCEPT !.tma = value, !.tima = IF t.reloaded THEN value ELSE @]

WriteTac(t, enabled, select) ==
  FallingEdge(t, [t EXCEPT !.enabled = enabled, !.select = select])

Reload(t) ==
  IF t.reloadDelay = 1
  THEN [t EXCEPT !.reloadDelay = 0, !.tima = t.tma, !.reloaded = TRUE]
  ELSE [t EXCEPT !.reloadDelay = IF @ = 0 THEN 0 ELSE @ - 1, !.reloaded = FALSE]

AdvanceDivider(t) == FallingEdge(t, [t EXCEPT !.divider = (@ + 1) % DividerSize])

TickTCycle(t) == AdvanceDivider(Reload(t))

\* One M-cycle: the timer after four T-cycles, and whether it requested its
\* interrupt in one of them.
Note(r, t) == [timer |-> t, overflow |-> r.overflow \/ t.reloaded]

ThenTick(r) == Note(r, TickTCycle(r.timer))

TickMCycle(t) ==
  ThenTick(ThenTick(ThenTick(ThenTick([timer |-> t, overflow |-> FALSE]))))
=============================================================================
