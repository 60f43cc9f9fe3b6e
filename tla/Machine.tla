------------------------------ MODULE Machine ------------------------------
(* The emulated machine of the core (crates/gb-core/src/machine.rs): the    *)
(* control of the CPU (cpu/execute.rs) and the bus that clocks the devices  *)
(* while an instruction runs (bus/mod.rs, bus/dma.rs).  Memory is abstract: *)
(* a step takes the bytes at the program counter, the flags and the places  *)
(* that the instruction writes to from what the loaded game may contain.    *)
(* The picture and the sound appear as the interrupts they raise and as the *)
(* mirror of the divider that the sound keeps.                              *)
EXTENDS Interrupts, Timer, Joypad, Instructions

CONSTANTS
  Game,       \* the games that may be loaded
  NoGame,     \* no game is loaded
  Inputs,     \* Inputs[g]: what a step of a game may find, see StepInput
  Presses,    \* Presses[g]: the <<source, buttons>> that a player may hold in it
  DmaLength   \* the bytes that a DMA transfer copies: 160 in the code

\* Where two bytes of code lie that follow each other.  What a device shows may
\* be another byte an M-cycle later: the picture locks its memories, and the
\* registers move.  The register IE follows the high memory, and the program
\* counter wraps behind it.  Everything else, ROM and the unused addresses
\* included, is memory that changes only when it is written.
Neighbours ==
  {<<"memory", "memory">>, <<"memory", "device">>, <<"device", "device">>,
   <<"device", "memory">>, <<"memory", "hram">>, <<"hram", "hram">>,
   <<"hram", "ie">>, <<"ie", "memory">>}

\* What can be written to a place.
Stored(place) ==
  CASE place \in {"tima", "tma"} -> Counter
    [] place = "tac"            -> BOOLEAN \X Select
    [] place = "oam"            -> 0 .. DmaLength - 1
    [] place = "joypad"         -> SUBSET Row
    [] place \in {"if", "ie"}   -> SUBSET Interrupt
    [] OTHER                    -> Nat

\* What one step finds: the opcode and the byte after it, where they lie, what
\* a device shows in their place an M-cycle later, the flags, what the writes
\* of the step store, and the M-cycle that ends with a VBlank (0 for none).
StepInput(input) ==
  /\ input.code \in Byte \X Byte
  /\ input.region \in Neighbours
  /\ input.later \in Byte \X Byte
  /\ input.flags \subseteq Flag
  /\ \A i \in {1, 2} : input.stores[i][2] \in Stored(input.stores[i][1])
  /\ input.vblank \in Nat

MachineAssumption ==
  /\ DmaLength \in Nat \ {0}
  /\ \A g \in Game : \A input \in Inputs[g] : StepInput(input)
  /\ \A g \in Game : Presses[g] \subseteq Source \X Buttons

ASSUME MachineAssumption

VARIABLES game, cpu, bus, inputs

vars == <<game, cpu, bus, inputs>>

Mode == {"Running", "Halted", "Stopped"}

PostBootCpu == [ime |-> FALSE, delay |-> 0, mode |-> "Running", haltBug |-> FALSE]

\* Mutant: a new bus does not know what is held.
FreshBusReleased(state) ==
  [timer |-> InitialTimer, mirror |-> InitialTimer.divider,
   dma |-> [active |-> FALSE, index |-> 0, source |-> 0],
   oam |-> [i \in 0 .. DmaLength - 1 |-> 0],
   irq |-> NoInterrupts, joypad |-> InitialJoypad]

\* MachineBus::new and MachineBus::reset.
FreshBus(state) ==
  LET joypad == SetState(InitialJoypad, state)
  IN  [timer |-> InitialTimer,
       mirror |-> InitialTimer.divider,    \* the divider as the sound sees it
       dma |-> [active |-> FALSE, index |-> 0, source |-> 0],
       oam |-> [i \in 0 .. DmaLength - 1 |-> 0],
       irq |-> Request(NoInterrupts,
                       IF Fell(InitialJoypad, joypad) THEN {JoypadPressed} ELSE {}),
       joypad |-> joypad]

-----------------------------------------------------------------------------
(* The bus.                                                                 *)

AdvanceDma(dma) ==
  [dma EXCEPT !.index = @ + 1, !.active = dma.index + 1 # DmaLength]

\* One M-cycle of the devices, given the timer after it; video is what the
\* picture requests in it.
TickDevices(b, ticked, video) ==
  [timer |-> ticked.timer,
   mirror |-> (b.mirror + 4) % DividerSize,
   dma |-> IF b.dma.active THEN AdvanceDma(b.dma) ELSE b.dma,
   oam |-> IF b.dma.active THEN [b.oam EXCEPT ![b.dma.index] = b.dma.source] ELSE b.oam,
   irq |-> Request(b.irq, (IF ticked.overflow THEN {TimerOverflow} ELSE {}) \cup video),
   joypad |-> b.joypad]

TickBus(b, video) == TickDevices(b, TickMCycle(b.timer), video)

\* A step is a record: the state of the CPU and of the bus, the M-cycles that
\* passed, and what the program holds for it.
Tick(s) ==
  LET video == IF s.input.vblank = s.elapsed + 1 THEN {VBlank} ELSE {}
  IN  [s EXCEPT !.elapsed = @ + 1, !.bus = TickBus(@, video)]

\* Mutant: the sound is not told.
ResetTimerOnly(b) == [b EXCEPT !.timer = WriteDivider(@)]

\* A write of DIV, and STOP: both dividers start over.
ResetDivider(b) == [b EXCEPT !.timer = WriteDivider(@), !.mirror = 0]

WriteJoypad(b, selected) ==
  LET joypad == WriteSelect(b.joypad, selected)
  IN  [b EXCEPT !.joypad = joypad,
                !.irq = Request(@, IF Fell(b.joypad, joypad) THEN {JoypadPressed} ELSE {})]

WriteUnclocked(b, place, value) ==
  CASE place = "div"    -> ResetDivider(b)
    [] place = "tima"   -> [b EXCEPT !.timer = WriteTima(@, value)]
    [] place = "tma"    -> [b EXCEPT !.timer = WriteTma(@, value)]
    [] place = "tac"    -> [b EXCEPT !.timer = WriteTac(@, value[1], value[2])]
    [] place = "oam"    -> [b EXCEPT !.oam[value] = 0]
    [] place = "dma"    -> [b EXCEPT !.dma = [active |-> TRUE, index |-> 0, source |-> value]]
    [] place = "joypad" -> WriteJoypad(b, value)
    [] place = "serial" -> [b EXCEPT !.irq = Request(@, {SerialDone})]
    [] place = "video"  -> [b EXCEPT !.irq = Request(@, {LcdStat})]
    [] place = "if"     -> [b EXCEPT !.irq.flags = value]
    [] place = "ie"     -> [b EXCEPT !.irq.enable = value]
    [] OTHER            -> b    \* memory whose contents are abstract

\* Mutant: a transfer holds no write off.
WriteThroughDma(s, place, value) ==
  [Tick(s) EXCEPT !.bus = WriteUnclocked(@, place, value)]

\* Registers of the timer and the memory of the picture are written before
\* the M-cycle passes, everything else after it.
Write8(s, place, value) ==
  LET allowed == ~ s.bus.dma.active \/ place \in {"hram", "dma"}
      first == place \in {"div", "tima", "tma", "tac", "oam"}
      early == IF allowed /\ first
               THEN [s EXCEPT !.bus = WriteUnclocked(@, place, value)] ELSE s
      ticked == Tick(early)
  IN  IF allowed /\ ~ first
      THEN [ticked EXCEPT !.bus = WriteUnclocked(@, place, value)] ELSE ticked

\* The byte at position i of the code.  A DMA transfer leaves the CPU nothing
\* but the high memory; behind its last address is the register IE.
Peek8(b, input, i) ==
  IF b.dma.active /\ input.region[i] # "hram" THEN 255
  ELSE IF input.region[i] = "ie" THEN EnableByte(b.irq)
  ELSE input.code[i]

\* The input as the bus shows it when the first byte was fetched.
AfterFetch(input) ==
  [input EXCEPT !.code = [i \in {1, 2} |->
                            IF input.region[i] = "device" THEN input.later[i] ELSE @[i]]]

-----------------------------------------------------------------------------
(* The CPU.                                                                 *)

WakeCapable(c, b) ==
  IF c.mode = "Stopped" THEN Pending(b.irq) \cap {JoypadPressed} ELSE Pending(b.irq)

\* Mutant: the halt bug is forgotten.
NextPosition(c) == 2

\* Where the second byte of a prefixed instruction is expected.
PrefixedPosition(c) == IF c.haltBug THEN 1 ELSE 2

\* The T-cycles that the next step will take: 0 if it waits for a button.
NextStepTCycles(c, b, input) ==
  LET pending == WakeCapable(c, b)
      opcode == Peek8(b, input, 1)
  IN  CASE c.mode = "Stopped" /\ pending = {} -> 0
        [] c.ime /\ pending # {} -> 20
        [] c.mode = "Halted" /\ pending = {} -> 4
        [] OTHER -> IF opcode = Prefix
                    THEN PrefixedCycles(Peek8(b, input, PrefixedPosition(c)))
                    ELSE Cycles(opcode, BranchTaken(opcode, input.flags))

Fails(c, b, input) ==
  LET pending == WakeCapable(c, b)
  IN  /\ ~ (c.mode = "Stopped" /\ pending = {})
      /\ ~ (c.ime /\ pending # {})
      /\ ~ (c.mode = "Halted" /\ pending = {})
      /\ Peek8(b, input, 1) \in Illegal

Fetch8(s) == [Tick(s) EXCEPT !.cpu.haltBug = FALSE]

Store(s, n) == Write8(s, s.input.stores[n][1], s.input.stores[n][2])

Access(s, access) ==
  CASE access = "fetch"  -> Fetch8(s)
    [] access = "write"  -> Store(s, 1)
    [] access = "write2" -> Store(s, 2)
    [] OTHER             -> Tick(s)

\* The accesses one after the other: the longest instruction has six M-cycles,
\* so that five at most follow the first.
Perform(s, accesses) ==
  LET Then(r, i) == IF i \in DOMAIN accesses THEN Access(r, accesses[i]) ELSE r
  IN  Then(Then(Then(Then(Then(s, 1), 2), 3), 4), 5)

Idle(n) == [i \in 1 .. n |-> "idle"]

PadTo(s, cycles) ==
  Perform(s, IF 4 * s.elapsed < cycles THEN Idle(cycles \div 4 - s.elapsed) ELSE <<>>)

Halt(s) ==
  IF ~ s.cpu.ime /\ Pending(s.bus.irq) # {}
  THEN [s EXCEPT !.cpu.haltBug = TRUE] ELSE [s EXCEPT !.cpu.mode = "Halted"]

\* What an instruction does to the control state after its accesses.
Control(s, op) ==
  CASE op = HaltCode -> Halt(s)
    [] op = StopCode -> [s EXCEPT !.bus = ResetDivider(@), !.cpu.mode = "Stopped"]
    [] op = EiCode   -> [s EXCEPT !.cpu.delay = IF @ = 0 THEN 2 ELSE @]
    [] op = DiCode   -> [s EXCEPT !.cpu.ime = FALSE, !.cpu.delay = 0]
    [] op = RetiCode -> [s EXCEPT !.cpu.ime = TRUE, !.cpu.delay = 0]
    [] OTHER         -> s

ExecuteBase(s, op) ==
  LET taken == Taken(op, s.input.flags)
  IN  PadTo(Control(Perform(s, Accesses(op, taken)), op), Cycles(op, taken))

\* The second byte of a prefixed instruction is fetched an M-cycle later.
ExecutePrefixed(s, i) ==
  LET op == Peek8(s.bus, AfterFetch(s.input), i)
  IN  PadTo(Perform(Fetch8(s), PrefixedAccesses(op)), PrefixedCycles(op))

EnableAfterDelay(s) ==
  [s EXCEPT !.cpu.delay = IF @ = 0 THEN 0 ELSE @ - 1,
            !.cpu.ime = @ \/ s.cpu.delay = 1]

ExecuteNext(s) ==
  LET opcode == Peek8(s.bus, s.input, 1)
      running == [s EXCEPT !.cpu.mode = "Running"]
      after == IF opcode = Prefix
               THEN ExecutePrefixed(Fetch8(running), IF s.cpu.haltBug THEN 1 ELSE 2)
               ELSE ExecuteBase(Fetch8(running), opcode)
  IN  EnableAfterDelay(after)

ServiceInterrupt(s, i) ==
  Perform([s EXCEPT !.bus.irq = Acknowledge(@, i),
                    !.cpu = [@ EXCEPT !.ime = FALSE, !.delay = 0, !.mode = "Running"]],
          <<"idle", "idle", "write", "write2", "idle">>)

StepOf(c, b, input) ==
  LET s == [cpu |-> c, bus |-> b, elapsed |-> 0, input |-> input]
      pending == WakeCapable(c, b)
  IN  CASE c.ime /\ pending # {} -> ServiceInterrupt(s, HighestPriority(pending))
        [] c.mode = "Stopped" /\ pending = {} -> s
        [] c.mode = "Halted" /\ pending = {} -> Tick(s)
        [] OTHER -> ExecuteNext(s)

-----------------------------------------------------------------------------
(* The machine.                                                             *)

Init ==
  /\ game = NoGame
  /\ cpu = PostBootCpu
  /\ bus = FreshBus({})
  /\ inputs = [s \in Source |-> {}]

LoadRom(g) ==
  /\ game' = g
  /\ cpu' = PostBootCpu
  /\ bus' = FreshBus(Effective(inputs))
  /\ UNCHANGED inputs

Reset ==
  /\ game # NoGame
  /\ cpu' = PostBootCpu
  /\ bus' = FreshBus(Effective(inputs))
  /\ UNCHANGED <<game, inputs>>

SetJoypadState(b, state) ==
  LET joypad == SetState(b.joypad, state)
  IN  [b EXCEPT !.joypad = joypad,
                !.irq = Request(@, IF Fell(b.joypad, joypad) THEN {JoypadPressed} ELSE {})]

UpdateInput(source, state) ==
  /\ inputs' = [inputs EXCEPT ![source] = state]
  /\ bus' = IF game # NoGame THEN SetJoypadState(bus, Effective(inputs')) ELSE bus
  /\ UNCHANGED <<game, cpu>>

SetInput(source, state) ==
  /\ game # NoGame => <<source, state>> \in Presses[game]
  /\ UpdateInput(source, state)

ClearInputSource(source) == UpdateInput(source, {})

\* One turn of the loop of run_cycles whose budget allows the next step.
Run(input) ==
  LET after == StepOf(cpu, bus, input)
  IN  /\ ~ Fails(cpu, bus, input)
      /\ NextStepTCycles(cpu, bus, input) # 0
      /\ cpu' = after.cpu
      /\ bus' = after.bus
      /\ UNCHANGED <<game, inputs>>

RunCycles == game # NoGame /\ \E input \in Inputs[game] : Run(input)

Next ==
  \/ RunCycles
  \/ \E g \in Game : LoadRom(g)
  \/ Reset
  \/ \E s \in Source : ClearInputSource(s)
  \/ \E press \in UNION {Presses[g] : g \in Game} : SetInput(press[1], press[2])

Spec == Init /\ [][Next]_vars
-----------------------------------------------------------------------------
\* The divider that the sound keeps for its own clock never departs from the
\* divider of the timer: every write of DIV and every STOP resets both, and
\* every M-cycle moves both (bus/mod.rs:87, 142 and 262).
DividersAgree == bus.timer.divider = bus.mirror

\* Whether the bus shows the second byte of a prefixed instruction as it was
\* peeked still when it is fetched: not surely in a device, and not in IE when
\* the prefix is in the high memory, because the transfer that hid IE may end
\* with the first fetch.
SecondByteStays(c, input) ==
  /\ input.region[PrefixedPosition(c)] # "device"
  /\ PrefixedPosition(c) = 2 => input.region # <<"hram", "ie">>

\* The T-cycles that run_cycles compares with its budget before a step are
\* those that the step then takes, unless the second byte of a prefixed
\* instruction may be read as another one than it was peeked; and then they
\* are 8 too many or too few at most (machine.rs:92 and 98).
BudgetIsExact ==
  game # NoGame =>
    \A input \in Inputs[game] :
      ~ Fails(cpu, bus, input) =>
        LET predicted == NextStepTCycles(cpu, bus, input)
            taken == 4 * StepOf(cpu, bus, input).elapsed
        IN  /\ (Peek8(bus, input, 1) = Prefix => SecondByteStays(cpu, input)) =>
                 predicted = taken
            /\ predicted <= taken + 8 /\ taken <= predicted + 8

\* What run_cycles asserts: a step takes what was predicted for it
\* (machine.rs:98).
PredictionIsTaken ==
  game # NoGame =>
    \A input \in Inputs[game] :
      ~ Fails(cpu, bus, input) =>
        NextStepTCycles(cpu, bus, input) = 4 * StepOf(cpu, bus, input).elapsed

\* The register that the game reads shows the union of what the sources hold,
\* also after a game was loaded or reset while a button is held
\* (machine.rs:75, 83 and 111).
JoypadShowsInputs ==
  game # NoGame =>
    /\ bus.joypad.state = Effective(inputs)
    /\ bus.joypad.low = LowLines(bus.joypad.selected, Effective(inputs))

\* What a transfer copied stays until it ends: no write of the CPU gets
\* through to the memory of the sprites meanwhile (bus/mod.rs:229).
DmaIsExclusive ==
  bus.dma.active =>
    \A i \in 0 .. bus.dma.index - 1 : bus.oam[i] = bus.dma.source

\* The bus m M-cycles after b, with no request of the picture meanwhile.
AfterCycles(b, m) ==
  LET after[n \in 0 .. m] == IF n = 0 THEN b ELSE TickBus(after[n - 1], {})
  IN  after[m]

\* A CPU that waits in HALT for a running timer, its interrupt enabled, finds
\* an interrupt pending after at most the M-cycles that the timer takes to
\* count to its overflow and to reload (cpu/execute.rs:73, timer.rs:68).
Longest == (CounterSize * 2 * BitWeight[bus.timer.select]) \div 4 + 1

HaltedTimerWakes ==
  (cpu.mode = "Halted" /\ bus.timer.enabled /\ TimerOverflow \in bus.irq.enable) =>
    TimerOverflow \in AfterCycles(bus, Longest).irq.flags
=============================================================================
