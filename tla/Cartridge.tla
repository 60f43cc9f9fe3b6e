----------------------------- MODULE Cartridge -----------------------------
(* The cartridges of the emulator core (crates/gb-core/src/cartridge): what *)
(* a header may declare, the banks that the registers of each mapper select *)
(* and, for the cartridge that is loaded, its battery-backed memory and the *)
(* clock of the MBC3 across resets, saves and loads.  A bank of memory is   *)
(* one cell, and the clock's minutes and hours are counted as seconds.      *)
EXTENDS Integers

CONSTANTS
  SecondsPerDay,    \* 86_400
  DaysLow,          \* the days that the low day register counts, 256
  MaxTime,          \* bound on the time of the host
  Values,           \* the values of a cell of memory
  Headers           \* the headers of the cartridges that are loaded

CartridgeAssumption ==
  /\ SecondsPerDay \in Nat \ {0} /\ DaysLow \in Nat \ {0} /\ MaxTime \in Nat
  /\ Values # {}
  /\ \A header \in Headers : header.rams \in Nat

ASSUME CartridgeAssumption

Period == 2 * DaysLow * SecondsPerDay

-----------------------------------------------------------------------------
(* Headers: the type of the cartridge and its declared sizes.               *)

Feature(mapper, ram, battery, timer, rumble) ==
  [mapper |-> mapper, ram |-> ram, battery |-> battery, timer |-> timer, rumble |-> rumble]

\* features, without the type bytes: what a battery keeps is the memory or
\* the clock.
Features ==
  {features \in [mapper : {"RomOnly", "Mbc1", "Mbc3", "Mbc5"}, ram : BOOLEAN,
                 battery : BOOLEAN, timer : BOOLEAN, rumble : BOOLEAN] :
     /\ features.battery => features.ram \/ features.timer
     /\ features.timer => features.mapper = "Mbc3" /\ features.battery
     /\ features.rumble => features.mapper = "Mbc5"}

RomBanks == {2, 4, 8, 16, 32, 64, 128, 256, 512, 72, 80, 96}

\* In banks of 8 KiB, the last one possibly incomplete.
RamBanks == {0, 1, 4, 16, 8}

\* Mutant: the shorter bank register of rumble cartridges is not considered.
AnyRumble(features, roms, rams) ==
  CASE features.mapper = "RomOnly"          -> roms <= 2 /\ rams <= 1
    [] features.mapper \in {"Mbc1", "Mbc3"} -> roms <= 128 /\ rams <= 4
    [] OTHER                                -> roms <= 512 /\ rams <= 16

ValidCapacity(features, roms, rams) ==
  CASE features.mapper = "RomOnly"          -> roms <= 2 /\ rams <= 1
    [] features.mapper \in {"Mbc1", "Mbc3"} -> roms <= 128 /\ rams <= 4
    [] OTHER -> roms <= 512 /\ rams <= (IF features.rumble THEN 8 ELSE 16)

\* parse, of an image whose length and checksum agree with the header.
Accepted(features, roms, rams) ==
  /\ rams # 0 => features.ram
  /\ ValidCapacity(features, roms, rams)

-----------------------------------------------------------------------------
(* The registers of the mappers.  A write is the register that the address  *)
(* selects and the byte.                                                    *)

Unset ==
  [ramEnabled |-> FALSE, low |-> 1, high |-> 0, ramBanking |-> FALSE]

EnableRam(registers, value) == [registers EXCEPT !.ramEnabled = value % 16 = 10]

\* write_rom of each mapper; low and high are the two bank registers (of the
\* MBC3 the bank and the selector, of the MBC5 the nine bits of the bank and
\* the bank of the memory).
WriteMbc1(registers, at, value) ==
  CASE at = 0 -> EnableRam(registers, value)
    [] at \in {2, 3} -> [registers EXCEPT !.low = value % 32]
    [] at = 4 -> [registers EXCEPT !.high = value % 4]
    [] at = 6 -> [registers EXCEPT !.ramBanking = value % 2 # 0]
    [] OTHER  -> registers

WriteMbc3(registers, at, value) ==
  CASE at = 0 -> EnableRam(registers, value)
    [] at \in {2, 3} -> [registers EXCEPT !.low = IF value % 128 = 0 THEN 1 ELSE value % 128]
    [] at = 4 -> [registers EXCEPT !.high = value]
    [] OTHER  -> registers

WriteMbc5(registers, at, value, features, rams) ==
  CASE at = 0 -> EnableRam(registers, value)
    [] at = 2 -> [registers EXCEPT !.low = (@ \div 256) * 256 + value]
    [] at = 3 -> [registers EXCEPT !.low = (@ % 256) + 256 * (value % 2)]
    [] at = 4 -> [registers EXCEPT !.high =
                    IF rams = 0 THEN 0
                    ELSE (value % (IF features.rumble THEN 8 ELSE 16)) % rams]
    [] OTHER  -> registers

WriteRegisters(registers, at, value, features, rams) ==
  CASE features.mapper = "RomOnly" -> registers
    [] features.mapper = "Mbc1"    -> WriteMbc1(registers, at, value)
    [] features.mapper = "Mbc3"    -> WriteMbc3(registers, at, value)
    [] OTHER                       -> WriteMbc5(registers, at, value, features, rams)

\* The bank shown from 0x4000; of the MBC1 the banks whose low bits are all
\* zero give the one after them.
SwitchBank(registers, features, roms) ==
  LET raw == registers.high * 32 + registers.low
  IN  CASE features.mapper = "RomOnly" -> 1
        [] features.mapper = "Mbc1"    -> (IF raw % 32 = 0 THEN raw + 1 ELSE raw) % roms
        [] OTHER                       -> registers.low % roms

\* The bank shown from 0.
FixedBank(registers, features, roms) ==
  IF features.mapper = "Mbc1" /\ registers.ramBanking THEN (registers.high * 32) % roms ELSE 0

\* The bank of memory at 0xa000, which need not exist.
RamBank(registers, features) ==
  IF features.mapper = "RomOnly" \/ (features.mapper = "Mbc1" /\ ~ registers.ramBanking)
  THEN 0 ELSE registers.high

\* What a game can make of the registers.
RomSettings(features) ==
  LET W(registers, at, value) == WriteRegisters(registers, at, value, features, 0)
      Reached == IF features.mapper = "Mbc5"
                 THEN {W(W(Unset, 2, value), 3, high) : value \in 0 .. 255, high \in {0, 1}}
                 ELSE {W(Unset, 2, value) : value \in 0 .. 255}
  IN  IF features.mapper = "Mbc1"
      THEN {W(W(registers, 4, high), 6, mode) :
              registers \in Reached, high \in 0 .. 3, mode \in {0, 1}}
      ELSE Reached

RamSettings(features, rams) ==
  LET W(registers, at, value) == WriteRegisters(registers, at, value, features, rams)
  IN  {W(W(Unset, 6, 1), 4, bank) : bank \in 0 .. 255}

\* The banks that it can then see.
RomShown(features, roms) ==
  {SwitchBank(registers, features, roms) : registers \in RomSettings(features)}
    \cup {FixedBank(registers, features, roms) : registers \in RomSettings(features)}

RamShown(features, rams) ==
  {RamBank(registers, features) : registers \in RamSettings(features, rams)}

-----------------------------------------------------------------------------
(* The clock of the MBC3.                                                   *)

\* The latched copy of the registers, which the game reads and nothing else
\* depends on, is left out with everything else that is read.
NewRtc(t) ==
  [counter |-> 0, updated |-> t, halted |-> FALSE, carry |-> FALSE, armed |-> FALSE]

\* Halted, or before its last update, the clock stands still.
Live(rtc, t) ==
  LET total == IF rtc.halted \/ t < rtc.updated THEN rtc.counter
               ELSE rtc.counter + (t - rtc.updated)
  IN  [counter |-> total % Period, carry |-> rtc.carry \/ total >= Period]

Later(a, b) == IF a < b THEN b ELSE a

\* Mutant: an update before the last one counts as one too.
SyncBackwards(rtc, t) ==
  [rtc EXCEPT !.counter = Live(rtc, t).counter, !.carry = Live(rtc, t).carry,
              !.updated = t]

Sync(rtc, t) ==
  [rtc EXCEPT !.counter = Live(rtc, t).counter, !.carry = Live(rtc, t).carry,
              !.updated = Later(@, t)]

Latch(rtc, value, t) ==
  CASE value = 0              -> [rtc EXCEPT !.armed = TRUE]
    [] value = 1 /\ rtc.armed -> [Sync(rtc, t) EXCEPT !.armed = FALSE]
    [] OTHER                  -> [rtc EXCEPT !.armed = FALSE]

\* A write sets its part of the counter and keeps the others.  value is that
\* of the seconds, of the low days, or the record of the high register.
WriteRtc(rtc, selector, value, t) ==
  LET live == Live(rtc, t).counter
      seconds == IF selector = "seconds" THEN value % SecondsPerDay ELSE live % SecondsPerDay
      day == live \div SecondsPerDay
      low == IF selector = "days" THEN value % DaysLow ELSE day % DaysLow
      high == IF selector = "flags" THEN value.high ELSE day \div DaysLow
      halted == IF selector = "flags" THEN value.halted ELSE rtc.halted
  IN  [Sync(rtc, t) EXCEPT
         !.counter = (high * DaysLow + low) * SecondsPerDay + seconds,
         !.halted = halted,
         !.carry = IF selector = "flags" THEN value.carry ELSE @,
         !.updated = IF rtc.halted # halted \/ ~ halted THEN t ELSE @]

\* Mutant: the counter is saved as it was at the last update.
StoredCounter(rtc, t) ==
  [counter |-> rtc.counter, updated |-> Later(rtc.updated, t), halted |-> rtc.halted,
   carry |-> rtc.carry]

\* bytes
RtcBytes(rtc, t) ==
  [counter |-> Live(rtc, t).counter, updated |-> Later(rtc.updated, t),
   halted |-> rtc.halted, carry |-> Live(rtc, t).carry]

\* from_bytes
ValidBytes(bytes) == bytes.counter < Period

FromBytes(bytes, t) ==
  Sync([counter |-> bytes.counter, updated |-> bytes.updated, halted |-> bytes.halted,
        carry |-> bytes.carry, armed |-> FALSE], t)
-----------------------------------------------------------------------------
(* The cartridge that is loaded.  A saved state is a set of at most one,    *)
(* with NoClock where the cartridge has none.                               *)

VARIABLES cart, now

NoClock == "none"
NoState == {}

\* Of the addresses of write_rom the blocks of 4 KiB that the mappers tell
\* apart, of the bytes those that matter to memory and clock.
RomWrites ==
  {<<0, 0>>, <<0, 10>>, <<2, 0>>, <<3, 1>>, <<4, 0>>, <<4, 1>>, <<4, 8>>, <<4, 11>>,
   <<4, 12>>, <<6, 0>>, <<6, 1>>}

Selected(c) ==
  IF c.header.features.mapper # "Mbc3" THEN "memory"
  ELSE CASE c.registers.high \in 0 .. 3 -> "memory"
         [] c.registers.high = 8  -> "seconds"
         [] c.registers.high = 11 -> "days"
         [] c.registers.high = 12 -> "flags"
         [] OTHER                 -> "nothing"

RegisterValues ==
  [seconds |-> 0 .. SecondsPerDay, days |-> 0 .. DaysLow - 1,
   flags |-> [high : {0, 1}, halted : BOOLEAN, carry : BOOLEAN]]

BatteryState(c, t) ==
  IF ~ c.header.features.battery THEN NoState
  ELSE {[ram |-> c.ram,
         clock |-> IF c.header.features.timer THEN RtcBytes(c.rtc, t) ELSE NoClock]}

\* persisted_ram and the checks of each mapper.
Restorable(header, state) ==
  /\ header.features.battery
  /\ DOMAIN state.ram = 0 .. header.rams - 1
  /\ IF header.features.timer THEN ValidBytes(state.clock) ELSE state.clock = NoClock

Saved(states) == CHOOSE state \in states : TRUE

Loaded(header, states, t) ==
  [header |-> header, registers |-> Unset,
   ram |-> IF states = NoState
           THEN [bank \in 0 .. header.rams - 1 |-> CHOOSE v \in Values : TRUE]
           ELSE Saved(states).ram,
   rtc |-> CASE ~ header.features.timer -> NoClock
             [] header.features.timer /\ states = NoState -> NewRtc(t)
             [] OTHER -> FromBytes(Saved(states).clock, t)]

HasClock == cart.header.features.timer

CartridgeInit ==
  /\ now \in 0 .. MaxTime
  /\ \E header \in Headers :
       /\ header.features \in Features
       /\ Accepted(header.features, header.roms, header.rams)
       /\ cart = Loaded(header, NoState, now)

WriteRom(at, value) ==
  /\ cart' = [cart EXCEPT
       !.registers = WriteRegisters(@, at, value, cart.header.features, cart.header.rams),
       !.rtc = IF HasClock /\ at = 6 THEN Latch(@, value, now) ELSE @]
  /\ UNCHANGED now

\* Memory that is disabled, or of a bank that is not there, keeps nothing.
WriteMemory(value) ==
  LET bank == RamBank(cart.registers, cart.header.features)
  IN  /\ cart.registers.ramEnabled \/ cart.header.features.mapper = "RomOnly"
      /\ Selected(cart) = "memory"
      /\ bank < cart.header.rams
      /\ cart' = [cart EXCEPT !.ram[bank] = value]
      /\ UNCHANGED now

WriteClock ==
  /\ cart.registers.ramEnabled
  /\ HasClock
  /\ Selected(cart) \in DOMAIN RegisterValues
  /\ \E value \in RegisterValues[Selected(cart)] :
       cart' = [cart EXCEPT !.rtc = WriteRtc(@, Selected(cart), value, now)]
  /\ UNCHANGED now

ResetCartridge ==
  /\ cart' = [cart EXCEPT !.registers = Unset,
                          !.rtc = IF HasClock THEN [Sync(@, now) EXCEPT !.armed = FALSE] ELSE @]
  /\ UNCHANGED now

\* The state is saved, and the cartridge loaded with it at another time.
SaveAndLoad(t) ==
  /\ now' = t
  /\ cart' = Loaded(cart.header, BatteryState(cart, now), t)

\* The host's clock may also be set back.
TimePasses(t) ==
  /\ now' = t
  /\ UNCHANGED cart

CartridgeNext ==
  \/ \E write \in RomWrites : WriteRom(write[1], write[2])
  \/ \E value \in Values : WriteMemory(value)
  \/ WriteClock
  \/ ResetCartridge
  \/ \E t \in 0 .. MaxTime : SaveAndLoad(t) \/ TimePasses(t)

CartridgeSpec == CartridgeInit /\ [][CartridgeNext]_<<cart, now>>

-----------------------------------------------------------------------------
\* Whatever the size of its ROM and memory, if only it is accepted, the game
\* reaches each bank of both, and the mapper that wraps its bank of memory
\* selects none that is not there.  What can be reached depends on the type of
\* the cartridge alone, so that it is said of one that was just loaded
\* (cartridge/header.rs:141, mbc1.rs:51, mbc5.rs:61).
BanksAreReachable ==
  now = 0 /\ cart = Loaded(cart.header, NoState, now) =>
    LET features == cart.header.features
    IN  /\ \A roms \in RomBanks : ValidCapacity(features, roms, 0) =>
             1 .. roms - 1 \subseteq RomShown(features, roms)
        /\ \A rams \in RamBanks : Accepted(features, 2, rams) =>
             /\ 0 .. rams - 1 \subseteq RamShown(features, rams)
             /\ features.mapper = "Mbc5" /\ rams > 0 =>
                  RamShown(features, rams) \subseteq 0 .. rams - 1

\* A saved state is one that the cartridge accepts, and the cartridge that is
\* loaded from it at any later time goes on as the one that was saved would
\* have: the same memory and, at every time from then on, the same clock
\* (cartridge/mbc3.rs:31 and 126, mapper.rs:12).
SaveRestores ==
  \A state \in BatteryState(cart, now) :
    /\ Restorable(cart.header, state)
    /\ state.ram = cart.ram
    /\ HasClock => \A load \in now .. MaxTime : \A later \in load .. MaxTime :
         LET loaded == FromBytes(state.clock, load)
         IN  /\ Live(loaded, later) = Live(cart.rtc, later)
             /\ loaded.halted = cart.rtc.halted

\* Whatever the game and the player do but write to the clock - latches,
\* resets, saves and loads, at a time when the host's clock may have been set
\* back - the clock will show at every later time what it would have shown
\* (cartridge/mbc3.rs:68, 90, 126 and 247).
ClockKeepsTime ==
  [][HasClock /\ now' >= now /\ ~ WriteClock =>
       \A later \in now' .. MaxTime : Live(cart'.rtc, later) = Live(cart.rtc, later)
    ]_<<cart, now>>
=============================================================================
