----------------------------- MODULE Interrupts -----------------------------
(* The interrupt registers of the emulator core                             *)
(* (crates/gb-core/src/interrupts.rs).  A mask is the set of the numbers of *)
(* its bits: 0 is VBlank, 1 LcdStat, 2 Timer, 3 Serial and 4 Joypad.        *)
EXTENDS Naturals

Interrupt == 0 .. 4
VBlank == 0
LcdStat == 1
TimerOverflow == 2
SerialDone == 3
JoypadPressed == 4

Vector(i) == 64 + 8 * i

HighestPriority(mask) == CHOOSE i \in mask : \A j \in mask : i <= j

InterruptRegisters == [enable : SUBSET Interrupt, flags : SUBSET Interrupt]

NoInterrupts == [enable |-> {}, flags |-> {}]

Request(r, mask) == [r EXCEPT !.flags = @ \cup mask]

Pending(r) == r.enable \cap r.flags

Acknowledge(r, i) == [r EXCEPT !.flags = @ \ {i}]

\* The byte that a read of IE returns: a jump into the last address of the
\* address space executes it.
EnableByte(r) ==
  LET Bit(i, weight) == IF i \in r.enable THEN weight ELSE 0
  IN  Bit(0, 1) + Bit(1, 2) + Bit(2, 4) + Bit(3, 8) + Bit(4, 16)
=============================================================================
