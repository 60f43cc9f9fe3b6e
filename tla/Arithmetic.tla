----------------------------- MODULE Arithmetic -----------------------------
(* The arithmetic of the CPU (crates/gb-core/src/cpu/registers.rs and the   *)
(* alu, add_hl, add_sp, accumulator_misc and execute_cb of cpu/execute.rs): *)
(* bytes and words as numbers, the four flags as a record.                  *)
EXTENDS Integers, Sequences

Octet == 0 .. 255
Flags == [z : BOOLEAN, n : BOOLEAN, h : BOOLEAN, c : BOOLEAN]
NoFlags == [z |-> FALSE, n |-> FALSE, h |-> FALSE, c |-> FALSE]
Result(r, f) == [r |-> r, f |-> f]

Of(carry) == IF carry THEN 1 ELSE 0
PlaceValue(i) == <<1, 2, 4, 8, 16, 32, 64, 128>>[i + 1]
Bit(value, i) == (value \div PlaceValue(i)) % 2 = 1

\* The byte whose bit i is set where holds[i].
OfBits(holds) ==
  Of(holds[0]) + 2 * Of(holds[1]) + 4 * Of(holds[2]) + 8 * Of(holds[3])
    + 16 * Of(holds[4]) + 32 * Of(holds[5]) + 64 * Of(holds[6]) + 128 * Of(holds[7])

And8(a, b) == OfBits([i \in 0 .. 7 |-> Bit(a, i) /\ Bit(b, i)])
Xor8(a, b) == OfBits([i \in 0 .. 7 |-> Bit(a, i) # Bit(b, i)])
Or8(a, b) == OfBits([i \in 0 .. 7 |-> Bit(a, i) \/ Bit(b, i)])

Add8(left, right, carry) ==
  LET sum == left + right + Of(carry)
  IN  Result(sum % 256, [z |-> sum % 256 = 0, n |-> FALSE,
                         h |-> (left % 16) + (right % 16) + Of(carry) > 15,
                         c |-> sum > 255])

Sub8(left, right, carry) ==
  LET difference == left - right - Of(carry)
  IN  Result(difference % 256, [z |-> difference % 256 = 0, n |-> TRUE,
                                h |-> left % 16 < (right % 16) + Of(carry),
                                c |-> difference < 0])

Inc8(value, carry) ==
  LET r == (value + 1) % 256
  IN  Result(r, [z |-> r = 0, n |-> FALSE, h |-> value % 16 = 15, c |-> carry])

Dec8(value, carry) ==
  LET r == (value - 1) % 256
  IN  Result(r, [z |-> r = 0, n |-> TRUE, h |-> value % 16 = 0, c |-> carry])

\* Mutant: the high digit is compared after the low one was corrected.
DaaLowFirst(a, f) ==
  LET low == f.h \/ (~ f.n /\ a % 16 > 9)
      high == f.c \/ (~ f.n /\ a > 159)
      correction == (IF low THEN 6 ELSE 0) + (IF high THEN 96 ELSE 0)
      r == (IF f.n THEN a - correction ELSE a + correction) % 256
  IN  Result(r, [z |-> r = 0, n |-> f.n, h |-> FALSE, c |-> high])

Daa(a, f) ==
  LET low == f.h \/ (~ f.n /\ a % 16 > 9)
      high == f.c \/ (~ f.n /\ a > 153)
      correction == (IF low THEN 6 ELSE 0) + (IF high THEN 96 ELSE 0)
      r == (IF f.n THEN a - correction ELSE a + correction) % 256
  IN  Result(r, [z |-> r = 0, n |-> f.n, h |-> FALSE, c |-> high])

Zero(r, f) == Result(r, [f EXCEPT !.z = r = 0])

\* ADD, ADC, SUB, SBC, AND, XOR, OR and CP
Alu(operation, a, value, f) ==
  CASE operation = 0 -> Add8(a, value, FALSE)
    [] operation = 1 -> Add8(a, value, f.c)
    [] operation = 2 -> Sub8(a, value, FALSE)
    [] operation = 3 -> Sub8(a, value, f.c)
    [] operation = 4 -> Zero(And8(a, value), [NoFlags EXCEPT !.h = TRUE])
    [] operation = 5 -> Zero(Xor8(a, value), NoFlags)
    [] operation = 6 -> Zero(Or8(a, value), NoFlags)
    [] OTHER         -> Result(a, Sub8(a, value, FALSE).f)

AddHl(hl, value, f) ==
  Result((hl + value) % 65536, [z |-> f.z, n |-> FALSE,
                                h |-> (hl % 4096) + (value % 4096) > 4095,
                                c |-> hl + value > 65535])

\* offset is the byte; as a signed number it is 256 less from 128 on.
AddSp(sp, offset) ==
  Result((sp + (IF offset > 127 THEN offset - 256 ELSE offset)) % 65536,
         [z |-> FALSE, n |-> FALSE, h |-> (sp % 16) + (offset % 16) > 15,
          c |-> (sp % 256) + offset > 255])

\* RLC, RRC, RL, RR, SLA, SRA, SWAP and SRL
Shift(y, value, f) ==
  LET left == (value * 2) % 256
      right == value \div 2
      r == CASE y = 0 -> left + Of(Bit(value, 7))
             [] y = 1 -> right + 128 * Of(Bit(value, 0))
             [] y = 2 -> left + Of(f.c)
             [] y = 3 -> right + 128 * Of(f.c)
             [] y = 4 -> left
             [] y = 5 -> right + 128 * Of(Bit(value, 7))
             [] y = 6 -> (value % 16) * 16 + value \div 16
             [] OTHER -> right
      carry == IF y \in {0, 2, 4} THEN Bit(value, 7) ELSE y # 6 /\ Bit(value, 0)
  IN  Zero(r, [NoFlags EXCEPT !.c = carry])

\* What a prefixed opcode makes of the value and the flags.
ExecuteCb(x, y, value, f) ==
  CASE x = 0 -> Shift(y, value, f)
    [] x = 1 -> Result(value, [z |-> ~ Bit(value, y), n |-> FALSE, h |-> TRUE, c |-> f.c])
    [] x = 2 -> Result(IF Bit(value, y) THEN value - PlaceValue(y) ELSE value, f)
    [] OTHER -> Result(IF Bit(value, y) THEN value ELSE value + PlaceValue(y), f)

\* RLCA, RRCA, RLA, RRA, DAA, CPL, SCF and CCF
AccumulatorMisc(operation, a, f) ==
  CASE operation \in 0 .. 3 ->
         Result(Shift(operation, a, f).r, [Shift(operation, a, f).f EXCEPT !.z = FALSE])
    [] operation = 4 -> Daa(a, f)
    [] operation = 5 -> Result(255 - a, [f EXCEPT !.n = TRUE, !.h = TRUE])
    [] operation = 6 -> Result(a, [NoFlags EXCEPT !.c = TRUE, !.z = f.z])
    [] OTHER         -> Result(a, [NoFlags EXCEPT !.c = ~ f.c, !.z = f.z])

-----------------------------------------------------------------------------
(* The accumulator and the flags, as a game computes with them.             *)

CONSTANTS
  Operands,     \* the bytes that it computes with
  NoProgram     \* no game is loaded: what the registers hold is never read

ArithmeticAssumption ==
  /\ Operands \subseteq Octet
  /\ NoProgram \notin [r : Octet, f : Flags]

ASSUME ArithmeticAssumption

VARIABLE acc

\* Nothing computes before the first load, which sets the registers again.
AccInit == acc = NoProgram

\* The registers that a loaded or reset game starts with.
StartProgram == acc' = Result(1, [z |-> TRUE, n |-> FALSE, h |-> TRUE, c |-> TRUE])

Compute ==
  /\ acc # NoProgram
  /\ \/ \E operation \in 0 .. 7, value \in Operands :
            acc' = Alu(operation, acc.r, value, acc.f)
     \/ \E operation \in 0 .. 7 : acc' = AccumulatorMisc(operation, acc.r, acc.f)
     \/ \E x \in 0 .. 3, y \in 0 .. 7 : acc' = ExecuteCb(x, y, acc.r, acc.f)
     \/ acc' = Inc8(acc.r, acc.f.c)
     \/ acc' = Dec8(acc.r, acc.f.c)

AccNext == StartProgram \/ Compute

AccSpec == AccInit /\ [][AccNext]_acc

-----------------------------------------------------------------------------
\* Two decimal digits in a byte.
Decimal(n) == (n \div 10) * 16 + (n % 10)

\* After an addition or a subtraction of decimal bytes DAA leaves the decimal
\* result, its carry and its zero flag (cpu/registers.rs:131).
DecimalIsExact ==
  \A m \in 0 .. 99 : acc.r = Decimal(m) => \A n \in 0 .. 99 :
    LET sum == Alu(1, acc.r, Decimal(n), acc.f)
        difference == Alu(3, acc.r, Decimal(n), acc.f)
        Exactly(result, number) ==
          /\ result.r = Decimal(number % 100)
          /\ result.f.c = (number \notin 0 .. 99)
          /\ result.f.z = (number % 100 = 0)
    IN  /\ Exactly(AccumulatorMisc(4, sum.r, sum.f), m + n + Of(acc.f.c))
        /\ Exactly(AccumulatorMisc(4, difference.r, difference.f), m - n - Of(acc.f.c))

EdgeBytes == {0, 15, 128, 255}

\* The sixteen-bit additions are those of two bytes with the carry between
\* them, ADD SP sets the flags of its low byte, and rotating back, setting
\* and testing a bit, and counting up and down agree with each other
\* (cpu/execute.rs:516, 528 and 591, cpu/registers.rs:115).
OperationsAgree ==
  LET Back(y, z) == LET first == ExecuteCb(0, y, acc.r, acc.f)
                    IN  ExecuteCb(0, z, first.r, first.f)
      AsBytes(left, right) ==
        LET low == Add8(left % 256, right % 256, FALSE)
            high == Add8(left \div 256, right \div 256, low.f.c)
            hl == AddHl(left, right, acc.f)
            sp == AddSp(left, right % 256)
        IN  /\ hl.r = high.r * 256 + low.r
            /\ hl.f.h = high.f.h /\ hl.f.c = high.f.c
            /\ sp.r % 256 = low.r
            /\ sp.f.h = low.f.h /\ sp.f.c = low.f.c
  IN  /\ \A high, low, byte \in EdgeBytes : AsBytes(high * 256 + acc.r, low * 256 + byte)
      /\ Back(0, 1).r = acc.r /\ Back(1, 0).r = acc.r /\ Back(6, 6).r = acc.r
      /\ Back(2, 3).r = acc.r /\ Back(2, 3).f.c = acc.f.c
      /\ Back(3, 2).r = acc.r /\ Back(3, 2).f.c = acc.f.c
      /\ \A y \in 0 .. 7 :
           /\ ~ ExecuteCb(1, y, ExecuteCb(3, y, acc.r, acc.f).r, acc.f).f.z
           /\ ExecuteCb(1, y, ExecuteCb(2, y, acc.r, acc.f).r, acc.f).f.z
      /\ Inc8(Dec8(acc.r, acc.f.c).r, acc.f.c).r = acc.r
      /\ Dec8(acc.r, acc.f.c).f.h = Sub8(acc.r, 1, FALSE).f.h
      /\ Inc8(acc.r, acc.f.c).f.h = Add8(acc.r, 1, FALSE).f.h

\* What the game computes with is exact: decimal adjustment, and words and
\* bits against bytes (cpu/registers.rs:131, cpu/execute.rs:516, 528 and 591).
ArithmeticIsExact == acc # NoProgram => DecimalIsExact /\ OperationsAgree
=============================================================================
