---------------------------- MODULE Instructions ----------------------------
(* The instruction set as the emulator core sees it: how many T-cycles the  *)
(* decoder promises (crates/gb-core/src/cpu/decode.rs) and which bus        *)
(* accesses the interpreter then makes (cpu/execute.rs).  What the          *)
(* instructions compute is in Arithmetic.                                   *)
EXTENDS Naturals, Sequences

Byte == 0 .. 255
Flag == {"Z", "C"}   \* the flags that branches test

Illegal == {211, 219, 221, 227, 228, 235, 236, 237, 244, 252, 253}
Prefix == 203        \* 0xcb
HaltCode == 118
StopCode == 16
EiCode == 251
DiCode == 243
RetiCode == 217

X(op) == op \div 64
Y(op) == (op \div 8) % 8
Z(op) == op % 8
P(op) == Y(op) \div 2
Q(op) == Y(op) % 2

\* <<length in bytes, T-cycles if a branch is taken, T-cycles if not>>
FirstQuarter(op) ==
  CASE Z(op) = 0 -> (CASE Y(op) = 0 -> <<1, 4, 4>>
                       [] Y(op) = 1 -> <<3, 20, 20>>
                       [] Y(op) = 2 -> <<2, 4, 4>>
                       [] Y(op) = 3 -> <<2, 12, 12>>
                       [] OTHER     -> <<2, 12, 8>>)
    [] Z(op) = 1 -> IF Q(op) = 0 THEN <<3, 12, 12>> ELSE <<1, 8, 8>>
    [] Z(op) \in {2, 3} -> <<1, 8, 8>>
    [] Z(op) \in {4, 5} -> IF Y(op) = 6 THEN <<1, 12, 12>> ELSE <<1, 4, 4>>
    [] Z(op) = 6 -> IF Y(op) = 6 THEN <<2, 12, 12>> ELSE <<2, 8, 8>>
    [] OTHER -> <<1, 4, 4>>

MiddleHalf(op) ==
  IF op # HaltCode /\ (Z(op) = 6 \/ (X(op) = 1 /\ Y(op) = 6))
  THEN <<1, 8, 8>> ELSE <<1, 4, 4>>

LastQuarter(op) ==
  CASE Z(op) = 0 -> (CASE Y(op) < 4 -> <<1, 20, 8>>
                       [] Y(op) = 5 -> <<2, 16, 16>>
                       [] OTHER     -> <<2, 12, 12>>)
    [] Z(op) = 1 -> (CASE Q(op) = 0 -> <<1, 12, 12>>
                       [] Q(op) = 1 /\ P(op) < 2 -> <<1, 16, 16>>
                       [] Q(op) = 1 /\ P(op) = 2 -> <<1, 4, 4>>
                       [] OTHER -> <<1, 8, 8>>)
    [] Z(op) = 2 -> (CASE Y(op) < 4 -> <<3, 16, 12>>
                       [] Y(op) \in {5, 7} -> <<3, 16, 16>>
                       [] OTHER -> <<1, 8, 8>>)
    [] Z(op) = 3 -> (CASE Y(op) = 0 -> <<3, 16, 16>>
                       [] Y(op) = 1 -> <<2, 8, 8>>
                       [] OTHER -> <<1, 4, 4>>)
    [] Z(op) = 4 -> <<3, 24, 12>>
    [] Z(op) = 5 -> IF Q(op) = 0 THEN <<1, 16, 16>> ELSE <<3, 24, 24>>
    [] Z(op) = 6 -> <<2, 8, 8>>
    [] OTHER -> <<1, 16, 16>>

BaseMetadata(op) ==
  CASE X(op) = 0 -> FirstQuarter(op)
    [] X(op) \in {1, 2} -> MiddleHalf(op)
    [] OTHER -> LastQuarter(op)

Length(op) == BaseMetadata(op)[1]

Cycles(op, taken) == BaseMetadata(op)[IF taken THEN 2 ELSE 3]

PrefixedCycles(op) == IF Z(op) # 6 THEN 8 ELSE IF X(op) = 1 THEN 12 ELSE 16

\* Whether the prediction holds a branch for taken, from the opcode ...
BranchTaken(op, flags) ==
  CASE op \in {32, 192, 194, 196} -> "Z" \notin flags
    [] op \in {40, 200, 202, 204} -> "Z" \in flags
    [] op \in {48, 208, 210, 212} -> "C" \notin flags
    [] op \in {56, 216, 218, 220} -> "C" \in flags
    [] OTHER -> TRUE

\* ... and whether the interpreter takes it, from the fields it decodes.
Condition(code, flags) ==
  CASE code = 0 -> "Z" \notin flags
    [] code = 1 -> "Z" \in flags
    [] code = 2 -> "C" \notin flags
    [] OTHER    -> "C" \in flags

Taken(op, flags) ==
  CASE X(op) = 0 /\ Z(op) = 0 /\ Y(op) > 3 -> Condition(Y(op) - 4, flags)
    [] X(op) = 3 /\ Z(op) = 0 /\ Y(op) < 4 -> Condition(Y(op), flags)
    [] X(op) = 3 /\ Z(op) = 2 /\ Y(op) < 4 -> Condition(Y(op), flags)
    [] X(op) = 3 /\ Z(op) = 4              -> Condition(Y(op), flags)
    [] OTHER -> TRUE

Fetch(n) == [i \in 1 .. n |-> "fetch"]
Read(n) == [i \in 1 .. n |-> "read"]
\* The first write of a step and the second one store different things.
Write(n) == [i \in 1 .. n |-> IF i = 1 THEN "write" ELSE "write2"]
Operand(code, access) == IF code = 6 THEN access ELSE <<>>

\* The accesses that follow the fetch of the opcode: 0x00 to 0x3f, ...
LoadAccesses(op) ==
  CASE Z(op) = 0 -> (CASE Y(op) \in {0, 2} -> <<>>
                       [] Y(op) = 1 -> Fetch(2) \o Write(2)
                       [] OTHER -> Fetch(1))
    [] Z(op) = 1 -> IF Q(op) = 0 THEN Fetch(2) ELSE <<>>
    [] Z(op) = 2 -> IF Q(op) = 0 THEN Write(1) ELSE Read(1)
    [] Z(op) \in {4, 5} -> Operand(Y(op), Read(1) \o Write(1))
    [] Z(op) = 6 -> Fetch(1) \o Operand(Y(op), Write(1))
    [] OTHER -> <<>>

\* ... 0x40 to 0xbf, moves between registers and arithmetic, ...
RegisterAccesses(op) ==
  IF op = HaltCode THEN <<>>
  ELSE Operand(Z(op), Read(1))
         \o (IF X(op) = 1 THEN Operand(Y(op), Write(1)) ELSE <<>>)

\* ... and 0xc0 to 0xff, jumps, calls and the stack.
ControlAccesses(op, taken) ==
  CASE Z(op) = 0 -> (CASE Y(op) < 4 -> IF taken THEN Read(2) ELSE <<>>
                       [] Y(op) = 4 -> Fetch(1) \o Write(1)
                       [] Y(op) = 6 -> Fetch(1) \o Read(1)
                       [] OTHER -> Fetch(1))
    [] Z(op) = 1 -> IF Q(op) = 0 \/ P(op) < 2 THEN Read(2) ELSE <<>>
    [] Z(op) = 2 -> (CASE Y(op) < 4 -> Fetch(2)
                       [] Y(op) = 4 -> Write(1)
                       [] Y(op) = 5 -> Fetch(2) \o Write(1)
                       [] Y(op) = 6 -> Read(1)
                       [] OTHER -> Fetch(2) \o Read(1))
    [] Z(op) = 3 -> IF Y(op) = 0 THEN Fetch(2) ELSE <<>>
    [] Z(op) = 4 -> Fetch(2) \o (IF taken THEN Write(2) ELSE <<>>)
    [] Z(op) = 5 -> IF Q(op) = 0 THEN Write(2)
                    ELSE IF P(op) = 0 THEN Fetch(2) \o Write(2) ELSE <<>>
    [] Z(op) = 6 -> Fetch(1)
    [] OTHER -> Write(2)

Accesses(op, taken) ==
  CASE X(op) = 0 -> LoadAccesses(op)
    [] X(op) \in {1, 2} -> RegisterAccesses(op)
    [] OTHER -> ControlAccesses(op, taken)

PrefixedAccesses(op) ==
  Operand(Z(op), Read(1)) \o (IF X(op) = 1 THEN <<>> ELSE Operand(Z(op), Write(1)))

-----------------------------------------------------------------------------
\* No instruction makes more accesses than the decoder promises cycles for,
\* which pad_to asserts; the prediction of a branch agrees with its
\* execution; and the program counter passes as many bytes as the decoder
\* says.  STOP skips its second byte without reading it.
FitsTheDecoder(op) ==
  /\ \A flags \in SUBSET Flag :
       LET taken == Taken(op, flags)
       IN  /\ BranchTaken(op, flags) = taken
           /\ 4 * (1 + Len(Accesses(op, taken))) <= Cycles(op, taken)
           /\ Length(op) = 1 + Len(SelectSeq(Accesses(op, taken),
                                             LAMBDA a : a = "fetch"))
                             + (IF op = StopCode THEN 1 ELSE 0)

PrefixedFits(op) == 4 * (2 + Len(PrefixedAccesses(op))) <= PrefixedCycles(op)

InstructionsFitTheDecoder ==
  /\ \A op \in Byte \ (Illegal \cup {Prefix}) : FitsTheDecoder(op)
  /\ \A op \in Byte : PrefixedFits(op)
=============================================================================
