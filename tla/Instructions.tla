---------------------------- MODULE Instructions ----------------------------
(***************************************************************************)
(* The instruction set the three simulators share: formats, arithmetic and *)
(* the placing of bytes in big-endian words.  A word has four bytes and an *)
(* immediate two, as in the code; ByteBits is 8 there.                     *)
(*                                                                         *)
(* An instruction is a record [op, rs, rt, rd, imm]: op joins the code's   *)
(* opcode and funct, imm is the immediate, the shift amount or the target  *)
(* of a jump (a word address).                                             *)
(***************************************************************************)
EXTENDS Integers, FiniteSetsExt

CONSTANTS
  ByteBits,  \* bits in a byte
  Reg        \* the registers programs name

ASSUME WidthAssumption == ByteBits \in Nat \ {0}

ASSUME RegAssumption == {0, 29, 31} \subseteq Reg /\ Reg \subseteq 0 .. 31

Bits     == 4 * ByteBits
ByteSize == 2 ^ ByteBits
HalfSize == ByteSize ^ 2
WordSize == ByteSize ^ 4
Word     == 0 .. WordSize - 1

\* What ^ means here; nothing else tells the provers.
ASSUME PowerAssumption ==
  /\ \A k \in 0 .. Bits - 1 : 2 ^ (k + 1) = 2 * 2 ^ k
  /\ ByteSize ^ 0 = 1 /\ \A k \in 0 .. 3 : ByteSize ^ (k + 1) = ByteSize * ByteSize ^ k

Shifts   == {"SLL", "SRL", "SRA"}
RArith   == Shifts \cup {"ADD", "ADDU", "SUB", "SUBU", "AND", "OR", "XOR",
                         "NOR", "NAND", "SLT", "SLTU"}
RType    == RArith \cup {"JR"}
IArith   == {"ADDI", "ADDIU", "SLTI", "ANDI", "ORI", "NORI", "LUI"}
Loads    == {"LB", "LH", "LW", "LBU", "LHU"}
Stores   == {"SB", "SH", "SW"}
Branches == {"BEQ", "BNE"}
Op       == RType \cup IArith \cup Loads \cup Stores \cup Branches
                  \cup {"J", "JAL", "HALT"}

\* A shift amount is less than the width of a word (it has five bits).
Instr == {i \in [op : Op, rs : Reg, rt : Reg, rd : Reg, imm : 0 .. HalfSize - 1] :
            i.op \in Shifts => i.imm < Bits}

\* The word 0, which is SLL $0, $0, 0.
NOP == [op |-> "SLL", rs |-> 0, rt |-> 0, rd |-> 0, imm |-> 0]

Stopped == -1

\* The address of the first instruction of code c from p on that is not a NOP.
Due(c, p) ==
  LET rest == {q \in DOMAIN c : q >= p /\ c[q] # NOP}
  IN  IF p \in DOMAIN c /\ rest # {} THEN Min(rest) ELSE Stopped
-----------------------------------------------------------------------------
(* Arithmetic on words.                                                    *)

Signed(w) == IF w < WordSize \div 2 THEN w ELSE w - WordSize

SignExtend(imm) ==
  IF imm < HalfSize \div 2 THEN imm ELSE imm + WordSize - HalfSize

\* Where a branch at address p goes when taken.
Target(p, i) == p + 1 + Signed(SignExtend(i.imm))

\* Bits 15..11 of the instruction.  Immediates and targets are less than 2^11
\* away from zero (memories have 256 words), so there these bits repeat the sign.
Bits15to11(i) ==
  IF i.op \in RType THEN i.rd
  ELSE IF i.op \notin {"J", "JAL", "HALT"} /\ i.imm >= HalfSize \div 2 THEN 31
  ELSE 0

Bit(w, k) == (w \div 2 ^ k) % 2

\* The sum of the bits that both have, from the lowest up.
And(a, b) ==
  LET below[k \in 0 .. Bits] ==
        IF k = 0 THEN 0
        ELSE below[k - 1] + Bit(a, k - 1) * Bit(b, k - 1) * 2 ^ (k - 1)
  IN  below[Bits]

Or(a, b)  == a + b - And(a, b)
Xor(a, b) == a + b - 2 * And(a, b)
Not(a)    == WordSize - 1 - a

\* An arithmetic shift by zero is a shift by the width of a word in the code,
\* which C leaves undefined: programs do not contain it (see ShiftAssumption).
ShiftRightArith(w, n) ==
  (w \div 2 ^ n) + (IF Signed(w) < 0 THEN WordSize - 2 ^ (Bits - n) ELSE 0)

Less(a, b) == IF a < b THEN 1 ELSE 0

\* exec_r: the R-type operations.
RegisterALU(op, a, b) ==
  CASE op \in {"ADD", "ADDU"} -> (a + b) % WordSize
    [] op \in {"SUB", "SUBU"} -> (a - b) % WordSize
    [] op = "AND"             -> And(a, b)
    [] op = "OR"              -> Or(a, b)
    [] op = "XOR"             -> Xor(a, b)
    [] op = "NOR"             -> Not(Or(a, b))
    [] op = "NAND"            -> Not(And(a, b))
    [] op = "SLT"             -> Less(Signed(a), Signed(b))
    [] op = "SLTU"            -> Less(a, b)
    [] op = "SLL"             -> (b * 2 ^ a) % WordSize
    [] op = "SRL"             -> b \div 2 ^ a
    [] op = "SRA"             -> ShiftRightArith(b, a)

\* Immediate operations and addresses; b is the sign-extended immediate.
ImmediateALU(op, a, b) ==
  CASE op \in {"ADDI"} \cup Loads \cup Stores -> (a + b) % WordSize
    [] op = "ADDIU" -> (a + (b % HalfSize)) % WordSize
    [] op = "SLTI"  -> Less(Signed(a), Signed(b))
    [] op = "ANDI"  -> And(a, b % HalfSize)
    [] op = "ORI"   -> Or(a, b % HalfSize)
    [] op = "NORI"  -> Not(Or(a, b % HalfSize))
    [] op = "LUI"   -> (b * HalfSize) % WordSize

\* What EX computes from its two inputs.
ALU(op, a, b) ==
  IF op \in RArith THEN RegisterALU(op, a, b) ELSE ImmediateALU(op, a, b)
-----------------------------------------------------------------------------
(* Bytes and half-words of a word; lane k is the k-th byte from the left.  *)

ByteAt(w, k) == (w \div ByteSize ^ (3 - k)) % ByteSize
HalfAt(w, k) == (w \div ByteSize ^ (2 - k)) % HalfSize

Extend(x, size) == IF x < size \div 2 THEN x ELSE x + WordSize - size

\* What a load makes of the word that holds its operand.
Loaded(op, w, k) ==
  CASE op = "LB"  -> Extend(ByteAt(w, k), ByteSize)
    [] op = "LBU" -> ByteAt(w, k)
    [] op = "LH"  -> Extend(HalfAt(w, k), HalfSize)
    [] op = "LHU" -> HalfAt(w, k)
    [] op = "LW"  -> w

\* The word a store of v leaves where w was.
Merged(op, w, k, v) ==
  CASE op = "SB" -> w + ((v % ByteSize) - ByteAt(w, k)) * ByteSize ^ (3 - k)
    [] op = "SH" -> w + ((v % HalfSize) - HalfAt(w, k)) * ByteSize ^ (2 - k)
    [] op = "SW" -> v
=============================================================================
