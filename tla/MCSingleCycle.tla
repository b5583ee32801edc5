--------------------------- MODULE MCSingleCycle ----------------------------
(***************************************************************************)
(* Small programs for SingleCycle.                                         *)
(***************************************************************************)
EXTENDS SingleCycle

R(op, rd, rs, rt) == [op |-> op, rs |-> rs, rt |-> rt, rd |-> rd, imm |-> 0]
S(op, rd, rt, n)  == [op |-> op, rs |-> 0, rt |-> rt, rd |-> rd, imm |-> n]
I(op, rt, rs, n)  == [op |-> op, rs |-> rs, rt |-> rt, rd |-> 0,
                      imm |-> n % HalfSize]
J(op, target)     == [op |-> op, rs |-> 0, rt |-> 0, rd |-> 0, imm |-> target]

\* Code from address 0, zeros after it.
Image(body) == [p \in Address |-> IF p < Len(body) THEN body[p + 1] ELSE NOP]

Data(first, second) ==
  [w \in DataWord |-> IF w = 0 THEN first ELSE IF w = 1 THEN second
                      ELSE (37 * w + 8) % WordSize]

Starts(body, p, offset, sp, data) ==
  [code |-> Image(body), PC |-> p, check_PC |-> offset, sp |-> sp, mem |-> data]

\* The corners of signed and unsigned numbers, and what lies between.
Corners == {0, 1, 6, WordSize \div 2 - 1, WordSize \div 2, WordSize \div 2 + 5, WordSize - 1}
Immediates == {0, 1, HalfSize \div 2 - 1, HalfSize \div 2, HalfSize - 1}

\* Every operation on every pair of corners, results to $2 or to $0.
Arithmetic(rd) ==
  {R(op, rd, 29, 1) : op \in RArith \ Shifts}
    \cup {S(op, rd, 29, n) : op \in Shifts, n \in {1, 2, Bits - 1}}
    \cup {I(op, rd, 29, n) : op \in IArith, n \in Immediates}

OnCorners ==
  {Starts(<<I("LW", 1, 0, 4), i>>, 0, 0, sp, Data(3, v)) :
     i \in Arithmetic(2), sp \in Corners, v \in Corners}
  \cup {Starts(<<I("LW", 1, 0, 4), i, i>>, 0, 0, sp, Data(3, 6)) :
          i \in Arithmetic(0), sp \in {5, WordSize - 1}}

\* Every access around the ends of memory and of the integers, and back.
Bases == 0 .. 4 \cup 4 * DataWords - 4 .. 4 * DataWords + 2
           \cup {WordSize \div 2 - 1, WordSize \div 2, WordSize - 1}
Accesses ==
  {Starts(<<I("LW", 1, 0, 4), I(op, rt, 29, n), I("LW", 2, 0, 0)>>, 0, 0, base, Data(50, 201)) :
     op \in Loads \cup Stores, rt \in {0, 1}, n \in Immediates, base \in Bases}

\* Programs of three over errors, writes to $0, jumps and links.
Alphabet ==
  {I("ADDI", 29, 29, 3), I("ADDI", 0, 29, 3), R("SUBU", 0, 0, 29), R("JR", 0, 29, 0),
   I("SH", 29, 29, 1), I("LB", 29, 29, 2), I("BNE", 0, 29, -2), I("BEQ", 0, 0, 3),
   J("JAL", 2), R("JR", 0, 31, 0), J("J", 9), J("HALT", 0)}
Mixed ==
  {Starts(b, 0, 0, sp, Data(1, 2)) : b \in [1 .. 3 -> Alphabet], sp \in {1, 124}}
  \cup {Starts(<<I("ADDI", 0, 29, 3)>>, p, offset, 4, Data(1, 2)) :
          p \in {0, 2, CodeWords - 1, CodeWords, WordSize - 1}, offset \in {0, 1, 3}}

MCPrograms == OnCorners \cup Accesses \cup Mixed

\* A jump to an address that is neither in memory nor aligned.
FarPrograms == {Starts(<<R("JR", 0, 29, 0)>>, 0, 0, 4 * CodeWords + 1, Data(1, 2))}
=============================================================================
