---------------------------- MODULE MCProcessor -----------------------------
(***************************************************************************)
(* Two small programs for Processor, that move over more pages than there  *)
(* are frames.                                                             *)
(***************************************************************************)
EXTENDS Processor, Sequences

R(op, rd, rs, rt) == [op |-> op, rs |-> rs, rt |-> rt, rd |-> rd, imm |-> 0]
S(op, rd, rt, n)  == [op |-> op, rs |-> 0, rt |-> rt, rd |-> rd, imm |-> n]
I(op, rt, rs, n)  == [op |-> op, rs |-> rs, rt |-> rt, rd |-> 0,
                      imm |-> n % HalfSize]
J(op, target)     == [op |-> op, rs |-> 0, rt |-> 0, rd |-> 0, imm |-> target]

\* From 0: a loop over pages of data, with a call to 9; from 16: a loop over
\* bytes at doubling distances.
Program ==
  <<I("LW", 1, 29, 0), I("ADDI", 1, 1, 5), I("SW", 1, 29, 4), J("JAL", 9),
    I("SH", 2, 29, 2), R("ADD", 29, 29, 31), S("SRL", 2, 29, 6), I("BEQ", 0, 2, -8),
    J("HALT", 0),
    I("LBU", 2, 29, 5), I("SB", 2, 29, 0), R("XOR", 1, 2, 1), I("BNE", 0, 1, 1), NOP,
    R("JR", 0, 31, 0), NOP,
    I("LH", 1, 29, 2), S("SLL", 2, 1, 3), I("SB", 2, 29, 1), I("LB", 2, 29, 3),
    R("ADDU", 29, 29, 29), S("SRL", 31, 29, 6), I("BEQ", 0, 31, -7), J("HALT", 0)>>

\* Word n encodes instruction n.
MCDecode(w) == LET n == Value(w)
               IN  IF n \in 1 .. Len(Program) THEN Program[n] ELSE NOP

Number(n) == [k \in 0 .. 3 |-> (n \div ByteSize ^ (3 - k)) % ByteSize]

MCCode ==
  [v \in 0 .. IDiskPages - 1 |-> [o \in 0 .. IPageWords - 1 |->
     LET p == v * IPageWords + o + 1 IN Number(IF p <= Len(Program) THEN p ELSE 0)]]

MCData ==
  [v \in 0 .. DDiskPages - 1 |-> [o \in 0 .. DPageWords - 1 |->
     Number((37 * (v * DPageWords + o) + 8) % WordSize)]]

MCStarts == {<<0, 4 * n>> : n \in 0 .. 15} \cup {<<16, 4 * n>> : n \in 1 .. 15}
=============================================================================
