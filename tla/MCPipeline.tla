----------------------------- MODULE MCPipeline -----------------------------
(***************************************************************************)
(* Small programs for Pipeline.                                            *)
(***************************************************************************)
EXTENDS Pipeline, Sequences

R(op, rd, rs, rt) == [op |-> op, rs |-> rs, rt |-> rt, rd |-> rd, imm |-> 0]
S(op, rd, rt, n)  == [op |-> op, rs |-> 0, rt |-> rt, rd |-> rd, imm |-> n]
I(op, rt, rs, n)  == [op |-> op, rs |-> rs, rt |-> rt, rd |-> 0,
                      imm |-> n % HalfSize]
J(op, target)     == [op |-> op, rs |-> 0, rt |-> 0, rd |-> 0, imm |-> target]

\* A program of the given body, HALTs after it.
Image(body) ==
  [p \in Address |-> IF p < Len(body) THEN body[p + 1] ELSE J("HALT", 0)]

Bodies(alphabet, length) == [1 .. length -> alphabet]

Inside(c) == \A p \in Address : c[p].op \in Branches => Target(p, c[p]) \in 0 .. CodeWords - 6

MCData == [w \in DataWord |-> (37 * w + 8) % WordSize]

\* Dependences between arithmetic, loads and stores.
DataAlphabet ==
  {I("ADDI", 1, 0, 4), I("ADDI", 1, 1, 3), R("ADD", 1, 1, 2), R("SUB", 2, 2, 1),
   S("SLL", 2, 1, 1), I("LW", 1, 0, 4), I("LB", 2, 1, 1), I("SB", 1, 0, 5),
   I("SW", 2, 0, 4), I("ADDI", 0, 1, 3), NOP}

\* Every operation, on $1 and on what it leaves in $1.
Operations ==
  {R(op, 1, 1, 2) : op \in RArith \ Shifts} \cup {S(op, 1, 1, 3) : op \in Shifts}
    \cup {I(op, 1, 1, -3) : op \in IArith \ {"LUI"}} \cup {I("LUI", 1, 0, -3)}
    \cup {I(op, 1, 2, 4) : op \in Loads \cup Stores}

DataPrograms ==
  {Image(b) : b \in Bodies(DataAlphabet, 3)}
    \cup {Image(<<I("ADDI", 2, 0, -4)>> \o b) : b \in Bodies(Operations, 2)}

\* Loops, calls and returns: $1 goes from 2 to 0 in two shifts, $31 links.
LoopAlphabet ==
  {I("BEQ", 0, 0, 1), S("SRL", 1, 1, 1), I("BNE", 0, 1, -2), I("BNE", 0, 1, 1),
   J("JAL", 3), J("J", 2), R("JR", 0, 31, 0), R("ADD", 2, 31, 31)}

\* Two branches, the second the target of the first, that share a counter of a
\* table of two: taken twice, then only the first of them.
SharedCounter ==
  Image(<<I("ADDI", 1, 0, 2), I("BEQ", 0, 0, 1), NOP, I("BNE", 0, 1, 1), NOP,
          S("SRL", 1, 1, 1), J("J", 1)>>)

\* The same, when the second branch also has to wait for a load.
SharedCounterWaits ==
  Image(<<I("ADDI", 2, 0, 8), I("LW", 1, 0, 4), I("BEQ", 0, 0, 1), NOP, I("BEQ", 0, 1, 1),
          NOP, I("BNE", 0, 2, -6)>>)

LoopPrograms ==
  {SharedCounter, SharedCounterWaits} \cup
  {c \in {Image(<<I("ADDI", 1, 0, 2)>> \o b) : b \in Bodies(LoopAlphabet, 4)} : Inside(c)}

\* Branches and jumps on registers just loaded, computed or linked.
JumpAlphabet ==
  {I("LW", 31, 0, 0), I("ADDI", 31, 0, 4), I("ADDI", 1, 31, 4), I("BNE", 1, 31, 1),
   I("BEQ", 31, 0, 1), J("JAL", 2), R("JR", 0, 31, 0), NOP}
JumpPrograms == {Image(b) : b \in Bodies(JumpAlphabet, 4)}

\* Programs loaded from word 2 on, that use $29 before anything writes it.
StackAlphabet ==
  {I("ADDI", 29, 29, 4), I("SW", 29, 29, 0), I("LW", 1, 29, -4), I("BNE", 29, 1, 1),
   R("ADD", 1, 29, 1), R("JR", 0, 29, 0)}
StackPrograms ==
  {c \in {Image(<<NOP, NOP>> \o b) : b \in Bodies(StackAlphabet, 4)} : Inside(c)}

AllPrograms == DataPrograms \cup JumpPrograms \cup LoopPrograms \cup StackPrograms
MCStarts == {<<0, 0>>, <<2, 12>>}

\* A branch backwards between an instruction that writes $31 and one that reads it.
BackwardPrograms == {Image(<<I("ADDI", 31, 0, 4), I("BNE", 0, 0, -1), I("ADDI", 1, 31, 0)>>)}

SharedPrograms == {SharedCounter}
=============================================================================
