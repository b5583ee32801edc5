-------------------------------- MODULE ISA ---------------------------------
(***************************************************************************)
(* The machine all three simulators promise to be: one instruction after   *)
(* the other, each complete before the next begins.  Words 0 (NOP) are     *)
(* stepped over; HALT and the end of the code stop the machine.            *)
(***************************************************************************)
EXTENDS Instructions

CONSTANTS
  CodeWords,  \* words of instruction memory
  DataWords   \* words of data memory

Address  == 0 .. CodeWords - 1
DataWord == 0 .. DataWords - 1

VARIABLES
  code,  \* instruction memory
  pc,    \* address of the next instruction that is not a NOP, or Stopped
  reg,
  mem    \* data memory

vars == <<code, pc, reg, mem>>

\* Any program, registers and data that a loader may leave.
Init ==
  /\ code \in [Address -> Instr]
  /\ \E start \in Address \cup {Stopped} : pc = Due(code, start)
  /\ reg \in [Reg -> Word] /\ reg[0] = 0
  /\ mem \in [DataWord -> Word]

Set(r, value) == reg' = [x \in Reg |-> IF x = r /\ r # 0 THEN value ELSE reg[x]]

GoTo(p) == pc' = Due(code, p) /\ UNCHANGED code

Here == code[pc]

AddressOf(i) == ALU(i.op, reg[i.rs], SignExtend(i.imm))

Running(ops) == pc # Stopped /\ Here.op \in ops

\* Machines differ in what they do with other addresses.
Accessible(a) == a \div 4 \in DataWord

RegisterArith ==
  /\ Running(RArith)
  /\ Set(Here.rd, ALU(Here.op, IF Here.op \in Shifts THEN Here.imm
                               ELSE reg[Here.rs], reg[Here.rt]))
  /\ GoTo(pc + 1)
  /\ UNCHANGED mem

ImmediateArith ==
  /\ Running(IArith)
  /\ Set(Here.rt, ALU(Here.op, reg[Here.rs], SignExtend(Here.imm)))
  /\ GoTo(pc + 1)
  /\ UNCHANGED mem

Load ==
  /\ Running(Loads)
  /\ LET a == AddressOf(Here)
     IN  Accessible(a) /\ Set(Here.rt, Loaded(Here.op, mem[a \div 4], a % 4))
  /\ GoTo(pc + 1)
  /\ UNCHANGED mem

Store ==
  /\ Running(Stores)
  /\ LET a == AddressOf(Here)
     IN  /\ Accessible(a)
         /\ mem' = [mem EXCEPT ![a \div 4] =
                      Merged(Here.op, @, a % 4, reg[Here.rt])]
  /\ GoTo(pc + 1)
  /\ UNCHANGED reg

Branch ==
  /\ Running(Branches)
  /\ GoTo(IF (reg[Here.rs] = reg[Here.rt]) <=> (Here.op = "BEQ")
          THEN Target(pc, Here) ELSE pc + 1)
  /\ UNCHANGED <<reg, mem>>

Jump ==
  /\ Running({"J", "JAL", "JR"})
  /\ GoTo(IF Here.op = "JR" THEN reg[Here.rs] \div 4 ELSE Here.imm)
  /\ IF Here.op = "JAL" THEN Set(31, (4 * (pc + 1)) % WordSize) ELSE UNCHANGED reg
  /\ UNCHANGED mem

Halt ==
  /\ Running({"HALT"})
  /\ pc' = Stopped
  /\ UNCHANGED <<code, reg, mem>>

Next == \/ RegisterArith \/ ImmediateArith \/ Load \/ Store
        \/ Branch \/ Jump \/ Halt

Spec == Init /\ [][Next]_vars
=============================================================================
