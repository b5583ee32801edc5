------------------------------ MODULE Pipeline ------------------------------
(***************************************************************************)
(* proj2: the five-stage pipeline.  One turn of main's loop runs WB, DM,   *)
(* EX, ID and IF in this order on the four latches between them, updates   *)
(* the branch history table and picks the next PC.  Each stage is an       *)
(* operator from the machine it finds to the machine it leaves.            *)
(*                                                                         *)
(* A latch's nop flag is set by the stage that puts a bubble in it and     *)
(* reset by the stage that takes the bubble out.  A latch keeps the        *)
(* instruction where the code keeps fields copied from it.  "at", the      *)
(* address of that instruction, is not in the code: it is kept for the     *)
(* properties and nothing reads it.                                        *)
(***************************************************************************)
EXTENDS Instructions

CONSTANTS
  CodeWords,  \* words of i_memory
  BHTSize,    \* entries of the branch history table (16 in the code)
  Programs,   \* i_memory as the loader leaves it
  Starts,     \* start addresses (of words) and initial $sp: <<PC, sp>>
  DataImage   \* d_memory as the loader leaves it

Address  == 0 .. CodeWords - 1
DataWord == 0 .. (WordSize \div 4) - 1

\* Project2.docx: programs make no misaligned and no out-of-range access.  A
\* branch stays in the code; what follows a HALT is HALT; SRA is not by zero.
ShiftAssumption == \A c \in Programs, p \in Address : c[p].op = "SRA" => c[p].imm # 0

ASSUME ProgramAssumption ==
  /\ CodeWords \in Nat \ {0} /\ BHTSize \in Nat \ {0}
  /\ Programs \subseteq [Address -> Instr]
  /\ Starts \subseteq Address \X Word
  /\ DataImage \in [DataWord -> Word]
  /\ \A c \in Programs, p \in Address :
       /\ c[p].op \in Branches => Target(p, c[p]) \in Address
       /\ c[p].op \in {"J", "JAL", "HALT"} => c[p].rs = 0 /\ c[p].rt = 0
       /\ c[p].op = "HALT" => \A q \in p .. CodeWords - 1 : c[q].op = "HALT"
  /\ ShiftAssumption

VARIABLES
  code,  \* i_memory
  cpu    \* everything else

vars == <<code, cpu>>

Control == [op : Op, jump : BOOLEAN, branch : BOOLEAN, MemRead : BOOLEAN,
            MemtoReg : BOOLEAN, MemWrite : BOOLEAN, ALUSrc : BOOLEAN,
            RegWrite : BOOLEAN]

NoControl == [op |-> NOP.op, jump |-> FALSE, branch |-> FALSE, MemRead |-> FALSE,
              MemtoReg |-> FALSE, MemWrite |-> FALSE, ALUSrc |-> FALSE,
              RegWrite |-> FALSE]

\* The bubbles: struct X temp = {0}, with nop set.
NoID_EX  == [ctrl |-> NoControl, instr |-> NOP, RD1 |-> 0, RD2 |-> 0,
             jump_PC |-> 0, branch |-> FALSE, nop |-> TRUE, re_addr |-> 0,
             taken_flag |-> FALSE, branch_no_PC |-> 0, taken |-> 0, index |-> 0,
             at |-> 0]
NoEX_MEM == [ctrl |-> NoControl, alu_result |-> 0, WDtoMem |-> 0, dest |-> 0,
             nop |-> TRUE, re_addr |-> 0, at |-> 0]
NoMEM_WB == [ctrl |-> NoControl, RD |-> 0, dest |-> 0, alu_result |-> 0,
             nop |-> TRUE, re_addr |-> 0, at |-> 0]

\* loader and init_register.
InitCPU(start) ==
  [PC |-> start[1], reg |-> [r \in Reg |-> IF r = 29 THEN start[2] ELSE 0],
   mem |-> DataImage, halt |-> FALSE,
   if_id   |-> [instr |-> NOP, PC |-> 0, nop |-> TRUE, branch_no_PC |-> 0,
                taken_flag |-> FALSE, taken |-> 0, index |-> 0, at |-> 0],
   id_ex   |-> NoID_EX, ex_mem |-> NoEX_MEM, mem_wb |-> NoMEM_WB,
   control |-> NoControl, BHT |-> [k \in 0 .. BHTSize - 1 |-> 1],
   if_nop  |-> FALSE, id_stall |-> FALSE, correct |-> FALSE]
-----------------------------------------------------------------------------
(* WB.                                                                     *)

\* The registers once the instruction in mem_wb has written its result.
Written(reg, w) ==
  [r \in Reg |->
     IF w.ctrl.RegWrite /\ w.dest # 0 /\ r = w.dest
     THEN IF w.ctrl.MemtoReg THEN w.RD ELSE w.alu_result
     ELSE IF w.ctrl.op = "JAL" /\ r = 31 THEN w.re_addr ELSE reg[r]]

WB(m) ==
  IF m.mem_wb.nop THEN [m EXCEPT !.mem_wb.nop = FALSE]
  ELSE IF m.mem_wb.ctrl.op = "HALT" THEN [m EXCEPT !.halt = TRUE]
  ELSE [m EXCEPT !.reg = Written(@, m.mem_wb)]
-----------------------------------------------------------------------------
(* DM.                                                                     *)

DM(m) ==
  LET x == m.ex_mem
      a == x.alu_result
  IN  IF x.nop THEN [m EXCEPT !.mem_wb = NoMEM_WB, !.ex_mem.nop = FALSE]
      ELSE IF x.ctrl.op = "HALT"
      THEN [m EXCEPT !.mem_wb.ctrl = x.ctrl, !.mem_wb.at = x.at]
      ELSE [m EXCEPT
             !.mem = IF x.ctrl.MemWrite /\ ~x.ctrl.MemRead
                     THEN [@ EXCEPT ![a \div 4] = x.WDtoMem] ELSE @,
             !.mem_wb =
               [ctrl |-> x.ctrl, dest |-> x.dest, alu_result |-> a,
                RD   |-> IF x.ctrl.MemRead /\ ~x.ctrl.MemWrite
                         THEN Loaded(x.ctrl.op, m.mem[a \div 4], a % 4) ELSE @.RD,
                nop  |-> @.nop, at |-> x.at,
                re_addr |-> IF x.ctrl.op = "JAL" THEN x.re_addr ELSE @.re_addr]]
-----------------------------------------------------------------------------
(* EX.                                                                     *)

EX(m) ==
  LET d       == m.id_ex
      op      == d.ctrl.op
      regular == ~d.ctrl.ALUSrc /\ op \notin Stores
      input_2 == IF regular THEN d.RD2 ELSE SignExtend(d.instr.imm)
      result  == IF op \in RArith \cup IArith \cup Loads \cup Stores
                 THEN ALU(op, d.RD1, input_2) ELSE m.ex_mem.alu_result
  IN  IF d.nop THEN [m EXCEPT !.ex_mem = NoEX_MEM, !.id_ex.nop = FALSE]
      ELSE IF op = "HALT"
      THEN [m EXCEPT !.ex_mem.ctrl = d.ctrl, !.ex_mem.at = d.at]
      ELSE [m EXCEPT !.ex_mem =
             [ctrl |-> d.ctrl, alu_result |-> result, nop |-> @.nop, at |-> d.at,
              dest |-> IF regular THEN Bits15to11(d.instr)
                       ELSE IF op \in Stores THEN 0 ELSE d.instr.rt,
              WDtoMem |-> IF op \in Stores
                          THEN Merged(op, m.mem[result \div 4], result % 4, d.RD2)
                          ELSE @.WDtoMem,
              re_addr |-> IF op = "JAL" THEN d.re_addr ELSE @.re_addr]]
-----------------------------------------------------------------------------
(* ID: decoding.                                                           *)

\* J, JAL and HALT leave some lines as the previous instruction set them.
Decode(c, op) ==
  CASE op \in RType ->
         [NoControl EXCEPT !.op = op, !.jump = (op = "JR"), !.RegWrite = (op # "JR")]
    [] op \in {"J", "JAL"} ->
         [c EXCEPT !.op = op, !.jump = TRUE, !.MemRead = FALSE, !.MemWrite = FALSE,
                   !.RegWrite = FALSE]
    [] op = "HALT" ->
         [c EXCEPT !.op = op, !.jump = FALSE, !.branch = FALSE, !.MemRead = FALSE,
                   !.MemWrite = FALSE, !.RegWrite = FALSE]
    [] OTHER ->
         [op |-> op, jump |-> FALSE, branch |-> op \in Branches,
          MemRead |-> op \in Loads, MemtoReg |-> op \in Loads,
          MemWrite |-> op \in Stores, ALUSrc |-> op \in IArith \cup Loads,
          RegWrite |-> op \in IArith \cup Loads]
-----------------------------------------------------------------------------
(* ID: hazards.  x and w are the latches EX and DM have just filled: the    *)
(* previous instruction and the one before it.                             *)

\* Slips: $0 is forwarded; the older of two results wins.
ByEX_Zero(x, r)       == x.ctrl.RegWrite /\ r = x.dest
ByDM_Older(x, w, r)   == w.ctrl.RegWrite /\ w.dest # 0 /\ r = w.dest

\* The instruction in x, or in w, writes register r; w gives way to x's dest.
ByEX(x, r)     == x.ctrl.RegWrite /\ x.dest # 0 /\ r = x.dest
ByDM(x, w, r)  == w.ctrl.RegWrite /\ w.dest # 0 /\ w.dest # x.dest /\ r = w.dest
ByJAL(x, w, r) == w.ctrl.op = "JAL" /\ x.dest # 31 /\ x.ctrl.op # "JAL" /\ r = 31

\* forward: the operands of an instruction on its way to EX.
ForwardStall(x, r) == ByEX(x, r) /\ x.ctrl.MemtoReg

Forward(x, w, r, read) ==
  IF ByDM(x, w, r) THEN IF w.ctrl.MemtoReg THEN w.RD ELSE w.alu_result
  ELSE IF ByJAL(x, w, r) THEN w.re_addr
  ELSE IF ByEX(x, r) /\ ~x.ctrl.MemtoReg THEN x.alu_result
  ELSE read

\* Slip: any result in w stalls, not only that of a load.
BranchStall_Any(x, w, r) == ByEX(x, r) \/ ByDM(x, w, r)

\* Slip: whether ex_mem writes its dest, and whether that is $0, is not asked.
BranchStall_AnyDest(x, w, r) == r = x.dest \/ (ByDM(x, w, r) /\ w.ctrl.MemtoReg)

\* forward_branch: the operands of a branch or a JR, used in ID itself.
BranchStall(x, w, r) == ByEX(x, r) \/ (ByDM(x, w, r) /\ w.ctrl.MemtoReg)

ForwardBranch(x, w, r, read) ==
  IF ByDM(x, w, r) /\ ~w.ctrl.MemtoReg THEN w.alu_result
  ELSE IF ByJAL(x, w, r) THEN w.re_addr
  ELSE read

\* The instructions ID passes to forward.
ToForward(i) == i.op \notin Branches \cup {"JR", "HALT", "LUI"}
InID(i)      == i.op \in Branches \cup {"JR"}

\* The registers whose forwarding may call nop_id.
Waiting(i, c) ==
  IF i.op \in Branches THEN {i.rs, i.rt}
  ELSE IF i.op = "JR" THEN {i.rs}
  ELSE IF ToForward(i)
  THEN {r \in {i.rs} : i.op \notin Shifts} \cup {r \in {i.rt} : ~c.ALUSrc}
  ELSE {}

\* nop_id: the instruction stays in if_id for another cycle.
Stalls(x, w, i, c) ==
  \E r \in Waiting(i, c) : IF InID(i) THEN BranchStall(x, w, r) ELSE ForwardStall(x, r)

\* The control lines of the instruction in ID, and whether it has to stay.
Lines(m)      == Decode(m.control, m.if_id.instr.op)
StallsHere(m) == Stalls(m.ex_mem, m.mem_wb, m.if_id.instr, Lines(m))

\* An operand that ID uses itself.
Operand(m, r) ==
  IF \E q \in Waiting(m.if_id.instr, Lines(m)) : ByEX(m.ex_mem, q) THEN m.reg[r]
  ELSE ForwardBranch(m.ex_mem, m.mem_wb, r, m.reg[r])

\* id_ex.branch: whether the branch in ID is taken.
Outcome(m) ==
  LET i == m.if_id.instr
  IN  IF i.op \in Branches THEN (Operand(m, i.rs) = Operand(m, i.rt)) <=> (i.op = "BEQ")
      ELSE m.id_ex.branch

\* id_ex when the instruction in if_id has been decoded.
ToEX(m) ==
  LET d == m.if_id
      i == d.instr
      e == m.id_ex
      forwarded(r) == Forward(m.ex_mem, m.mem_wb, r, m.reg[r])
  IN  [ctrl |-> Lines(m), instr |-> i, at |-> d.at, nop |-> StallsHere(m),
       branch |-> Outcome(m),
       RD1 |-> IF i.op \in Shifts THEN i.imm
               ELSE IF ToForward(i) THEN forwarded(i.rs) ELSE m.reg[i.rs],
       RD2 |-> IF ToForward(i) /\ ~Lines(m).ALUSrc THEN forwarded(i.rt) ELSE m.reg[i.rt],
       jump_PC |-> IF i.op \in {"J", "JAL"} THEN i.imm
                   ELSE IF i.op = "JR" THEN Operand(m, i.rs) \div 4 ELSE e.jump_PC,
       re_addr |-> IF i.op = "JAL" THEN (4 * d.PC) % WordSize ELSE e.re_addr,
       taken_flag   |-> IF i.op \in Branches THEN d.taken_flag ELSE e.taken_flag,
       branch_no_PC |-> IF i.op \in Branches THEN d.branch_no_PC ELSE e.branch_no_PC,
       taken |-> IF i.op \in Branches THEN d.taken ELSE e.taken,
       index |-> IF i.op \in Branches THEN d.index ELSE e.index]

ID(m) ==
  LET d     == m.if_id
      right == Outcome(m) = d.taken_flag
      stall == StallsHere(m)
  IN  IF d.nop \/ d.instr = NOP
      THEN [m EXCEPT !.id_ex = NoID_EX, !.if_id.nop = FALSE]
      ELSE [m EXCEPT
             !.id_ex = ToEX(m), !.control = Lines(m), !.if_nop = @ \/ stall,
             !.id_stall  = @ \/ stall,
             !.correct   = IF d.instr.op \in Branches THEN right ELSE @,
             !.if_id.nop = @ \/ (d.instr.op \in Branches /\ ~right /\ ~stall)]
-----------------------------------------------------------------------------
(* IF and branch prediction.                                               *)

\* branch_pre: the next PC of a branch follows its counter in the table.  (The
\* code also moves vcpu.PC here; NextPC sets it again before anyone reads it.)
IFetch(m) ==
  LET i       == code[m.PC]
      index   == m.PC % BHTSize
      taken   == m.BHT[index] \in {2, 3}
      fetched == [m.if_id EXCEPT !.instr = i, !.PC = m.PC + 1, !.at = m.PC]
  IN  IF m.if_nop THEN [m EXCEPT !.if_id.PC = m.PC, !.if_nop = FALSE]
      ELSE IF i.op \notin Branches THEN [m EXCEPT !.if_id = fetched]
      ELSE [m EXCEPT !.if_id =
             [fetched EXCEPT
                !.PC = IF taken THEN Target(m.PC, i) ELSE m.PC + 1,
                !.branch_no_PC = IF taken THEN m.PC + 1 ELSE Target(m.PC, i),
                !.taken_flag = taken, !.taken = m.BHT[index], !.index = index]]

\* Slip: 00 does not hold at branches not taken.
Step_BelowZero(counter, taken) ==
  IF ~taken THEN counter - 1 ELSE IF counter = 3 THEN 3 ELSE counter + 1

\* The two-bit counter after an outcome.
Step(counter, taken) ==
  IF taken THEN IF counter = 3 THEN 3 ELSE counter + 1
  ELSE IF counter = 0 THEN 0 ELSE counter - 1

\* Slip: a branch that waits in ID counts every cycle.
BranchState_WhileStalled(m) ==
  LET d == m.id_ex
      next == Step(d.taken, d.branch)
  IN  IF d.ctrl.op \notin Branches THEN m
      ELSE [m EXCEPT !.BHT[d.index] = next, !.id_ex.taken = next]

BranchState(m) ==
  LET d == m.id_ex
      next == Step(d.taken, d.branch)
  IN  IF m.id_stall \/ d.ctrl.op \notin Branches THEN m
      ELSE [m EXCEPT !.BHT[d.index] = next, !.id_ex.taken = next]

\* Slip: the instruction after a jump is not flushed.
NextPC_NoFlush(m) ==
  IF m.id_ex.ctrl.jump /\ ~m.id_stall THEN [m EXCEPT !.PC = m.id_ex.jump_PC]
  ELSE IF m.id_ex.ctrl.branch /\ ~m.correct /\ ~m.id_stall
  THEN [m EXCEPT !.PC = m.id_ex.branch_no_PC]
  ELSE [m EXCEPT !.PC = m.if_id.PC]

NextPC(m) ==
  IF m.id_ex.ctrl.jump /\ ~m.id_stall
  THEN [m EXCEPT !.PC = m.id_ex.jump_PC, !.if_id.nop = TRUE]
  ELSE IF m.id_ex.ctrl.branch /\ ~m.correct /\ ~m.id_stall
  THEN [m EXCEPT !.PC = m.id_ex.branch_no_PC]
  ELSE [m EXCEPT !.PC = m.if_id.PC]
-----------------------------------------------------------------------------
\* The loader puts a program at its start address; the words below stay zero.
Init == /\ code \in Programs
        /\ \E start \in Starts : /\ \A p \in 0 .. start[1] - 1 : code[p] = NOP
                               /\ cpu = InitCPU(start)

\* One turn of the loop; back and front are the machine after EX and after IF.
Cycle ==
  /\ ~cpu.halt
  /\ \E back \in {EX(DM(WB([cpu EXCEPT !.id_stall = FALSE])))} :
       \E front \in {IFetch(ID(back))} : cpu' = NextPC(BranchState(front))
  /\ UNCHANGED code

Next == Cycle

Spec == Init /\ [][Next]_vars

\* main's loop goes on until halt_flag is set.
FairSpec == Spec /\ WF_vars(Next)
-----------------------------------------------------------------------------
(* Properties.                                                             *)

TypeOK ==
  /\ code \in [Address -> Instr]
  /\ cpu.PC \in Address
  /\ cpu.reg \in [Reg -> Word]
  /\ cpu.mem \in [DataWord -> Word]
  /\ cpu.BHT \in [0 .. BHTSize - 1 -> 0 .. 3]
  /\ cpu.control \in Control
  /\ \A flag \in {cpu.halt, cpu.if_nop, cpu.id_stall, cpu.correct} : flag \in BOOLEAN
  /\ cpu.if_id \in [instr : Instr, PC : 0 .. CodeWords, nop : BOOLEAN, at : Address,
                    branch_no_PC : 0 .. CodeWords, taken_flag : BOOLEAN, taken : 0 .. 3,
                    index : 0 .. BHTSize - 1]
  /\ cpu.id_ex \in [ctrl : Control, instr : Instr, RD1 : Word, RD2 : Word,
                    jump_PC : Word, branch : BOOLEAN, nop : BOOLEAN, re_addr : Word,
                    taken_flag : BOOLEAN, branch_no_PC : 0 .. CodeWords, taken : 0 .. 3,
                    index : 0 .. BHTSize - 1, at : Address]
  /\ cpu.ex_mem \in [ctrl : Control, alu_result : Word, WDtoMem : Word, dest : Reg,
                     nop : BOOLEAN, re_addr : Word, at : Address]
  /\ cpu.mem_wb \in [ctrl : Control, RD : Word, dest : Reg, alu_result : Word,
                     nop : BOOLEAN, re_addr : Word, at : Address]

\* The instruction in latch l writes register r.
WritesTo(l, r) == r # 0 /\ \/ l.ctrl.RegWrite /\ l.dest = r
                           \/ l.ctrl.op = "JAL" /\ r = 31

\* Register r as the instructions past ID leave it, and whether a load that has
\* not been to DM is to write it.
Current(m, r) ==
  IF WritesTo(m.ex_mem, r)
  THEN IF m.ex_mem.ctrl.op = "JAL" THEN m.ex_mem.re_addr ELSE m.ex_mem.alu_result
  ELSE Written(m.reg, m.mem_wb)[r]

Ready(m, r) == ~(WritesTo(m.ex_mem, r) /\ m.ex_mem.ctrl.MemRead)

\* An instruction that leaves ID carries the operands the instructions before
\* it leave behind, whether they are in the registers, in mem_wb or in ex_mem;
\* none of them comes from a load that has not been to DM.
OperandsCurrent ==
  LET d == cpu.id_ex
  IN  ~d.nop /\ ~cpu.halt /\ ToForward(d.instr) =>
        /\ d.instr.op \notin Shifts =>
             Ready(cpu, d.instr.rs) /\ d.RD1 = Current(cpu, d.instr.rs)
        /\ ~d.ctrl.ALUSrc =>
             Ready(cpu, d.instr.rt) /\ d.RD2 = Current(cpu, d.instr.rt)

\* ID waits only for an instruction still in ex_mem or mem_wb, and when ex_mem
\* holds a bubble only for a load: no instruction waits more than two cycles.
StallsEnd ==
  cpu.id_stall => \/ ~cpu.ex_mem.nop
                  \/ ~cpu.mem_wb.nop /\ cpu.mem_wb.ctrl.MemRead /\ InID(cpu.if_id.instr)

\* A branch that uses counter k leaves ID in this step.
Leaves(k) ==
  /\ ~cpu'.id_stall /\ ~cpu'.id_ex.nop
  /\ cpu'.id_ex.instr.op \in Branches /\ cpu'.id_ex.at % BHTSize = k

\* The instruction before it, a bubble away if it had to wait, is a branch that
\* uses the counter too: its update came after IF read it.
Overtaken(k) ==
  \E l \in {cpu'.ex_mem} \cup {w \in {cpu'.mem_wb} : cpu'.ex_mem.nop} :
    ~l.nop /\ l.ctrl.op \in Branches /\ l.at % BHTSize = k

OneStep(k) == Leaves(k) /\ cpu'.BHT[k] = Step(cpu.BHT[k], cpu'.id_ex.branch)

\* A counter of the table moves only when a branch leaves ID, a branch that
\* waits there does not count; it moves one step towards the outcome, and only
\* a branch just behind another one with the same counter can be off.
CountersFollowBranches ==
  [][\A k \in DOMAIN cpu.BHT : cpu'.BHT[k] # cpu.BHT[k] =>
       OneStep(k) \/ (Leaves(k) /\ Overtaken(k))]_vars

\* Registers as the instructions that have been to DM leave them.
Committed == IF cpu.halt \/ cpu.mem_wb.nop THEN cpu.reg ELSE Written(cpu.reg, cpu.mem_wb)

\* The oldest instruction that has not been to DM.
Oldest ==
  IF cpu.halt \/ (~cpu.mem_wb.nop /\ cpu.mem_wb.ctrl.op = "HALT") THEN Stopped
  ELSE IF ~cpu.ex_mem.nop THEN cpu.ex_mem.at
  ELSE IF ~cpu.id_ex.nop THEN cpu.id_ex.at
  ELSE IF ~cpu.if_id.nop /\ cpu.if_id.instr # NOP THEN cpu.if_id.at
  ELSE Due(code, cpu.PC)

Machine == INSTANCE ISA WITH DataWords <- WordSize \div 4, pc <- Oldest,
                             reg <- Committed, mem <- cpu.mem

\* The pipeline executes its program one instruction at a time: each takes
\* effect in DM, in program order, with what the ones before it left, and
\* nothing a misprediction or a jump lets in takes effect.
ImplementsISA == Machine!Spec

\* Bubbles do not follow each other for ever.
KeepsExecuting == []<>(cpu.halt \/ ~cpu.ex_mem.nop)
-----------------------------------------------------------------------------
(* What proj2/doc/Appendix D.docx draws and the code does not do.          *)

\* The state diagram of the two-bit scheme has no arrow from 11 to 01.
EveryOutcomeCounts ==
  [][\A k \in DOMAIN cpu.BHT : cpu'.BHT[k] # cpu.BHT[k] => OneStep(k)]_vars
=============================================================================
