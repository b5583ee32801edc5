--------------------------- MODULE PipelineProofs ---------------------------
(***************************************************************************)
(* Theorems about the pipeline: when ID waits, which operands leave it,     *)
(* which counters of the branch history table a turn moves, that everything *)
(* keeps its range, and that the pipeline executes its program one          *)
(* instruction after the other.  A turn of the loop is five stages on one   *)
(* record; each stage has a lemma, Turn and Values say what all of them     *)
(* make of each latch, and the invariants build on these.                   *)
(***************************************************************************)
EXTENDS Pipeline, DatapathProofs, TLAPS

\* The control lines are a record of this shape, whatever their values.
ControlShape(c) ==
  c = [op |-> c.op, jump |-> c.jump, branch |-> c.branch, MemRead |-> c.MemRead,
       MemtoReg |-> c.MemtoReg, MemWrite |-> c.MemWrite, ALUSrc |-> c.ALUSrc,
       RegWrite |-> c.RegWrite]

\* The fields of the machine and of its latches.
Shape(m) ==
  /\ m = [PC |-> m.PC, reg |-> m.reg, mem |-> m.mem, halt |-> m.halt,
          if_id |-> m.if_id, id_ex |-> m.id_ex, ex_mem |-> m.ex_mem,
          mem_wb |-> m.mem_wb, control |-> m.control, BHT |-> m.BHT,
          if_nop |-> m.if_nop, id_stall |-> m.id_stall, correct |-> m.correct]
  /\ m.if_id = [instr |-> m.if_id.instr, PC |-> m.if_id.PC, nop |-> m.if_id.nop,
                branch_no_PC |-> m.if_id.branch_no_PC,
                taken_flag |-> m.if_id.taken_flag, taken |-> m.if_id.taken,
                index |-> m.if_id.index, at |-> m.if_id.at]
  /\ m.id_ex = [ctrl |-> m.id_ex.ctrl, instr |-> m.id_ex.instr, RD1 |-> m.id_ex.RD1,
                RD2 |-> m.id_ex.RD2, jump_PC |-> m.id_ex.jump_PC,
                branch |-> m.id_ex.branch, nop |-> m.id_ex.nop,
                re_addr |-> m.id_ex.re_addr, taken_flag |-> m.id_ex.taken_flag,
                branch_no_PC |-> m.id_ex.branch_no_PC, taken |-> m.id_ex.taken,
                index |-> m.id_ex.index, at |-> m.id_ex.at]
  /\ m.ex_mem = [ctrl |-> m.ex_mem.ctrl, alu_result |-> m.ex_mem.alu_result,
                 WDtoMem |-> m.ex_mem.WDtoMem, dest |-> m.ex_mem.dest,
                 nop |-> m.ex_mem.nop, re_addr |-> m.ex_mem.re_addr, at |-> m.ex_mem.at]
  /\ m.mem_wb = [ctrl |-> m.mem_wb.ctrl, RD |-> m.mem_wb.RD, dest |-> m.mem_wb.dest,
                 alu_result |-> m.mem_wb.alu_result, nop |-> m.mem_wb.nop,
                 re_addr |-> m.mem_wb.re_addr, at |-> m.mem_wb.at]
  /\ ControlShape(m.control)

\* WB empties nothing but its own bubble.
LEMMA WBStage ==
  ASSUME NEW m, Shape(m), m.mem_wb.nop \in BOOLEAN
  PROVE  LET n == WB(m)
         IN  /\ Shape(n)
             /\ n.PC = m.PC /\ n.if_id = m.if_id /\ n.id_ex = m.id_ex
             /\ n.ex_mem = m.ex_mem /\ n.control = m.control /\ n.BHT = m.BHT
             /\ n.if_nop = m.if_nop /\ n.id_stall = m.id_stall /\ n.correct = m.correct
             /\ n.mem_wb.nop = FALSE
<1> DEFINE n == WB(m)
           written == Written(m.reg, m.mem_wb)
<1>1. CASE m.mem_wb.nop
  <2>1. n = [m EXCEPT !.mem_wb.nop = FALSE]
    BY <1>1 DEF WB
  <2> HIDE DEF n
  <2>2. /\ n.PC = m.PC /\ n.if_id = m.if_id /\ n.id_ex = m.id_ex
        /\ n.ex_mem = m.ex_mem /\ n.control = m.control /\ n.BHT = m.BHT
        /\ n.if_nop = m.if_nop /\ n.id_stall = m.id_stall /\ n.correct = m.correct
        /\ n.mem_wb = [m.mem_wb EXCEPT !.nop = FALSE]
    BY <2>1 DEF Shape
  <2>3. n.mem_wb.nop = FALSE
    BY <2>2 DEF Shape
  <2>4. Shape(n)
    BY <2>1 DEF Shape
  <2> QED BY <2>2, <2>3, <2>4 DEF n
<1>2. CASE ~m.mem_wb.nop
  <2>1. n = [m EXCEPT !.halt = TRUE] \/ n = [m EXCEPT !.reg = written]
    BY <1>2 DEF WB
  <2> HIDE DEF n, written
  <2>2. /\ n.PC = m.PC /\ n.if_id = m.if_id /\ n.id_ex = m.id_ex
        /\ n.ex_mem = m.ex_mem /\ n.control = m.control /\ n.BHT = m.BHT
        /\ n.if_nop = m.if_nop /\ n.id_stall = m.id_stall /\ n.correct = m.correct
        /\ n.mem_wb = m.mem_wb
    BY <2>1 DEF Shape
  <2>3. Shape(n)
    BY <2>1 DEF Shape
  <2> QED BY <1>2, <2>2, <2>3 DEF n
<1> QED BY <1>1, <1>2

\* DM hands the instruction in ex_mem, or a bubble, on to mem_wb.
LEMMA DMStage ==
  ASSUME NEW m, Shape(m), m.ex_mem.nop \in BOOLEAN, m.mem_wb.nop = FALSE
  PROVE  LET n == DM(m)
         IN  /\ Shape(n)
             /\ n.PC = m.PC /\ n.if_id = m.if_id /\ n.id_ex = m.id_ex /\ n.reg = m.reg
             /\ n.control = m.control /\ n.BHT = m.BHT
             /\ n.if_nop = m.if_nop /\ n.id_stall = m.id_stall /\ n.correct = m.correct
             /\ n.ex_mem = [m.ex_mem EXCEPT !.nop = FALSE]
             /\ IF m.ex_mem.nop THEN n.mem_wb = NoMEM_WB
                ELSE /\ n.mem_wb.nop = FALSE
                     /\ n.mem_wb.ctrl = m.ex_mem.ctrl
                     /\ n.mem_wb.at = m.ex_mem.at
                     /\ m.ex_mem.ctrl.op # "HALT" => n.mem_wb.dest = m.ex_mem.dest
<1> DEFINE n == DM(m)
<1>1. CASE m.ex_mem.nop
  <2>1. n = [m EXCEPT !.mem_wb = NoMEM_WB, !.ex_mem.nop = FALSE]
    BY <1>1 DEF DM
  <2> HIDE DEF n
  <2>2. /\ n.PC = m.PC /\ n.if_id = m.if_id /\ n.id_ex = m.id_ex /\ n.reg = m.reg
        /\ n.control = m.control /\ n.BHT = m.BHT
        /\ n.if_nop = m.if_nop /\ n.id_stall = m.id_stall /\ n.correct = m.correct
        /\ n.ex_mem = [m.ex_mem EXCEPT !.nop = FALSE] /\ n.mem_wb = NoMEM_WB
    BY <2>1 DEF Shape
  <2>3. Shape(n)
    BY <2>1 DEF Shape, NoMEM_WB
  <2> QED BY <1>1, <2>2, <2>3 DEF n
<1>2. CASE ~m.ex_mem.nop /\ m.ex_mem.ctrl.op = "HALT"
  <2>1. n = [m EXCEPT !.mem_wb.ctrl = m.ex_mem.ctrl, !.mem_wb.at = m.ex_mem.at]
    BY <1>2 DEF DM
  <2> HIDE DEF n
  <2>2. /\ n.PC = m.PC /\ n.if_id = m.if_id /\ n.id_ex = m.id_ex /\ n.reg = m.reg
        /\ n.control = m.control /\ n.BHT = m.BHT
        /\ n.if_nop = m.if_nop /\ n.id_stall = m.id_stall /\ n.correct = m.correct
        /\ n.ex_mem = m.ex_mem
        /\ n.mem_wb = [m.mem_wb EXCEPT !.ctrl = m.ex_mem.ctrl, !.at = m.ex_mem.at]
    BY <2>1 DEF Shape
  <2>3. /\ n.mem_wb.nop = FALSE /\ n.mem_wb.ctrl = m.ex_mem.ctrl
        /\ n.mem_wb.at = m.ex_mem.at
    BY <2>2 DEF Shape
  <2>4. n.ex_mem = [m.ex_mem EXCEPT !.nop = FALSE]
    BY <1>2, <2>2 DEF Shape
  <2>5. Shape(n)
    BY <2>1 DEF Shape
  <2> QED BY <1>2, <2>2, <2>3, <2>4, <2>5 DEF n
<1>3. CASE ~m.ex_mem.nop /\ m.ex_mem.ctrl.op # "HALT"
  <2> DEFINE x == m.ex_mem
             a == x.alu_result
             memory == IF x.ctrl.MemWrite /\ ~x.ctrl.MemRead
                       THEN [m.mem EXCEPT ![a \div 4] = x.WDtoMem] ELSE m.mem
             RD == IF x.ctrl.MemRead /\ ~x.ctrl.MemWrite
                   THEN Loaded(x.ctrl.op, m.mem[a \div 4], a % 4) ELSE m.mem_wb.RD
             re_addr == IF x.ctrl.op = "JAL" THEN x.re_addr ELSE m.mem_wb.re_addr
  <2>1. n = [m EXCEPT !.mem = memory,
               !.mem_wb = [ctrl |-> m.ex_mem.ctrl, dest |-> m.ex_mem.dest,
                           alu_result |-> m.ex_mem.alu_result, RD |-> RD,
                           nop |-> m.mem_wb.nop, at |-> m.ex_mem.at, re_addr |-> re_addr]]
    BY <1>3 DEF DM
  <2> HIDE DEF n, x, memory, RD, re_addr
  <2>2. /\ n.PC = m.PC /\ n.if_id = m.if_id /\ n.id_ex = m.id_ex /\ n.reg = m.reg
        /\ n.control = m.control /\ n.BHT = m.BHT
        /\ n.if_nop = m.if_nop /\ n.id_stall = m.id_stall /\ n.correct = m.correct
        /\ n.ex_mem = m.ex_mem
        /\ n.mem_wb = [ctrl |-> m.ex_mem.ctrl, dest |-> m.ex_mem.dest,
                       alu_result |-> m.ex_mem.alu_result, RD |-> RD,
                       nop |-> m.mem_wb.nop, at |-> m.ex_mem.at, re_addr |-> re_addr]
    BY <2>1 DEF Shape
  <2>3. n.ex_mem = [m.ex_mem EXCEPT !.nop = FALSE]
    BY <1>3, <2>2 DEF Shape
  <2>4. Shape(n)
    BY <2>1, <2>2 DEF Shape
  <2> QED BY <1>3, <2>2, <2>3, <2>4 DEF n
<1> QED BY <1>1, <1>2, <1>3

\* EX hands the instruction in id_ex, or a bubble, on to ex_mem.
LEMMA EXStage ==
  ASSUME NEW m, Shape(m), m.id_ex.nop \in BOOLEAN, m.ex_mem.nop = FALSE
  PROVE  LET n == EX(m)
             op == m.id_ex.ctrl.op
             regular == ~m.id_ex.ctrl.ALUSrc /\ op \notin Stores
         IN  /\ Shape(n)
             /\ n.PC = m.PC /\ n.if_id = m.if_id /\ n.mem_wb = m.mem_wb /\ n.reg = m.reg
             /\ n.control = m.control /\ n.BHT = m.BHT
             /\ n.if_nop = m.if_nop /\ n.id_stall = m.id_stall /\ n.correct = m.correct
             /\ n.id_ex = [m.id_ex EXCEPT !.nop = FALSE]
             /\ IF m.id_ex.nop THEN n.ex_mem = NoEX_MEM
                ELSE /\ n.ex_mem.nop = FALSE
                     /\ n.ex_mem.ctrl = m.id_ex.ctrl
                     /\ n.ex_mem.at = m.id_ex.at
                     /\ op # "HALT" => n.ex_mem.dest =
                          IF regular THEN Bits15to11(m.id_ex.instr)
                          ELSE IF op \in Stores THEN 0 ELSE m.id_ex.instr.rt
<1> DEFINE n == EX(m)
<1>1. CASE m.id_ex.nop
  <2>1. n = [m EXCEPT !.ex_mem = NoEX_MEM, !.id_ex.nop = FALSE]
    BY <1>1 DEF EX
  <2> HIDE DEF n
  <2>2. /\ n.PC = m.PC /\ n.if_id = m.if_id /\ n.mem_wb = m.mem_wb /\ n.reg = m.reg
        /\ n.control = m.control /\ n.BHT = m.BHT
        /\ n.if_nop = m.if_nop /\ n.id_stall = m.id_stall /\ n.correct = m.correct
        /\ n.id_ex = [m.id_ex EXCEPT !.nop = FALSE] /\ n.ex_mem = NoEX_MEM
    BY <2>1 DEF Shape
  <2>3. Shape(n)
    BY <2>1 DEF Shape, NoEX_MEM
  <2> QED BY <1>1, <2>2, <2>3 DEF n
<1>2. CASE ~m.id_ex.nop /\ m.id_ex.ctrl.op = "HALT"
  <2>1. n = [m EXCEPT !.ex_mem.ctrl = m.id_ex.ctrl, !.ex_mem.at = m.id_ex.at]
    BY <1>2 DEF EX
  <2> HIDE DEF n
  <2>2. /\ n.PC = m.PC /\ n.if_id = m.if_id /\ n.mem_wb = m.mem_wb /\ n.reg = m.reg
        /\ n.control = m.control /\ n.BHT = m.BHT
        /\ n.if_nop = m.if_nop /\ n.id_stall = m.id_stall /\ n.correct = m.correct
        /\ n.id_ex = m.id_ex
        /\ n.ex_mem = [m.ex_mem EXCEPT !.ctrl = m.id_ex.ctrl, !.at = m.id_ex.at]
    BY <2>1 DEF Shape
  <2>3. n.ex_mem.nop = FALSE /\ n.ex_mem.ctrl = m.id_ex.ctrl /\ n.ex_mem.at = m.id_ex.at
    BY <2>2 DEF Shape
  <2>4. n.id_ex = [m.id_ex EXCEPT !.nop = FALSE]
    BY <1>2, <2>2 DEF Shape
  <2>5. Shape(n)
    BY <2>1 DEF Shape
  <2> QED BY <1>2, <2>2, <2>3, <2>4, <2>5 DEF n
<1>3. CASE ~m.id_ex.nop /\ m.id_ex.ctrl.op # "HALT"
  <2> DEFINE dest == IF ~m.id_ex.ctrl.ALUSrc /\ m.id_ex.ctrl.op \notin Stores
                     THEN Bits15to11(m.id_ex.instr)
                     ELSE IF m.id_ex.ctrl.op \in Stores THEN 0 ELSE m.id_ex.instr.rt
             d == m.id_ex
             op == d.ctrl.op
             input_2 == IF ~d.ctrl.ALUSrc /\ op \notin Stores THEN d.RD2
                        ELSE SignExtend(d.instr.imm)
             result == IF op \in RArith \cup IArith \cup Loads \cup Stores
                       THEN ALU(op, d.RD1, input_2) ELSE m.ex_mem.alu_result
             WDtoMem == IF op \in Stores
                        THEN Merged(op, m.mem[result \div 4], result % 4, d.RD2)
                        ELSE m.ex_mem.WDtoMem
             re_addr == IF op = "JAL" THEN d.re_addr ELSE m.ex_mem.re_addr
  <2>1. n = [m EXCEPT !.ex_mem =
               [ctrl |-> m.id_ex.ctrl, alu_result |-> result, nop |-> m.ex_mem.nop,
                at |-> m.id_ex.at, dest |-> dest, WDtoMem |-> WDtoMem,
                re_addr |-> re_addr]]
    BY <1>3 DEF EX
  <2> HIDE DEF n, dest, d, op, result, WDtoMem, re_addr
  <2>2. /\ n.PC = m.PC /\ n.if_id = m.if_id /\ n.mem_wb = m.mem_wb /\ n.reg = m.reg
        /\ n.control = m.control /\ n.BHT = m.BHT
        /\ n.if_nop = m.if_nop /\ n.id_stall = m.id_stall /\ n.correct = m.correct
        /\ n.id_ex = m.id_ex
        /\ n.ex_mem = [ctrl |-> m.id_ex.ctrl, alu_result |-> result,
                       nop |-> m.ex_mem.nop, at |-> m.id_ex.at, dest |-> dest,
                       WDtoMem |-> WDtoMem, re_addr |-> re_addr]
    BY <2>1 DEF Shape
  <2>3. n.id_ex = [m.id_ex EXCEPT !.nop = FALSE]
    BY <1>3, <2>2 DEF Shape
  <2>4. Shape(n)
    BY <2>1, <2>2 DEF Shape
  <2> QED BY <1>3, <2>2, <2>3, <2>4 DEF n, dest
<1> QED BY <1>1, <1>2, <1>3

\* The lines of op: which of them a stage may rely on.
LinesOf(c, op) ==
  /\ c.op = op
  /\ c.RegWrite <=> op \in RArith \cup IArith \cup Loads
  /\ c.MemRead <=> op \in Loads
  /\ c.MemWrite <=> op \in Stores
  /\ c.RegWrite /\ c.MemtoReg => c.MemRead
  /\ c.RegWrite /\ c.MemRead => c.MemtoReg
  /\ c.jump <=> op \in {"J", "JAL", "JR"}
  /\ op \notin {"J", "JAL", "HALT"} => (c.ALUSrc <=> op \in IArith \cup Loads)
  /\ op \notin {"J", "JAL"} => (c.branch <=> op \in Branches)

\* Decoding sets the lines that op calls for.
LEMMA Decoded ==
  ASSUME NEW c, ControlShape(c), NEW op
  PROVE  ControlShape(Decode(c, op)) /\ LinesOf(Decode(c, op), op)
<1> DEFINE d == Decode(c, op)
<1>1. CASE op \in RType
  <2>1. d = [NoControl EXCEPT !.op = op, !.jump = (op = "JR"), !.RegWrite = (op # "JR")]
    BY <1>1 DEF Decode, RType, RArith, Shifts
  <2> HIDE DEF d
  <2>2. /\ d.op = op /\ d.jump = (op = "JR") /\ d.RegWrite = (op # "JR")
        /\ d.MemtoReg = FALSE /\ d.MemRead = FALSE /\ d.ALUSrc = FALSE /\ d.branch = FALSE
        /\ d.MemWrite = FALSE
        /\ ControlShape(d)
    BY <2>1 DEF NoControl, ControlShape
  <2>3. /\ op # "JR" <=> op \in RArith \cup IArith \cup Loads
        /\ op \notin Branches /\ op \notin {"J", "JAL", "HALT"} /\ op \notin IArith \cup Loads
        /\ op \notin Stores
    BY <1>1 DEF RType, RArith, Shifts, IArith, Loads, Stores, Branches
  <2>4. LinesOf(d, op)
    BY <2>2, <2>3 DEF LinesOf
  <2> QED BY <2>2, <2>4 DEF d
<1>2. CASE op \in {"J", "JAL"}
  <2>1. d = [c EXCEPT !.op = op, !.jump = TRUE, !.MemRead = FALSE, !.MemWrite = FALSE,
                      !.RegWrite = FALSE]
    BY <1>2 DEF Decode, RType, RArith, Shifts
  <2> HIDE DEF d
  <2>2. d.op = op /\ d.jump = TRUE /\ d.RegWrite = FALSE /\ ControlShape(d)
        /\ d.MemRead = FALSE /\ d.MemWrite = FALSE
    BY <2>1 DEF ControlShape
  <2>3. op \notin RArith \cup IArith \cup Loads \cup Stores
    BY <1>2 DEF RArith, Shifts, IArith, Loads, Stores
  <2>4. LinesOf(d, op)
    BY <1>2, <2>2, <2>3 DEF LinesOf
  <2> QED BY <2>2, <2>4 DEF d
<1>3. CASE op = "HALT"
  <2>1. d = [c EXCEPT !.op = op, !.jump = FALSE, !.branch = FALSE, !.MemRead = FALSE,
                      !.MemWrite = FALSE, !.RegWrite = FALSE]
    BY <1>3 DEF Decode, RType, RArith, Shifts
  <2> HIDE DEF d
  <2>2. /\ d.op = op /\ d.jump = FALSE /\ d.branch = FALSE /\ d.RegWrite = FALSE
        /\ d.MemRead = FALSE /\ d.MemWrite = FALSE /\ ControlShape(d)
    BY <2>1 DEF ControlShape
  <2>3. op \notin RArith \cup IArith \cup Loads \cup Stores /\ op \notin Branches
    BY <1>3 DEF RArith, Shifts, IArith, Loads, Stores, Branches
  <2>4. LinesOf(d, op)
    BY <1>3, <2>2, <2>3 DEF LinesOf
  <2> QED BY <2>2, <2>4 DEF d
<1>4. CASE op \notin RType \cup {"J", "JAL", "HALT"}
  <2>1. d = [op |-> op, jump |-> FALSE, branch |-> op \in Branches,
             MemRead |-> op \in Loads, MemtoReg |-> op \in Loads,
             MemWrite |-> op \in Stores, ALUSrc |-> op \in IArith \cup Loads,
             RegWrite |-> op \in IArith \cup Loads]
    BY <1>4 DEF Decode
  <2> HIDE DEF d
  <2>2. /\ d.op = op /\ d.jump = FALSE /\ d.branch = (op \in Branches)
        /\ d.MemRead = (op \in Loads) /\ d.MemtoReg = (op \in Loads)
        /\ d.MemWrite = (op \in Stores)
        /\ d.ALUSrc = (op \in IArith \cup Loads) /\ d.RegWrite = (op \in IArith \cup Loads)
        /\ ControlShape(d)
    BY <2>1 DEF ControlShape
  <2>3. op \notin RArith /\ op # "JR" /\ op \notin {"J", "JAL"}
    BY <1>4 DEF RType
  <2>4. LinesOf(d, op)
    BY <2>2, <2>3 DEF LinesOf
  <2> QED BY <2>2, <2>4 DEF d
<1> QED BY <1>1, <1>2, <1>3, <1>4

\* ID decodes the instruction in if_id into id_ex, keeps it, or leaves a bubble.
LEMMA IDStage ==
  ASSUME NEW m, Shape(m), m.if_id.nop \in BOOLEAN, m.id_stall = FALSE, m.if_nop = FALSE
  PROVE  LET n == ID(m)
             i == m.if_id.instr
         IN  /\ Shape(n)
             /\ n.PC = m.PC /\ n.ex_mem = m.ex_mem /\ n.mem_wb = m.mem_wb
             /\ n.reg = m.reg /\ n.BHT = m.BHT
             /\ n.if_id = [m.if_id EXCEPT !.nop = n.if_id.nop]
             /\ IF m.if_id.nop \/ i = NOP
                THEN /\ n.id_ex = NoID_EX /\ n.control = m.control
                     /\ n.if_id.nop = FALSE /\ n.if_nop = FALSE /\ n.id_stall = FALSE
                ELSE /\ n.id_ex = ToEX(m) /\ n.control = Lines(m)
                     /\ n.if_nop = StallsHere(m) /\ n.id_stall = StallsHere(m)
                     /\ n.if_id.nop \in BOOLEAN
                     /\ ~StallsHere(m) /\ i.op \in Branches /\ ~n.correct => n.if_id.nop
                     /\ StallsHere(m) => ~n.if_id.nop
<1> DEFINE n == ID(m)
           i == m.if_id.instr
<1>1. CASE m.if_id.nop \/ i = NOP
  <2>1. n = [m EXCEPT !.id_ex = NoID_EX, !.if_id.nop = FALSE]
    BY <1>1 DEF ID
  <2> HIDE DEF n, i
  <2>2. /\ n.id_ex = NoID_EX /\ n.control = m.control /\ n.PC = m.PC
        /\ n.ex_mem = m.ex_mem /\ n.mem_wb = m.mem_wb /\ n.reg = m.reg
        /\ n.BHT = m.BHT /\ n.if_nop = m.if_nop /\ n.id_stall = m.id_stall
        /\ n.if_id = [m.if_id EXCEPT !.nop = FALSE]
    BY <2>1 DEF Shape
  <2>3. n.if_id.nop = FALSE
    BY <2>2 DEF Shape
  <2>4. Shape(n)
    BY <2>1 DEF Shape, NoID_EX, NoControl
  <2> QED BY <1>1, <2>2, <2>3, <2>4 DEF n, i
<1>2. CASE ~(m.if_id.nop \/ i = NOP)
  <2> DEFINE right == Outcome(m) = m.if_id.taken_flag
             stall == StallsHere(m)
             e == ToEX(m)
             c == Lines(m)
  <2>1. n = [m EXCEPT !.id_ex = e, !.control = c, !.if_nop = @ \/ stall,
               !.id_stall  = @ \/ stall,
               !.correct   = IF i.op \in Branches THEN right ELSE @,
               !.if_id.nop = @ \/ (i.op \in Branches /\ ~right /\ ~stall)]
    BY <1>2 DEF ID
  <2>2. ControlShape(c)
    BY Decoded DEF Lines, Shape
  <2>3. stall \in BOOLEAN
    BY DEF StallsHere, Stalls
  <2>4. e = [ctrl |-> e.ctrl, instr |-> e.instr, RD1 |-> e.RD1, RD2 |-> e.RD2,
             jump_PC |-> e.jump_PC, branch |-> e.branch, nop |-> e.nop,
             re_addr |-> e.re_addr, taken_flag |-> e.taken_flag,
             branch_no_PC |-> e.branch_no_PC, taken |-> e.taken,
             index |-> e.index, at |-> e.at]
    BY DEF ToEX
  <2> HIDE DEF n, e, c, stall, right
  <2>5. /\ n.id_ex = e /\ n.control = c /\ n.if_nop = stall /\ n.id_stall = stall
        /\ n.PC = m.PC /\ n.ex_mem = m.ex_mem /\ n.mem_wb = m.mem_wb
        /\ n.reg = m.reg /\ n.BHT = m.BHT
    BY <1>2, <2>1, <2>3 DEF Shape
  <2>6. /\ n.if_id.nop = (i.op \in Branches /\ ~right /\ ~stall)
        /\ i.op \in Branches => n.correct = right
        /\ n.if_id = [m.if_id EXCEPT !.nop = n.if_id.nop]
    BY <1>2, <2>1, <2>3 DEF Shape
  <2>7. Shape(n)
    BY <2>1, <2>2, <2>4 DEF Shape
  <2> QED BY <1>2, <2>5, <2>6, <2>7 DEF n, e, c, stall, right
<1> QED BY <1>1, <1>2

\* IF fetches at PC, with the counter of a branch, unless ID keeps if_id.
LEMMA IFStage ==
  ASSUME NEW m, Shape(m), m.if_nop \in BOOLEAN
  PROVE  LET n == IFetch(m)
             i == code[m.PC]
         IN  /\ Shape(n)
             /\ n.id_ex = m.id_ex /\ n.ex_mem = m.ex_mem /\ n.mem_wb = m.mem_wb
             /\ n.reg = m.reg /\ n.BHT = m.BHT /\ n.control = m.control
             /\ n.id_stall = m.id_stall /\ n.correct = m.correct /\ n.if_nop = FALSE
             /\ n.if_id.nop = m.if_id.nop
             /\ m.if_nop => /\ n.if_id.instr = m.if_id.instr /\ n.if_id.at = m.if_id.at
                            /\ n.if_id.taken = m.if_id.taken
                            /\ n.if_id.index = m.if_id.index
                            /\ n.if_id.PC = m.PC
             /\ ~m.if_nop => /\ n.if_id.instr = i /\ n.if_id.at = m.PC
                             /\ i.op \in Branches =>
                                  /\ n.if_id.taken = m.BHT[m.PC % BHTSize]
                                  /\ n.if_id.index = m.PC % BHTSize
                             /\ i.op \notin Branches => n.if_id.PC = m.PC + 1
<1> DEFINE n == IFetch(m)
           i == code[m.PC]
           index == m.PC % BHTSize
           taken == m.BHT[index] \in {2, 3}
<1>1. CASE m.if_nop
  <2>1. n = [m EXCEPT !.if_id.PC = m.PC, !.if_nop = FALSE]
    BY <1>1 DEF IFetch
  <2> HIDE DEF n
  <2>2. /\ n.id_ex = m.id_ex /\ n.ex_mem = m.ex_mem /\ n.mem_wb = m.mem_wb
        /\ n.reg = m.reg /\ n.BHT = m.BHT /\ n.control = m.control
        /\ n.id_stall = m.id_stall /\ n.correct = m.correct /\ n.if_nop = FALSE
        /\ n.if_id = [m.if_id EXCEPT !.PC = m.PC]
    BY <2>1 DEF Shape
  <2>3. Shape(n)
    BY <2>1 DEF Shape
  <2>4. /\ n.if_id.instr = m.if_id.instr /\ n.if_id.at = m.if_id.at
        /\ n.if_id.taken = m.if_id.taken /\ n.if_id.index = m.if_id.index
        /\ n.if_id.PC = m.PC /\ n.if_id.nop = m.if_id.nop
    BY <2>2 DEF Shape
  <2> QED BY <1>1, <2>2, <2>3, <2>4 DEF n
<1>2. CASE ~m.if_nop /\ i.op \notin Branches
  <2>1. n = [m EXCEPT !.if_id = [m.if_id EXCEPT !.instr = i, !.PC = m.PC + 1, !.at = m.PC]]
    BY <1>2 DEF IFetch
  <2> HIDE DEF n, i
  <2>2. /\ n.if_id = [instr |-> i, PC |-> m.PC + 1, nop |-> m.if_id.nop,
                      branch_no_PC |-> m.if_id.branch_no_PC,
                      taken_flag |-> m.if_id.taken_flag, taken |-> m.if_id.taken,
                      index |-> m.if_id.index, at |-> m.PC]
        /\ n.id_ex = m.id_ex /\ n.ex_mem = m.ex_mem /\ n.mem_wb = m.mem_wb
        /\ n.reg = m.reg /\ n.BHT = m.BHT /\ n.control = m.control
        /\ n.id_stall = m.id_stall /\ n.correct = m.correct /\ n.if_nop = m.if_nop
    BY <2>1 DEF Shape
  <2>3. Shape(n)
    BY <2>1, <2>2 DEF Shape
  <2> QED BY <1>2, <2>2, <2>3 DEF n, i
<1>3. CASE ~m.if_nop /\ i.op \in Branches
  <2> DEFINE nextPC == IF taken THEN Target(m.PC, i) ELSE m.PC + 1
             otherPC == IF taken THEN m.PC + 1 ELSE Target(m.PC, i)
             counter == m.BHT[index]
             fetched == [m.if_id EXCEPT !.instr = i, !.PC = m.PC + 1, !.at = m.PC]
  <2>1. n = [m EXCEPT !.if_id =
              [fetched EXCEPT !.PC = nextPC, !.branch_no_PC = otherPC,
                 !.taken_flag = taken, !.taken = counter, !.index = index]]
    BY <1>3 DEF IFetch
  <2> HIDE DEF n, i, nextPC, otherPC, counter, index, taken
  <2>2. fetched = [instr |-> i, PC |-> m.PC + 1, nop |-> m.if_id.nop,
                   branch_no_PC |-> m.if_id.branch_no_PC,
                   taken_flag |-> m.if_id.taken_flag, taken |-> m.if_id.taken,
                   index |-> m.if_id.index, at |-> m.PC]
    <3>1. m.if_id = [instr |-> m.if_id.instr, PC |-> m.if_id.PC, nop |-> m.if_id.nop,
                     branch_no_PC |-> m.if_id.branch_no_PC,
                     taken_flag |-> m.if_id.taken_flag, taken |-> m.if_id.taken,
                     index |-> m.if_id.index, at |-> m.if_id.at]
      BY DEF Shape
    <3>2. fetched = [m.if_id EXCEPT !.instr = i, !.PC = m.PC + 1, !.at = m.PC]
      OBVIOUS
    <3> HIDE DEF fetched
    <3> QED BY <3>1, <3>2
  <2> HIDE DEF fetched
  <2>3. /\ n.if_id = [instr |-> i, PC |-> nextPC, nop |-> m.if_id.nop,
                      branch_no_PC |-> otherPC, taken_flag |-> taken,
                      taken |-> counter, index |-> index, at |-> m.PC]
        /\ n.id_ex = m.id_ex /\ n.ex_mem = m.ex_mem /\ n.mem_wb = m.mem_wb
        /\ n.reg = m.reg /\ n.BHT = m.BHT /\ n.control = m.control
        /\ n.id_stall = m.id_stall /\ n.correct = m.correct /\ n.if_nop = m.if_nop
    BY <2>1, <2>2 DEF Shape
  <2>4. Shape(n)
    BY <2>1, <2>3 DEF Shape
  <2> QED BY <1>3, <2>3, <2>4 DEF n, i, counter, index
<1> QED BY <1>1, <1>2, <1>3

\* The end of a turn moves the counter of a branch and flushes behind a jump.
LEMMA EndOfTurn ==
  ASSUME NEW m, Shape(m), m.id_stall \in BOOLEAN
  PROVE  LET n == NextPC(BranchState(m))
             e == m.id_ex
             updates == ~m.id_stall /\ e.ctrl.op \in Branches
             jumps   == e.ctrl.jump /\ ~m.id_stall
         IN  /\ Shape(n)
             /\ n.ex_mem = m.ex_mem /\ n.mem_wb = m.mem_wb /\ n.reg = m.reg
             /\ n.control = m.control /\ n.id_stall = m.id_stall /\ n.if_nop = m.if_nop
             /\ n.id_ex = [e EXCEPT !.taken = n.id_ex.taken]
             /\ n.BHT = IF updates THEN [m.BHT EXCEPT ![e.index] = Step(e.taken, e.branch)]
                        ELSE m.BHT
             /\ n.if_id = [m.if_id EXCEPT !.nop = n.if_id.nop]
             /\ n.if_id.nop = IF jumps THEN TRUE ELSE m.if_id.nop
             /\ ~jumps /\ (m.id_stall \/ m.correct \/ ~e.ctrl.branch) => n.PC = m.if_id.PC
<1> DEFINE s == BranchState(m)
           n == NextPC(s)
           e == m.id_ex
           next == Step(e.taken, e.branch)
<1> HIDE DEF next
<1>1. /\ Shape(s) /\ s.if_id = m.if_id /\ s.ex_mem = m.ex_mem /\ s.mem_wb = m.mem_wb
      /\ s.reg = m.reg /\ s.control = m.control /\ s.id_stall = m.id_stall
      /\ s.if_nop = m.if_nop /\ s.correct = m.correct
      /\ s.id_ex = [e EXCEPT !.taken = s.id_ex.taken]
      /\ s.BHT = IF ~m.id_stall /\ e.ctrl.op \in Branches
                 THEN [m.BHT EXCEPT ![e.index] = next] ELSE m.BHT
  <2>1. CASE m.id_stall \/ e.ctrl.op \notin Branches
    <3>1. s = m
      BY <2>1 DEF BranchState
    <3> QED BY <2>1, <3>1 DEF Shape
  <2>2. CASE ~(m.id_stall \/ e.ctrl.op \notin Branches)
    <3> DEFINE table == [m.BHT EXCEPT ![e.index] = next]
    <3>1. s = [m EXCEPT !.BHT = table, !.id_ex.taken = next]
      BY <2>2 DEF BranchState, next, Shape
    <3> HIDE DEF table, s
    <3>2. /\ s.if_id = m.if_id /\ s.ex_mem = m.ex_mem /\ s.mem_wb = m.mem_wb
          /\ s.reg = m.reg /\ s.control = m.control /\ s.id_stall = m.id_stall
          /\ s.if_nop = m.if_nop /\ s.correct = m.correct
          /\ s.id_ex = [e EXCEPT !.taken = next] /\ s.BHT = table
      BY <3>1 DEF Shape
    <3>3. s.id_ex.taken = next
      BY <3>2 DEF Shape
    <3>4. Shape(s)
      BY <3>1 DEF Shape
    <3> QED BY <2>2, <3>2, <3>3, <3>4 DEF table
  <2> QED BY <2>1, <2>2
<1> HIDE DEF s
<1>2. CASE s.id_ex.ctrl.jump /\ ~s.id_stall
  <2> DEFINE p == s.id_ex.jump_PC
  <2>1. n = [s EXCEPT !.PC = p, !.if_id.nop = TRUE]
    BY <1>2 DEF NextPC
  <2> HIDE DEF n, p
  <2>2. /\ n.ex_mem = s.ex_mem /\ n.mem_wb = s.mem_wb /\ n.reg = s.reg
        /\ n.control = s.control /\ n.id_stall = s.id_stall /\ n.if_nop = s.if_nop
        /\ n.id_ex = s.id_ex /\ n.BHT = s.BHT
        /\ n.if_id = [s.if_id EXCEPT !.nop = TRUE]
    BY <1>1, <2>1 DEF Shape
  <2>3. n.if_id.nop = TRUE
    BY <1>1, <2>2 DEF Shape
  <2>4. Shape(n)
    BY <1>1, <2>1 DEF Shape
  <2>5. e.ctrl.jump /\ ~m.id_stall
    BY <1>1, <1>2 DEF Shape
  <2> QED BY <1>1, <2>2, <2>3, <2>4, <2>5 DEF n, s, next
<1>3. CASE ~(s.id_ex.ctrl.jump /\ ~s.id_stall)
  <2>1. PICK p : n = [s EXCEPT !.PC = p]
    BY <1>3 DEF NextPC
  <2>2. s.id_stall \/ s.correct \/ ~s.id_ex.ctrl.branch => n.PC = s.if_id.PC
    BY <1>1, <1>3 DEF NextPC, Shape
  <2>3. e.ctrl = s.id_ex.ctrl /\ ~(e.ctrl.jump /\ ~m.id_stall)
    BY <1>1, <1>3 DEF Shape
  <2> HIDE DEF n
  <2>4. /\ n.ex_mem = s.ex_mem /\ n.mem_wb = s.mem_wb /\ n.reg = s.reg
        /\ n.control = s.control /\ n.id_stall = s.id_stall /\ n.if_nop = s.if_nop
        /\ n.id_ex = s.id_ex /\ n.BHT = s.BHT /\ n.if_id = s.if_id
    BY <1>1, <2>1 DEF Shape
  <2>5. Shape(n)
    BY <1>1, <2>1 DEF Shape
  <2>6. n.if_id = [m.if_id EXCEPT !.nop = n.if_id.nop]
    BY <1>1, <2>4 DEF Shape
  <2> HIDE DEF e
  <2> QED BY <1>1, <2>2, <2>3, <2>4, <2>5, <2>6 DEF n, s, next, e
<1> QED BY <1>2, <1>3
-----------------------------------------------------------------------------
(* A whole turn.                                                           *)

\* The latches between turns.
Flags ==
  /\ Shape(cpu)
  /\ cpu.if_id.nop \in BOOLEAN /\ cpu.id_ex.nop \in BOOLEAN
  /\ cpu.ex_mem.nop \in BOOLEAN /\ cpu.mem_wb.nop \in BOOLEAN
  /\ cpu.if_nop = FALSE

\* The instruction in ID in this turn, its lines, and whether it stays there.
InIF_ID  == cpu.if_id.instr
NewLines == Decode(cpu.control, InIF_ID.op)
Idle     == cpu.if_id.nop \/ InIF_ID = NOP
Stays    == ~Idle /\ Stalls(cpu'.ex_mem, cpu'.mem_wb, InIF_ID, NewLines)

\* What a turn makes of each latch.
MovesToWB ==
  LET x == cpu.ex_mem
      w == cpu'.mem_wb
  IN  IF x.nop THEN w = NoMEM_WB
      ELSE /\ w.nop = FALSE /\ w.ctrl = x.ctrl /\ w.at = x.at
           /\ x.ctrl.op # "HALT" => w.dest = x.dest

MovesToMEM ==
  LET e == cpu.id_ex
      x == cpu'.ex_mem
  IN  IF e.nop THEN x = NoEX_MEM
      ELSE /\ x.nop = FALSE /\ x.ctrl = e.ctrl /\ x.at = e.at
           /\ e.ctrl.op # "HALT" => x.dest =
                IF ~e.ctrl.ALUSrc /\ e.ctrl.op \notin Stores THEN Bits15to11(e.instr)
                ELSE IF e.ctrl.op \in Stores THEN 0 ELSE e.instr.rt

MovesToEX ==
  LET d == cpu.if_id
      i == InIF_ID
      x == cpu'.ex_mem
      w == cpu'.mem_wb
      e == cpu'.id_ex
  IN  /\ cpu'.id_stall = Stays
      /\ Idle  => e.nop = TRUE /\ e.ctrl = NoControl /\ cpu'.control = cpu.control
      /\ ~Idle =>
           /\ e.ctrl = NewLines /\ cpu'.control = NewLines /\ e.instr = i /\ e.at = d.at
           /\ e.nop = Stays
           /\ ToForward(i) /\ i.op \notin Shifts =>
                e.RD1 = Forward(x, w, i.rs, cpu'.reg[i.rs])
           /\ ToForward(i) /\ ~NewLines.ALUSrc =>
                e.RD2 = Forward(x, w, i.rt, cpu'.reg[i.rt])

Fetches ==
  LET d == cpu.if_id
      n == cpu'.if_id
      i == code[cpu.PC]
  IN  /\ Stays  => /\ n.instr = d.instr /\ n.at = d.at /\ n.taken = d.taken
                   /\ n.index = d.index /\ n.nop = FALSE /\ cpu'.PC = cpu.PC
      /\ ~Stays =>
           /\ n.instr = i /\ n.at = cpu.PC
           /\ i.op \in Branches => /\ n.taken = cpu.BHT[cpu.PC % BHTSize]
                                   /\ n.index = cpu.PC % BHTSize
           /\ cpu'.id_ex.ctrl.jump => n.nop
           /\ ~n.nop /\ i.op \notin Branches => cpu'.PC = cpu.PC + 1

Predicts ==
  LET e == cpu'.id_ex
      d == cpu.if_id
  IN  cpu'.BHT = IF ~Idle /\ ~Stays /\ InIF_ID.op \in Branches
                 THEN [cpu.BHT EXCEPT ![d.index] = Step(d.taken, e.branch)]
                 ELSE cpu.BHT

\* One turn of the loop, latch by latch.
LEMMA Turn ==
  ASSUME Flags, Cycle
  PROVE  Flags' /\ MovesToWB /\ MovesToMEM /\ MovesToEX /\ Fetches /\ Predicts
<1> DEFINE m0 == [cpu EXCEPT !.id_stall = FALSE]
           m1 == WB(m0)
           m2 == DM(m1)
           b  == EX(m2)
           f  == ID(b)
           g  == IFetch(f)
           n  == NextPC(BranchState(g))
<1>1. cpu' = n
  BY DEF Cycle
<1> HIDE DEF m0, m1, m2, b, f, g, n
<1>2. /\ Shape(m0) /\ m0.id_stall = FALSE /\ m0.if_nop = FALSE /\ m0.PC = cpu.PC
      /\ m0.if_id = cpu.if_id /\ m0.id_ex = cpu.id_ex /\ m0.ex_mem = cpu.ex_mem
      /\ m0.mem_wb = cpu.mem_wb /\ m0.control = cpu.control /\ m0.BHT = cpu.BHT
  <2>1. Shape(cpu) /\ m0 = [cpu EXCEPT !.id_stall = FALSE] /\ cpu.if_nop = FALSE
    BY DEF Flags, m0
  <2>2. /\ m0.id_stall = FALSE /\ m0.if_nop = FALSE /\ m0.PC = cpu.PC
        /\ m0.if_id = cpu.if_id /\ m0.id_ex = cpu.id_ex /\ m0.ex_mem = cpu.ex_mem
        /\ m0.mem_wb = cpu.mem_wb /\ m0.control = cpu.control /\ m0.BHT = cpu.BHT
    BY <2>1 DEF Shape
  <2>3. Shape(m0)
    BY <2>1 DEF Shape
  <2> QED BY <2>2, <2>3
<1>3. /\ Shape(m1) /\ m1.id_stall = FALSE /\ m1.if_nop = FALSE /\ m1.PC = cpu.PC
      /\ m1.if_id = cpu.if_id /\ m1.id_ex = cpu.id_ex /\ m1.ex_mem = cpu.ex_mem
      /\ m1.mem_wb.nop = FALSE /\ m1.control = cpu.control /\ m1.BHT = cpu.BHT
  BY <1>2, WBStage DEF Flags, m1
<1>4. /\ Shape(m2) /\ m2.id_stall = FALSE /\ m2.if_nop = FALSE /\ m2.PC = cpu.PC
      /\ m2.if_id = cpu.if_id /\ m2.id_ex = cpu.id_ex
      /\ m2.ex_mem.nop = FALSE /\ m2.control = cpu.control /\ m2.BHT = cpu.BHT
      /\ LET x == cpu.ex_mem
             w == m2.mem_wb
         IN  IF x.nop THEN w = NoMEM_WB
             ELSE /\ w.nop = FALSE /\ w.ctrl = x.ctrl /\ w.at = x.at
                  /\ x.ctrl.op # "HALT" => w.dest = x.dest
  <2>1. /\ Shape(m2) /\ m2.PC = m1.PC /\ m2.if_id = m1.if_id /\ m2.id_ex = m1.id_ex
        /\ m2.control = m1.control /\ m2.BHT = m1.BHT
        /\ m2.if_nop = m1.if_nop /\ m2.id_stall = m1.id_stall
        /\ m2.ex_mem = [m1.ex_mem EXCEPT !.nop = FALSE]
        /\ IF m1.ex_mem.nop THEN m2.mem_wb = NoMEM_WB
           ELSE /\ m2.mem_wb.nop = FALSE
                /\ m2.mem_wb.ctrl = m1.ex_mem.ctrl
                /\ m2.mem_wb.at = m1.ex_mem.at
                /\ m1.ex_mem.ctrl.op # "HALT" => m2.mem_wb.dest = m1.ex_mem.dest
    BY <1>3, DMStage DEF Flags, m2
  <2>2. m2.ex_mem.nop = FALSE
    BY <1>3, <2>1 DEF Shape
  <2> QED BY <1>3, <2>1, <2>2
<1>5. /\ Shape(b) /\ b.id_stall = FALSE /\ b.if_nop = FALSE /\ b.PC = cpu.PC
      /\ b.if_id = cpu.if_id /\ b.id_ex.nop = FALSE /\ b.mem_wb = m2.mem_wb
      /\ b.control = cpu.control /\ b.BHT = cpu.BHT
      /\ LET e == cpu.id_ex
             x == b.ex_mem
         IN  IF e.nop THEN x = NoEX_MEM
             ELSE /\ x.nop = FALSE /\ x.ctrl = e.ctrl /\ x.at = e.at
                  /\ e.ctrl.op # "HALT" => x.dest =
                       IF ~e.ctrl.ALUSrc /\ e.ctrl.op \notin Stores
                       THEN Bits15to11(e.instr)
                       ELSE IF e.ctrl.op \in Stores THEN 0 ELSE e.instr.rt
  <2>1. /\ Shape(b) /\ b.PC = m2.PC /\ b.if_id = m2.if_id /\ b.mem_wb = m2.mem_wb
        /\ b.control = m2.control /\ b.BHT = m2.BHT
        /\ b.if_nop = m2.if_nop /\ b.id_stall = m2.id_stall
        /\ b.id_ex = [m2.id_ex EXCEPT !.nop = FALSE]
        /\ LET e == m2.id_ex
               x == b.ex_mem
           IN  IF e.nop THEN x = NoEX_MEM
               ELSE /\ x.nop = FALSE /\ x.ctrl = e.ctrl /\ x.at = e.at
                    /\ e.ctrl.op # "HALT" => x.dest =
                         IF ~e.ctrl.ALUSrc /\ e.ctrl.op \notin Stores
                         THEN Bits15to11(e.instr)
                         ELSE IF e.ctrl.op \in Stores THEN 0 ELSE e.instr.rt
    BY <1>4, EXStage DEF Flags, b
  <2>2. b.id_ex.nop = FALSE
    BY <1>4, <2>1 DEF Shape
  <2> QED BY <1>4, <2>1, <2>2
<1>6. /\ Lines(b) = NewLines
      /\ StallsHere(b) = Stalls(b.ex_mem, b.mem_wb, InIF_ID, NewLines)
      /\ StallsHere(b) \in BOOLEAN
  BY <1>5 DEF Lines, StallsHere, InIF_ID, NewLines, Stalls
<1>7. /\ Shape(f) /\ f.PC = cpu.PC /\ f.ex_mem = b.ex_mem /\ f.mem_wb = b.mem_wb
      /\ f.reg = b.reg /\ f.BHT = cpu.BHT
      /\ f.if_id = [cpu.if_id EXCEPT !.nop = f.if_id.nop]
      /\ IF Idle
         THEN /\ f.id_ex = NoID_EX /\ f.control = cpu.control
              /\ f.if_id.nop = FALSE /\ f.if_nop = FALSE /\ f.id_stall = FALSE
         ELSE /\ f.id_ex = ToEX(b) /\ f.control = NewLines
              /\ f.if_nop = StallsHere(b) /\ f.id_stall = StallsHere(b)
              /\ f.if_id.nop \in BOOLEAN
              /\ ~StallsHere(b) /\ InIF_ID.op \in Branches /\ ~f.correct => f.if_id.nop
              /\ StallsHere(b) => ~f.if_id.nop
  <2>1. LET i == b.if_id.instr
        IN  /\ Shape(f)
            /\ f.PC = b.PC /\ f.ex_mem = b.ex_mem /\ f.mem_wb = b.mem_wb
            /\ f.reg = b.reg /\ f.BHT = b.BHT
            /\ f.if_id = [b.if_id EXCEPT !.nop = f.if_id.nop]
            /\ IF b.if_id.nop \/ i = NOP
               THEN /\ f.id_ex = NoID_EX /\ f.control = b.control
                    /\ f.if_id.nop = FALSE /\ f.if_nop = FALSE /\ f.id_stall = FALSE
               ELSE /\ f.id_ex = ToEX(b) /\ f.control = Lines(b)
                    /\ f.if_nop = StallsHere(b) /\ f.id_stall = StallsHere(b)
                    /\ f.if_id.nop \in BOOLEAN
                    /\ ~StallsHere(b) /\ i.op \in Branches /\ ~f.correct => f.if_id.nop
                    /\ StallsHere(b) => ~f.if_id.nop
    BY <1>5, IDStage DEF Flags, f
  <2>2. /\ b.if_id = cpu.if_id /\ b.if_id.instr = InIF_ID /\ Lines(b) = NewLines
        /\ Idle = (b.if_id.nop \/ b.if_id.instr = NOP)
    BY <1>5, <1>6 DEF InIF_ID, Idle
  <2> HIDE DEF InIF_ID, NewLines, Idle
  <2> QED BY <1>5, <2>1, <2>2
<1>8. /\ Shape(g) /\ g.id_ex = f.id_ex /\ g.ex_mem = b.ex_mem /\ g.mem_wb = b.mem_wb
      /\ g.reg = b.reg /\ g.BHT = cpu.BHT /\ g.control = f.control
      /\ g.id_stall = f.id_stall /\ g.correct = f.correct /\ g.if_nop = FALSE
      /\ g.if_id.nop = f.if_id.nop
      /\ f.if_nop => /\ g.if_id.instr = InIF_ID /\ g.if_id.at = cpu.if_id.at
                     /\ g.if_id.taken = cpu.if_id.taken
                     /\ g.if_id.index = cpu.if_id.index
                     /\ g.if_id.PC = cpu.PC
      /\ ~f.if_nop => /\ g.if_id.instr = code[cpu.PC] /\ g.if_id.at = cpu.PC
                      /\ code[cpu.PC].op \in Branches =>
                           /\ g.if_id.taken = cpu.BHT[cpu.PC % BHTSize]
                           /\ g.if_id.index = cpu.PC % BHTSize
                      /\ code[cpu.PC].op \notin Branches => g.if_id.PC = cpu.PC + 1
  <2>1. f.if_nop \in BOOLEAN
    BY <1>6, <1>7
  <2>2. /\ f.if_id.instr = InIF_ID /\ f.if_id.at = cpu.if_id.at
        /\ f.if_id.taken = cpu.if_id.taken /\ f.if_id.index = cpu.if_id.index
    BY <1>7 DEF Flags, Shape, InIF_ID
  <2>3. /\ Shape(g) /\ g.id_ex = f.id_ex /\ g.ex_mem = f.ex_mem /\ g.mem_wb = f.mem_wb
        /\ g.reg = f.reg /\ g.BHT = f.BHT /\ g.control = f.control
        /\ g.id_stall = f.id_stall /\ g.correct = f.correct /\ g.if_nop = FALSE
        /\ g.if_id.nop = f.if_id.nop
        /\ f.if_nop => /\ g.if_id.instr = f.if_id.instr /\ g.if_id.at = f.if_id.at
                       /\ g.if_id.taken = f.if_id.taken
                       /\ g.if_id.index = f.if_id.index
                       /\ g.if_id.PC = f.PC
        /\ ~f.if_nop => /\ g.if_id.instr = code[f.PC] /\ g.if_id.at = f.PC
                        /\ code[f.PC].op \in Branches =>
                             /\ g.if_id.taken = f.BHT[f.PC % BHTSize]
                             /\ g.if_id.index = f.PC % BHTSize
                        /\ code[f.PC].op \notin Branches => g.if_id.PC = f.PC + 1
    BY <1>7, <2>1, IFStage DEF g
  <2> QED BY <1>7, <2>2, <2>3
<1> DEFINE e == g.id_ex
           updates == ~g.id_stall /\ e.ctrl.op \in Branches
           jumps   == e.ctrl.jump /\ ~g.id_stall
<1>9. /\ Shape(n) /\ n.ex_mem = b.ex_mem /\ n.mem_wb = b.mem_wb /\ n.reg = b.reg
      /\ n.control = f.control /\ n.id_stall = g.id_stall /\ n.if_nop = FALSE
      /\ n.id_ex = [e EXCEPT !.taken = n.id_ex.taken]
      /\ n.BHT = IF updates THEN [cpu.BHT EXCEPT ![e.index] = Step(e.taken, e.branch)]
                 ELSE cpu.BHT
      /\ n.if_id = [g.if_id EXCEPT !.nop = n.if_id.nop]
      /\ n.if_id.nop = IF jumps THEN TRUE ELSE g.if_id.nop
      /\ ~jumps /\ (g.id_stall \/ g.correct \/ ~e.ctrl.branch) => n.PC = g.if_id.PC
  <2>1. g.id_stall \in BOOLEAN
    BY <1>6, <1>7, <1>8
  <2>2. /\ Shape(n) /\ n.ex_mem = g.ex_mem /\ n.mem_wb = g.mem_wb /\ n.reg = g.reg
        /\ n.control = g.control /\ n.id_stall = g.id_stall /\ n.if_nop = g.if_nop
        /\ n.id_ex = [e EXCEPT !.taken = n.id_ex.taken]
        /\ n.BHT = IF updates THEN [g.BHT EXCEPT ![e.index] = Step(e.taken, e.branch)]
                   ELSE g.BHT
        /\ n.if_id = [g.if_id EXCEPT !.nop = n.if_id.nop]
        /\ n.if_id.nop = IF jumps THEN TRUE ELSE g.if_id.nop
        /\ ~jumps /\ (g.id_stall \/ g.correct \/ ~e.ctrl.branch) => n.PC = g.if_id.PC
    BY <1>8, <2>1, EndOfTurn DEF n
  <2> QED BY <1>8, <2>2
<1>10. /\ g.if_id.nop = f.if_id.nop /\ n.id_stall = f.id_stall /\ n.id_ex.nop = f.id_ex.nop
       /\ n.id_ex.ctrl = f.id_ex.ctrl /\ n.id_ex.instr = f.id_ex.instr
       /\ n.id_ex.at = f.id_ex.at /\ n.id_ex.RD1 = f.id_ex.RD1
       /\ n.id_ex.RD2 = f.id_ex.RD2 /\ n.id_ex.branch = f.id_ex.branch
  <2>1. /\ Shape(g) /\ n.id_ex = [e EXCEPT !.taken = n.id_ex.taken]
    BY <1>8, <1>9
  <2>2. /\ n.id_ex.nop = e.nop
        /\ n.id_ex.ctrl = e.ctrl /\ n.id_ex.instr = e.instr
        /\ n.id_ex.at = e.at /\ n.id_ex.RD1 = e.RD1
        /\ n.id_ex.RD2 = e.RD2 /\ n.id_ex.branch = e.branch
    BY <2>1 DEF Shape
  <2> QED BY <1>8, <1>9, <2>2
<1>11. /\ n.if_id.instr = g.if_id.instr /\ n.if_id.at = g.if_id.at
       /\ n.if_id.taken = g.if_id.taken /\ n.if_id.index = g.if_id.index
  <2>1. /\ Shape(g) /\ n.if_id = [g.if_id EXCEPT !.nop = n.if_id.nop]
    BY <1>8, <1>9
  <2> QED BY <2>1 DEF Shape
<1>12. ~Idle => /\ f.id_ex.ctrl = NewLines /\ f.id_ex.instr = InIF_ID
                /\ f.id_ex.at = cpu.if_id.at /\ f.id_ex.nop = StallsHere(b)
                /\ ToForward(InIF_ID) /\ InIF_ID.op \notin Shifts =>
                     f.id_ex.RD1 = Forward(b.ex_mem, b.mem_wb, InIF_ID.rs, b.reg[InIF_ID.rs])
                /\ ToForward(InIF_ID) /\ ~NewLines.ALUSrc =>
                     f.id_ex.RD2 = Forward(b.ex_mem, b.mem_wb, InIF_ID.rt, b.reg[InIF_ID.rt])
                /\ InIF_ID.op \in Branches => /\ f.id_ex.taken = cpu.if_id.taken
                                              /\ f.id_ex.index = cpu.if_id.index
  <2> SUFFICES ASSUME ~Idle PROVE f.id_ex = ToEX(b) /\ b.if_id = cpu.if_id /\ Lines(b) = NewLines
    BY <1>6 DEF ToEX, InIF_ID
  <2> QED BY <1>5, <1>6, <1>7
<1>13. Idle => f.id_ex.nop = TRUE /\ f.id_ex.ctrl = NoControl
  BY <1>7 DEF NoID_EX
<1>14. Stays = (~Idle /\ StallsHere(b))
  BY <1>1, <1>6, <1>9 DEF Stays
<1>15. Idle \in BOOLEAN
  BY DEF Idle, Flags
<1>16. LinesOf(NewLines, InIF_ID.op)
  <2>1. ControlShape(cpu.control)
    BY DEF Flags, Shape
  <2> QED BY <2>1, Decoded DEF NewLines
<1>17. n.id_stall = Stays
  <2>1. n.id_stall = f.id_stall
    BY <1>10
  <2>2. CASE Idle
    BY <1>7, <1>14, <2>1, <2>2
  <2>3. CASE ~Idle
    BY <1>6, <1>7, <1>14, <2>1, <2>3
  <2> QED BY <2>2, <2>3
<1>18. MovesToWB
  BY <1>1, <1>4, <1>5, <1>9 DEF MovesToWB
<1>19. MovesToMEM
  BY <1>1, <1>5, <1>9 DEF MovesToMEM
<1>20. MovesToEX
  <2>1. Idle => n.id_ex.nop = TRUE /\ n.id_ex.ctrl = NoControl /\ n.control = cpu.control
    BY <1>7, <1>9, <1>10, <1>13
  <2>2. ~Idle => n.id_ex.ctrl = NewLines /\ n.control = NewLines /\ n.id_ex.instr = InIF_ID
                 /\ n.id_ex.at = cpu.if_id.at /\ n.id_ex.nop = Stays
    <3>1. SUFFICES ASSUME ~Idle
                   PROVE  /\ n.id_ex.ctrl = NewLines /\ n.control = NewLines
                          /\ n.id_ex.instr = InIF_ID /\ n.id_ex.at = cpu.if_id.at
                          /\ n.id_ex.nop = Stays
      OBVIOUS
    <3>2. n.control = NewLines
      BY <1>7, <1>9, <3>1
    <3>3. n.id_ex.ctrl = NewLines /\ n.id_ex.instr = InIF_ID /\ n.id_ex.at = cpu.if_id.at
      BY <1>10, <1>12, <3>1
    <3>4. Stays = StallsHere(b)
      BY <1>6, <1>14, <3>1
    <3>5. n.id_ex.nop = Stays
      BY <1>10, <1>12, <3>1, <3>4
    <3> QED BY <3>2, <3>3, <3>5
  <2>3. ~Idle => /\ ToForward(InIF_ID) /\ InIF_ID.op \notin Shifts =>
                     n.id_ex.RD1 = Forward(n.ex_mem, n.mem_wb, InIF_ID.rs, n.reg[InIF_ID.rs])
                 /\ ToForward(InIF_ID) /\ ~NewLines.ALUSrc =>
                     n.id_ex.RD2 = Forward(n.ex_mem, n.mem_wb, InIF_ID.rt, n.reg[InIF_ID.rt])
    BY <1>9, <1>10, <1>12
  <2> HIDE DEF Stays, NewLines, InIF_ID, Idle
  <2> QED BY <1>1, <1>17, <2>1, <2>2, <2>3 DEF MovesToEX
<1>21. Fetches
  <2>1. f.if_nop = Stays /\ g.id_stall = Stays /\ Stays \in BOOLEAN
    BY <1>6, <1>7, <1>8, <1>14, <1>15
  <2>2. ASSUME Stays
        PROVE  /\ n.if_id.instr = InIF_ID /\ n.if_id.at = cpu.if_id.at
               /\ n.if_id.taken = cpu.if_id.taken /\ n.if_id.index = cpu.if_id.index
               /\ n.if_id.nop = FALSE /\ n.PC = cpu.PC
    <3>1. f.if_id.nop = FALSE
      BY <1>7, <1>14, <2>2
    <3> QED BY <1>8, <1>9, <1>11, <2>1, <2>2, <3>1
  <2>3. ASSUME ~Stays
        PROVE  /\ n.if_id.instr = code[cpu.PC] /\ n.if_id.at = cpu.PC
               /\ code[cpu.PC].op \in Branches => /\ n.if_id.taken = cpu.BHT[cpu.PC % BHTSize]
                                                  /\ n.if_id.index = cpu.PC % BHTSize
    BY <1>8, <1>11, <2>1, <2>3
  <2>4. ASSUME ~Stays, n.id_ex.ctrl.jump PROVE n.if_id.nop
    BY <1>8, <1>9, <1>10, <2>1, <2>4
  <2>5. ASSUME ~Stays, ~n.if_id.nop, code[cpu.PC].op \notin Branches
        PROVE  n.PC = cpu.PC + 1
    <3>1. ~jumps /\ ~g.if_id.nop /\ ~f.if_id.nop
      BY <1>8, <1>9, <2>5
    <3>2. g.correct \/ ~e.ctrl.branch
      <4>1. CASE Idle
        BY <1>8, <1>13, <4>1 DEF NoControl
      <4>2. CASE ~Idle
        <5>1. CASE InIF_ID.op \in Branches
          BY <1>7, <1>8, <1>14, <2>5, <3>1, <4>2, <5>1
        <5>2. CASE InIF_ID.op \notin Branches
          <6>1. e.ctrl = NewLines
            BY <1>8, <1>12, <4>2
          <6>2. ~e.ctrl.jump
            BY <2>1, <2>5, <3>1
          <6>3. InIF_ID.op \notin {"J", "JAL"}
            BY <1>16, <6>1, <6>2 DEF LinesOf
          <6> QED BY <1>16, <5>2, <6>1, <6>3 DEF LinesOf
        <5> QED BY <5>1, <5>2
      <4> QED BY <4>1, <4>2
    <3>3. g.if_id.PC = cpu.PC + 1
      BY <1>8, <2>1, <2>5
    <3> QED BY <1>9, <3>1, <3>2, <3>3
  <2> QED BY <1>1, <2>1, <2>2, <2>3, <2>4, <2>5 DEF Fetches, InIF_ID
<1>22. Predicts
  <2>1. g.id_stall = Stays /\ Stays \in BOOLEAN
    BY <1>6, <1>7, <1>8, <1>14, <1>15
  <2>2. CASE Idle
    <3>1. e.ctrl.op \notin Branches
      BY <1>8, <1>13, <2>2 DEF NoControl, NOP, Branches
    <3> QED BY <1>1, <1>9, <2>2, <3>1 DEF Predicts
  <2>3. CASE ~Idle
    <3>1. e.ctrl.op = InIF_ID.op
      BY <1>8, <1>12, <1>16, <2>3 DEF LinesOf
    <3>2. InIF_ID.op \in Branches => e.index = cpu.if_id.index /\ e.taken = cpu.if_id.taken
      BY <1>8, <1>12, <2>3
    <3>3. e.branch = n.id_ex.branch
      BY <1>8, <1>10
    <3> QED BY <1>1, <1>9, <2>1, <2>3, <3>1, <3>2, <3>3 DEF Predicts, InIF_ID
  <2> QED BY <2>2, <2>3, <1>15
<1>23. Flags'
  <2>1. n.if_id.nop \in BOOLEAN
    BY <1>6, <1>7, <1>8, <1>9, <1>15
  <2>2. n.id_ex.nop \in BOOLEAN
    BY <1>6, <1>10, <1>12, <1>13, <1>15
  <2>3. n.ex_mem.nop \in BOOLEAN /\ n.mem_wb.nop \in BOOLEAN
    <3>1. NoEX_MEM.nop \in BOOLEAN /\ NoMEM_WB.nop \in BOOLEAN
      BY DEF NoEX_MEM, NoMEM_WB
    <3>2. b.ex_mem.nop \in BOOLEAN
      BY <1>5, <3>1 DEF Flags
    <3>3. b.mem_wb.nop \in BOOLEAN
      BY <1>4, <1>5, <3>1 DEF Flags
    <3> QED BY <1>9, <3>2, <3>3
  <2> QED BY <1>1, <1>9, <2>1, <2>2, <2>3 DEF Flags
<1> QED BY <1>18, <1>19, <1>20, <1>21, <1>22, <1>23
-----------------------------------------------------------------------------
(* The back of the pipeline and the stalls.                                *)

\* Bubbles behind EX write nothing, and instructions have the lines of their op.
BackLines ==
  /\ ~cpu.id_ex.nop => LinesOf(cpu.id_ex.ctrl, cpu.id_ex.instr.op)
  /\ IF cpu.ex_mem.nop THEN cpu.ex_mem = NoEX_MEM
     ELSE LinesOf(cpu.ex_mem.ctrl, cpu.ex_mem.ctrl.op)
  /\ IF cpu.mem_wb.nop THEN cpu.mem_wb = NoMEM_WB
     ELSE LinesOf(cpu.mem_wb.ctrl, cpu.mem_wb.ctrl.op)

StallInv == Flags /\ BackLines /\ StallsEnd

\* The machine before its first turn: every latch holds a bubble.
LEMMA AtTheStart ==
  ASSUME Init
  PROVE  /\ Flags /\ BackLines /\ code \in Programs
         /\ cpu.if_id.nop = TRUE /\ cpu.id_ex.nop = TRUE /\ cpu.ex_mem = NoEX_MEM
         /\ cpu.id_stall = FALSE /\ cpu.if_id.instr = NOP
         /\ cpu.BHT = [k \in 0 .. BHTSize - 1 |-> 1]
<1> DEFINE f == [instr |-> NOP, PC |-> 0, nop |-> TRUE, branch_no_PC |-> 0,
                 taken_flag |-> FALSE, taken |-> 0, index |-> 0, at |-> 0]
<1>1. /\ cpu.if_id = f /\ cpu.id_ex = NoID_EX /\ cpu.ex_mem = NoEX_MEM
      /\ cpu.mem_wb = NoMEM_WB /\ cpu.control = NoControl /\ cpu.if_nop = FALSE
      /\ cpu.id_stall = FALSE /\ cpu.BHT = [k \in 0 .. BHTSize - 1 |-> 1]
      /\ code \in Programs
  BY DEF Init, InitCPU
<1>2. cpu = [PC |-> cpu.PC, reg |-> cpu.reg, mem |-> cpu.mem, halt |-> cpu.halt,
             if_id |-> cpu.if_id, id_ex |-> cpu.id_ex, ex_mem |-> cpu.ex_mem,
             mem_wb |-> cpu.mem_wb, control |-> cpu.control, BHT |-> cpu.BHT,
             if_nop |-> cpu.if_nop, id_stall |-> cpu.id_stall, correct |-> cpu.correct]
  BY DEF Init, InitCPU
<1>3. Shape(cpu)
  BY <1>1, <1>2 DEF Shape, ControlShape, NoID_EX, NoEX_MEM, NoMEM_WB, NoControl
<1>4. /\ cpu.if_id.nop = TRUE /\ cpu.id_ex.nop = TRUE /\ cpu.ex_mem.nop = TRUE
      /\ cpu.mem_wb.nop = TRUE /\ cpu.if_id.instr = NOP
  BY <1>1 DEF NoID_EX, NoEX_MEM, NoMEM_WB
<1> QED BY <1>1, <1>3, <1>4 DEF Flags, BackLines

\* Each turn the latches hand on the lines ID has set.
LEMMA BackLinesKept ==
  ASSUME Flags, BackLines, Cycle
  PROVE  BackLines'
<1>1. MovesToWB /\ MovesToMEM /\ MovesToEX /\ Flags'
  BY Turn
<1>2. ~cpu'.id_ex.nop => LinesOf(cpu'.id_ex.ctrl, cpu'.id_ex.instr.op)
  <2> SUFFICES ASSUME ~cpu'.id_ex.nop PROVE LinesOf(cpu'.id_ex.ctrl, cpu'.id_ex.instr.op)
    OBVIOUS
  <2>1. cpu'.id_ex.ctrl = NewLines /\ cpu'.id_ex.instr = InIF_ID
    BY <1>1 DEF MovesToEX
  <2>2. LinesOf(NewLines, InIF_ID.op)
    BY Decoded DEF NewLines, Flags, Shape
  <2> QED BY <2>1, <2>2
<1>3. IF cpu'.ex_mem.nop THEN cpu'.ex_mem = NoEX_MEM
      ELSE LinesOf(cpu'.ex_mem.ctrl, cpu'.ex_mem.ctrl.op)
  <2>1. CASE cpu.id_ex.nop
    BY <1>1, <2>1 DEF MovesToMEM, NoEX_MEM
  <2>2. CASE ~cpu.id_ex.nop
    <3>1. cpu'.ex_mem.nop = FALSE /\ cpu'.ex_mem.ctrl = cpu.id_ex.ctrl
      BY <1>1, <2>2 DEF MovesToMEM
    <3>2. LinesOf(cpu.id_ex.ctrl, cpu.id_ex.ctrl.op)
      BY <2>2 DEF BackLines, LinesOf
    <3> QED BY <3>1, <3>2
  <2> QED BY <2>1, <2>2
<1>4. IF cpu'.mem_wb.nop THEN cpu'.mem_wb = NoMEM_WB
      ELSE LinesOf(cpu'.mem_wb.ctrl, cpu'.mem_wb.ctrl.op)
  <2>1. CASE cpu.ex_mem.nop
    BY <1>1, <2>1 DEF MovesToWB, NoMEM_WB
  <2>2. CASE ~cpu.ex_mem.nop
    <3>1. cpu'.mem_wb.nop = FALSE /\ cpu'.mem_wb.ctrl = cpu.ex_mem.ctrl
      BY <1>1, <2>2 DEF MovesToWB
    <3> QED BY <2>2, <3>1 DEF BackLines
  <2> QED BY <2>1, <2>2
<1> QED BY <1>2, <1>3, <1>4 DEF BackLines

\* An instruction stays in ID only for one that writes a register it reads: the
\* one EX has just passed on, or a load DM has just passed on.
LEMMA WhatStalls ==
  ASSUME Flags, BackLines, Cycle, Stays
  PROVE  \/ ~cpu'.ex_mem.nop /\ cpu'.ex_mem.ctrl.RegWrite
         \/ /\ ~cpu'.mem_wb.nop /\ cpu'.mem_wb.ctrl.RegWrite /\ cpu'.mem_wb.ctrl.MemRead
            /\ InID(InIF_ID)
<1>1. BackLines'
  BY BackLinesKept
<1>2. PICK r \in Waiting(InIF_ID, NewLines) :
        IF InID(InIF_ID) THEN BranchStall(cpu'.ex_mem, cpu'.mem_wb, r)
        ELSE ForwardStall(cpu'.ex_mem, r)
  BY DEF Stays, Stalls
<1>3. CASE ByEX(cpu'.ex_mem, r)
  <2>1. cpu'.ex_mem.ctrl.RegWrite
    BY <1>3 DEF ByEX
  <2>2. ~cpu'.ex_mem.nop
    BY <1>1, <2>1 DEF BackLines, NoEX_MEM, NoControl
  <2> QED BY <2>1, <2>2
<1>4. CASE ~ByEX(cpu'.ex_mem, r)
  <2>1. /\ InID(InIF_ID) /\ cpu'.mem_wb.ctrl.RegWrite /\ cpu'.mem_wb.ctrl.MemtoReg
    BY <1>2, <1>4 DEF BranchStall, ForwardStall, ByDM
  <2>2. ~cpu'.mem_wb.nop
    BY <1>1, <2>1 DEF BackLines, NoMEM_WB, NoControl
  <2>3. cpu'.mem_wb.ctrl.MemRead
    BY <1>1, <2>1, <2>2 DEF BackLines, LinesOf
  <2> QED BY <2>1, <2>2, <2>3
<1> QED BY <1>3, <1>4

\* No instruction waits in ID for one that is past DM: forward and
\* forward_branch stall only for what is still under way.
THEOREM PipelineStalls == Spec => []StallsEnd
<1>1. Init => StallInv
  BY AtTheStart DEF StallInv, StallsEnd
<1>2. StallInv /\ [Next]_vars => StallInv'
  <2> SUFFICES ASSUME StallInv, [Next]_vars PROVE StallInv'
    OBVIOUS
  <2>1. CASE Cycle
    <3>1. Flags' /\ BackLines'
      BY <2>1, Turn, BackLinesKept DEF StallInv
    <3>2. StallsEnd'
      <4> SUFFICES ASSUME cpu'.id_stall
                   PROVE  \/ ~cpu'.ex_mem.nop
                          \/ /\ ~cpu'.mem_wb.nop /\ cpu'.mem_wb.ctrl.MemRead
                             /\ InID(cpu'.if_id.instr)
        BY DEF StallsEnd
      <4>1. Stays /\ cpu'.if_id.instr = InIF_ID
        BY <2>1, Turn DEF StallInv, MovesToEX, Fetches, InIF_ID
      <4> QED BY <2>1, <4>1, WhatStalls DEF StallInv
    <3> QED BY <3>1, <3>2 DEF StallInv
  <2>2. CASE UNCHANGED vars
    BY <2>2 DEF vars, StallInv, Flags, BackLines, StallsEnd
  <2> QED BY <2>1, <2>2 DEF Next
<1>3. StallInv => StallsEnd
  BY DEF StallInv
<1> QED BY <1>1, <1>2, <1>3, PTL DEF Spec
-----------------------------------------------------------------------------
(* Operands.                                                               *)

Jumps == {"J", "JAL", "JR"}

\* Programs jump and branch to addresses of their code only.
InCode == cpu.PC \in Address

\* What is behind a jump is flushed; what is behind a HALT is HALT.
Order ==
  /\ code \in Programs
  /\ ~cpu.if_id.nop => cpu.if_id.instr \in Instr
  /\ ~cpu.id_ex.nop => cpu.id_ex.instr \in Instr
  /\ ~cpu.id_ex.nop /\ cpu.id_ex.ctrl.jump => cpu.if_id.nop
  /\ ~cpu.ex_mem.nop /\ cpu.ex_mem.ctrl.op \in Jumps => cpu.id_ex.nop
  /\ ~cpu.if_id.nop /\ cpu.if_id.instr.op = "HALT" /\ InCode => code[cpu.PC].op = "HALT"
  /\ ~cpu.id_ex.nop /\ cpu.id_ex.instr.op = "HALT" =>
       cpu.if_id.nop \/ cpu.if_id.instr.op = "HALT"
  /\ ~cpu.ex_mem.nop /\ cpu.ex_mem.ctrl.op = "HALT" =>
       cpu.id_ex.nop \/ cpu.id_ex.instr.op = "HALT"

\* forward gives up the result in mem_wb when ex_mem has the same dest, which
\* a branch takes from bits 15 to 11 of its displacement without writing it:
\* the instruction in id_ex that reads that register misses the result.
FalseDependence ==
  LET x == cpu.ex_mem
      w == cpu.mem_wb
      d == cpu.id_ex
  IN  /\ x.ctrl.op \in Branches /\ x.dest # 0
      /\ w.ctrl.RegWrite /\ w.dest = x.dest
      /\ ~d.nop /\ w.dest \in {d.instr.rs, d.instr.rt}

OperandsUnlessFalse == ~FalseDependence => OperandsCurrent

OperandInv == Flags /\ BackLines /\ Order /\ OperandsUnlessFalse

\* In range, IF reads an instruction, and after a HALT another HALT.
LEMMA Code ==
  ASSUME code \in Programs, InCode
  PROVE  /\ code[cpu.PC] \in Instr
         /\ code[cpu.PC].op = "HALT" =>
              \A q \in Address : q >= cpu.PC => code[q].op = "HALT"
<1>1. code \in [Address -> Instr]
  BY ProgramAssumption
<1>2. \A p \in Address : code[p].op = "HALT" =>
        \A q \in p .. CodeWords - 1 : code[q].op = "HALT"
  BY ProgramAssumption
<1>3. \A q \in Address : q >= cpu.PC => q \in cpu.PC .. CodeWords - 1
  BY ProgramAssumption DEF Address, InCode
<1> QED BY <1>1, <1>2, <1>3 DEF InCode

\* A turn flushes what is behind a jump and fetches HALT after HALT.
LEMMA OrderKept ==
  ASSUME Flags, BackLines, Order, InCode, InCode', Cycle
  PROVE  Order'
<1>1. MovesToMEM /\ MovesToEX /\ Fetches /\ Flags' /\ BackLines'
  BY Turn, BackLinesKept
<1>2. code' = code /\ code \in Programs /\ code[cpu.PC] \in Instr
  BY Code DEF Cycle, Order
<1>3. cpu'.if_id.instr \in Instr
  BY <1>1, <1>2 DEF Fetches, Order, Stays, Idle
<1>4. ~cpu'.id_ex.nop => /\ ~Idle /\ ~Stays /\ cpu'.id_ex.instr = InIF_ID
                         /\ cpu'.id_ex.ctrl = NewLines
  BY <1>1 DEF MovesToEX, Flags, Idle
<1>5. ~cpu'.id_ex.nop => cpu'.id_ex.instr \in Instr
  BY <1>4 DEF Order, InIF_ID, Idle
<1>6. ~cpu'.id_ex.nop /\ cpu'.id_ex.ctrl.jump => cpu'.if_id.nop
  BY <1>1, <1>4 DEF Fetches
<1>7. ~cpu'.ex_mem.nop => /\ ~cpu.id_ex.nop /\ cpu'.ex_mem.ctrl = cpu.id_ex.ctrl
                          /\ LinesOf(cpu.id_ex.ctrl, cpu.id_ex.instr.op)
  BY <1>1 DEF MovesToMEM, NoEX_MEM, Flags, BackLines
<1>8. ~cpu'.ex_mem.nop /\ cpu'.ex_mem.ctrl.op \in Jumps => cpu'.id_ex.nop
  <2> SUFFICES ASSUME ~cpu'.ex_mem.nop, cpu'.ex_mem.ctrl.op \in Jumps PROVE cpu'.id_ex.nop
    OBVIOUS
  <2>1. cpu.id_ex.ctrl.jump
    BY <1>7 DEF LinesOf, Jumps
  <2>2. Idle
    BY <1>7, <2>1 DEF Order, Idle
  <2> QED BY <1>1, <2>2 DEF MovesToEX
<1>9. ~cpu'.if_id.nop /\ cpu'.if_id.instr.op = "HALT" /\ InCode' => code'[cpu'.PC].op = "HALT"
  <2> SUFFICES ASSUME ~cpu'.if_id.nop, cpu'.if_id.instr.op = "HALT"
               PROVE  code[cpu'.PC].op = "HALT"
    BY <1>2
  <2>1. CASE Stays
    BY <1>1, <2>1 DEF Fetches, Order, Stays, Idle
  <2>2. CASE ~Stays
    <3>1. code[cpu.PC].op = "HALT" /\ cpu'.PC = cpu.PC + 1
      BY <1>1, <2>2 DEF Fetches, Branches
    <3>2. cpu'.PC \in Address /\ cpu'.PC >= cpu.PC
      BY <3>1, ProgramAssumption DEF InCode, Address
    <3> QED BY <1>2, <3>1, <3>2, Code
  <2> QED BY <2>1, <2>2
<1>10. ~cpu'.id_ex.nop /\ cpu'.id_ex.instr.op = "HALT" =>
         cpu'.if_id.nop \/ cpu'.if_id.instr.op = "HALT"
  BY <1>1, <1>4 DEF Fetches, Order, Idle, InIF_ID
<1>11. ~cpu'.ex_mem.nop /\ cpu'.ex_mem.ctrl.op = "HALT" =>
         cpu'.id_ex.nop \/ cpu'.id_ex.instr.op = "HALT"
  BY <1>4, <1>7 DEF Order, LinesOf, Idle, InIF_ID
<1> QED BY <1>2, <1>3, <1>5, <1>6, <1>8, <1>9, <1>10, <1>11 DEF Order

\* A dest in ex_mem that nothing is written to is a branch's.
LEMMA SilentDest ==
  ASSUME Flags, BackLines, Order, Order', Cycle,
         ~cpu'.id_ex.nop, cpu'.id_ex.instr.op # "HALT",
         ~cpu'.ex_mem.ctrl.RegWrite, cpu'.ex_mem.dest # 0
  PROVE  cpu'.ex_mem.ctrl.op \in Branches
<1> DEFINE op == cpu.id_ex.instr.op
<1>1. MovesToMEM
  BY Turn
<1>2. ~cpu'.ex_mem.nop /\ ~cpu.id_ex.nop /\ cpu'.ex_mem.ctrl = cpu.id_ex.ctrl
  BY <1>1 DEF MovesToMEM, NoEX_MEM, Flags
<1>3. LinesOf(cpu.id_ex.ctrl, op) /\ op \in Op
  BY <1>2 DEF BackLines, Order, Instr
<1>4. cpu'.ex_mem.ctrl.op = op
  BY <1>2, <1>3 DEF LinesOf
<1>5. op \notin Jumps /\ op # "HALT"
  BY <1>2, <1>4 DEF Order
<1>6. op \notin RArith \cup IArith \cup Loads
  BY <1>2, <1>3 DEF LinesOf
<1>7. op \notin Stores
  BY <1>1, <1>2, <1>4, <1>5 DEF MovesToMEM
<1> QED BY <1>3, <1>4, <1>5, <1>6, <1>7 DEF Op, RType, Jumps

\* What is in front of an instruction that has just left ID.
LEMMA InFront ==
  ASSUME Flags, BackLines, Order, Order', BackLines', Cycle, ~FalseDependence',
         ~cpu'.id_ex.nop, cpu'.id_ex.instr.op # "HALT",
         NEW r \in {cpu'.id_ex.instr.rs, cpu'.id_ex.instr.rt}
  PROVE  LET x == cpu'.ex_mem
             w == cpu'.mem_wb
         IN  /\ x.ctrl.op # "JAL"
             /\ x.ctrl.RegWrite /\ x.ctrl.MemRead => x.ctrl.MemtoReg
             /\ w.ctrl.op = "JAL" => x = NoEX_MEM
             /\ ~x.ctrl.RegWrite /\ w.ctrl.RegWrite /\ w.dest # 0 /\ r = w.dest =>
                  w.dest # x.dest
<1> DEFINE x == cpu'.ex_mem
           w == cpu'.mem_wb
<1>1. x.ctrl.op # "JAL" /\ (x.ctrl.RegWrite /\ x.ctrl.MemRead => x.ctrl.MemtoReg)
  <2>1. CASE x.nop
    <3>1. x = NoEX_MEM
      BY <2>1 DEF BackLines
    <3> QED BY <3>1 DEF NoEX_MEM, NoControl, NOP
  <2>2. CASE ~x.nop
    <3>1. LinesOf(x.ctrl, x.ctrl.op)
      BY <2>2 DEF BackLines
    <3>2. x.ctrl.op \notin Jumps
      BY <2>2 DEF Order
    <3> QED BY <3>1, <3>2 DEF LinesOf, Jumps
  <2> QED BY <2>1, <2>2
<1>2. w.ctrl.op = "JAL" => x = NoEX_MEM
  <2> SUFFICES ASSUME w.ctrl.op = "JAL" PROVE x = NoEX_MEM
    OBVIOUS
  <2>1. MovesToWB /\ MovesToMEM
    BY Turn
  <2>2. ~cpu.ex_mem.nop /\ cpu.ex_mem.ctrl.op = "JAL"
    BY <2>1 DEF MovesToWB, NoMEM_WB, NoControl, NOP
  <2> QED BY <2>1, <2>2 DEF Order, Jumps, MovesToMEM
<1>3. ~x.ctrl.RegWrite /\ w.ctrl.RegWrite /\ w.dest # 0 /\ r = w.dest => w.dest # x.dest
  BY SilentDest DEF FalseDependence
<1> QED BY <1>1, <1>2, <1>3

\* What forward hands to register r's reader when it does not stall.
LEMMA ForwardCurrent ==
  ASSUME Flags, BackLines, Order, Order', BackLines', Cycle, ~FalseDependence',
         ~cpu'.id_ex.nop, ToForward(cpu'.id_ex.instr),
         NEW r \in Reg, r \in {cpu'.id_ex.instr.rs, cpu'.id_ex.instr.rt},
         ~ForwardStall(cpu'.ex_mem, r)
  PROVE  /\ Ready(cpu', r)
         /\ Forward(cpu'.ex_mem, cpu'.mem_wb, r, cpu'.reg[r]) = Current(cpu', r)
<1> DEFINE x == cpu'.ex_mem
           w == cpu'.mem_wb
<1>1. /\ x.ctrl.op # "JAL"
      /\ x.ctrl.RegWrite /\ x.ctrl.MemRead => x.ctrl.MemtoReg
      /\ w.ctrl.op = "JAL" => x = NoEX_MEM
      /\ ~x.ctrl.RegWrite /\ w.ctrl.RegWrite /\ w.dest # 0 /\ r = w.dest =>
           w.dest # x.dest
  BY InFront DEF ToForward
<1>2. Written(cpu'.reg, w)[r] =
        IF w.ctrl.RegWrite /\ w.dest # 0 /\ r = w.dest
        THEN IF w.ctrl.MemtoReg THEN w.RD ELSE w.alu_result
        ELSE IF w.ctrl.op = "JAL" /\ r = 31 THEN w.re_addr ELSE cpu'.reg[r]
  BY DEF Written
<1> HIDE DEF x, w
<1>3. CASE WritesTo(x, r)
  <2>1. x.ctrl.RegWrite /\ r = x.dest /\ x.dest # 0 /\ ~x.ctrl.MemtoReg
    BY <1>1, <1>3 DEF ForwardStall, ByEX, WritesTo, x
  <2>2. Forward(x, w, r, cpu'.reg[r]) = x.alu_result
    BY <1>1, <2>1 DEF Forward, ByDM, ByJAL, ByEX, NoEX_MEM, NoControl
  <2> QED BY <1>1, <1>3, <2>1, <2>2 DEF x, w, Ready, Current
<1>4. CASE ~WritesTo(x, r)
  <2>1. ~ByEX(x, r)
    BY <1>4 DEF ByEX, WritesTo
  <2>2. ByDM(x, w, r) <=> w.ctrl.RegWrite /\ w.dest # 0 /\ r = w.dest
    BY <1>1, <1>4 DEF ByDM, WritesTo
  <2>3. ByJAL(x, w, r) <=> w.ctrl.op = "JAL" /\ r = 31
    BY <1>1 DEF ByJAL, NoEX_MEM
  <2>4. Forward(x, w, r, cpu'.reg[r]) = Written(cpu'.reg, w)[r]
    BY <1>2, <2>1, <2>2, <2>3 DEF Forward
  <2> QED BY <1>4, <2>4 DEF x, w, Ready, Current
<1> QED BY <1>3, <1>4

\* What forward_branch hands to it.
LEMMA BranchCurrent ==
  ASSUME Flags, BackLines, Order, Order', BackLines', Cycle, ~FalseDependence',
         ~cpu'.id_ex.nop, InID(cpu'.id_ex.instr),
         NEW r \in Reg, r \in {cpu'.id_ex.instr.rs, cpu'.id_ex.instr.rt},
         ~BranchStall(cpu'.ex_mem, cpu'.mem_wb, r)
  PROVE  /\ Ready(cpu', r)
         /\ ForwardBranch(cpu'.ex_mem, cpu'.mem_wb, r, cpu'.reg[r]) = Current(cpu', r)
<1> DEFINE x == cpu'.ex_mem
           w == cpu'.mem_wb
<1>1. /\ x.ctrl.op # "JAL"
      /\ w.ctrl.op = "JAL" => x = NoEX_MEM
      /\ ~x.ctrl.RegWrite /\ w.ctrl.RegWrite /\ w.dest # 0 /\ r = w.dest =>
           w.dest # x.dest
  BY InFront DEF InID, Branches
<1>2. Written(cpu'.reg, w)[r] =
        IF w.ctrl.RegWrite /\ w.dest # 0 /\ r = w.dest
        THEN IF w.ctrl.MemtoReg THEN w.RD ELSE w.alu_result
        ELSE IF w.ctrl.op = "JAL" /\ r = 31 THEN w.re_addr ELSE cpu'.reg[r]
  BY DEF Written
<1> HIDE DEF x, w
<1>3. ~WritesTo(x, r)
  BY <1>1 DEF BranchStall, ByEX, WritesTo, x
<1>4. ByDM(x, w, r) <=> w.ctrl.RegWrite /\ w.dest # 0 /\ r = w.dest
  BY <1>1, <1>3 DEF ByDM, WritesTo
<1>5. ByJAL(x, w, r) <=> w.ctrl.op = "JAL" /\ r = 31
  BY <1>1 DEF ByJAL, NoEX_MEM
<1>6. ~(ByDM(x, w, r) /\ w.ctrl.MemtoReg)
  BY DEF BranchStall, x, w
<1>7. ForwardBranch(x, w, r, cpu'.reg[r]) = Written(cpu'.reg, w)[r]
  BY <1>2, <1>4, <1>5, <1>6 DEF ForwardBranch
<1> QED BY <1>3, <1>7 DEF x, w, Ready, Current

\* What leaves ID in a turn has the operands it should have.
LEMMA OperandsKept ==
  ASSUME Flags, BackLines, Order, Order', BackLines', Cycle, ~FalseDependence'
  PROVE  OperandsCurrent'
<1> SUFFICES ASSUME ~cpu'.id_ex.nop, ToForward(cpu'.id_ex.instr)
             PROVE  OperandsCurrent'
  BY DEF OperandsCurrent
<1>1. MovesToEX /\ Flags'
  BY Turn
<1>2. /\ ~Idle /\ ~Stays /\ cpu'.id_ex.instr = InIF_ID /\ cpu'.id_ex.ctrl = NewLines
  BY <1>1 DEF MovesToEX, Flags, Idle
<1>3. \A r \in Waiting(InIF_ID, NewLines) : ~ForwardStall(cpu'.ex_mem, r)
  BY <1>2 DEF Stays, Stalls, InID, ToForward
<1>4. /\ InIF_ID.op \notin Shifts => ~ForwardStall(cpu'.ex_mem, InIF_ID.rs)
      /\ ~NewLines.ALUSrc => ~ForwardStall(cpu'.ex_mem, InIF_ID.rt)
  BY <1>2, <1>3 DEF Waiting, ToForward
<1>5. InIF_ID.rs \in Reg /\ InIF_ID.rt \in Reg
  BY <1>2 DEF Order, InIF_ID, Instr, Idle
<1>6. /\ InIF_ID.op \notin Shifts =>
           cpu'.id_ex.RD1 = Forward(cpu'.ex_mem, cpu'.mem_wb, InIF_ID.rs,
                                    cpu'.reg[InIF_ID.rs])
      /\ ~NewLines.ALUSrc =>
           cpu'.id_ex.RD2 = Forward(cpu'.ex_mem, cpu'.mem_wb, InIF_ID.rt,
                                    cpu'.reg[InIF_ID.rt])
  BY <1>1, <1>2 DEF MovesToEX
<1> HIDE DEF InIF_ID, NewLines, Idle, Stays
<1>7. \A r \in Reg :
        r \in {InIF_ID.rs, InIF_ID.rt} /\ ~ForwardStall(cpu'.ex_mem, r) =>
          /\ Ready(cpu', r)
          /\ Forward(cpu'.ex_mem, cpu'.mem_wb, r, cpu'.reg[r]) = Current(cpu', r)
  BY <1>2, ForwardCurrent
<1>8. /\ InIF_ID.op \notin Shifts =>
           Ready(cpu', InIF_ID.rs) /\ cpu'.id_ex.RD1 = Current(cpu', InIF_ID.rs)
      /\ ~NewLines.ALUSrc =>
           Ready(cpu', InIF_ID.rt) /\ cpu'.id_ex.RD2 = Current(cpu', InIF_ID.rt)
  BY <1>4, <1>5, <1>6, <1>7
<1> QED BY <1>2, <1>8 DEF OperandsCurrent

\* An instruction leaves ID with the operands that the instructions before it
\* leave behind, unless a branch's displacement passes for a destination: for
\* every program that stays in its code.
THEOREM PipelineOperands ==
  Spec /\ []InCode => [](~FalseDependence => OperandsCurrent)
<1>1. Init => OperandInv
  BY AtTheStart DEF OperandInv, Order, OperandsUnlessFalse, OperandsCurrent, NoEX_MEM, NOP
<1>2. OperandInv /\ InCode /\ InCode' /\ [Next]_vars => OperandInv'
  <2> SUFFICES ASSUME OperandInv, InCode, InCode', [Next]_vars PROVE OperandInv'
    OBVIOUS
  <2>1. CASE Cycle
    <3>1. Flags' /\ BackLines' /\ Order'
      BY <2>1, Turn, BackLinesKept, OrderKept DEF OperandInv
    <3>2. OperandsUnlessFalse'
      BY <2>1, <3>1, OperandsKept DEF OperandInv, OperandsUnlessFalse
    <3> QED BY <3>1, <3>2 DEF OperandInv
  <2>2. CASE UNCHANGED vars
    BY <2>2 DEF vars, OperandInv, Flags, BackLines, Order, InCode, OperandsUnlessFalse,
                FalseDependence, OperandsCurrent
  <2> QED BY <2>1, <2>2 DEF Next
<1>3. OperandInv => (~FalseDependence => OperandsCurrent)
  BY DEF OperandInv, OperandsUnlessFalse
<1> QED BY <1>1, <1>2, <1>3, PTL DEF Spec
-----------------------------------------------------------------------------
(* Branch prediction.                                                      *)

\* A branch in flight that leaves ID: its counter moves in that turn.
Counted(l, k) == ~l.nop /\ l.ctrl.op \in Branches /\ l.at % BHTSize = k

\* The branch in if_id knows its counter as the table has it, or a branch right
\* before it, at most a bubble away, has moved the counter since.
Counters ==
  LET d == cpu.if_id
  IN  /\ cpu.BHT = [k \in 0 .. BHTSize - 1 |-> cpu.BHT[k]]
      /\ ~d.nop /\ d.instr.op \in Branches =>
           /\ d.index \in 0 .. BHTSize - 1 /\ d.index = d.at % BHTSize
           /\ \/ d.taken = cpu.BHT[d.index]
              \/ Counted(cpu.id_ex, d.index)
              \/ cpu.id_ex.nop /\ Counted(cpu.ex_mem, d.index)

CounterInv == Flags /\ BackLines /\ Counters

\* A turn moves at most the counter of the branch that leaves ID.
LEMMA BranchLeaves ==
  ASSUME Flags, BackLines, Counters, Cycle, NEW k \in 0 .. BHTSize - 1,
         cpu'.BHT[k] # cpu.BHT[k]
  PROVE  /\ ~Idle /\ ~Stays /\ InIF_ID.op \in Branches /\ k = cpu.if_id.index
         /\ Counted(cpu'.id_ex, k) /\ cpu'.id_ex.instr = InIF_ID /\ ~cpu'.id_stall
         /\ cpu'.BHT[k] = Step(cpu.if_id.taken, cpu'.id_ex.branch)
<1>1. Predicts /\ MovesToEX /\ Flags'
  BY Turn
<1>2. ~Idle /\ ~Stays /\ InIF_ID.op \in Branches
  BY <1>1 DEF Predicts
<1> DEFINE d == cpu.if_id
           s == Step(d.taken, cpu'.id_ex.branch)
<1>3. /\ cpu'.BHT = [cpu.BHT EXCEPT ![d.index] = s]
      /\ cpu.BHT = [j \in 0 .. BHTSize - 1 |-> cpu.BHT[j]]
      /\ d.index \in 0 .. BHTSize - 1 /\ d.index = d.at % BHTSize
  BY <1>1, <1>2 DEF Predicts, Counters, Idle, InIF_ID
<1> HIDE DEF s
<1>4. k = d.index /\ cpu'.BHT[k] = s
  BY <1>3
<1>5. /\ ~cpu'.id_stall /\ cpu'.id_ex.nop = FALSE /\ cpu'.id_ex.instr = InIF_ID
      /\ cpu'.id_ex.at = d.at /\ cpu'.id_ex.ctrl = NewLines
  BY <1>1, <1>2 DEF MovesToEX, Idle, Flags
<1>6. NewLines.op = InIF_ID.op
  BY Decoded DEF NewLines, Flags, Shape, LinesOf
<1> QED BY <1>2, <1>3, <1>4, <1>5, <1>6 DEF Counted, s

\* A counter that is not what its branch read when fetched was moved by the
\* branch before it.
LEMMA CountersKept ==
  ASSUME Flags, BackLines, Counters, InCode, Cycle
  PROVE  Counters'
<1> DEFINE d == cpu.if_id
           n == cpu'.if_id
<1>1. /\ MovesToWB /\ MovesToMEM /\ MovesToEX /\ Fetches /\ Predicts /\ Flags' /\ BackLines'
  BY Turn, BackLinesKept
<1>2. cpu'.BHT = [k \in 0 .. BHTSize - 1 |-> cpu'.BHT[k]]
  <2>1. cpu.BHT = [k \in 0 .. BHTSize - 1 |-> cpu.BHT[k]]
    BY DEF Counters
  <2> QED BY <1>1, <2>1 DEF Predicts
<1>3. ASSUME ~n.nop, n.instr.op \in Branches
      PROVE  /\ n.index \in 0 .. BHTSize - 1 /\ n.index = n.at % BHTSize
             /\ \/ n.taken = cpu'.BHT[n.index]
                \/ Counted(cpu'.id_ex, n.index)
                \/ cpu'.id_ex.nop /\ Counted(cpu'.ex_mem, n.index)
  <2>1. CASE Stays
    <3>1. ~Idle /\ d.instr.op \in Branches /\ n.at = d.at /\ n.taken = d.taken
          /\ n.index = d.index /\ cpu'.BHT = cpu.BHT /\ cpu'.id_ex.nop
      BY <1>1, <1>3, <2>1 DEF Fetches, Stays, Predicts, MovesToEX
    <3>2. /\ d.index \in 0 .. BHTSize - 1 /\ d.index = d.at % BHTSize
          /\ \/ d.taken = cpu.BHT[d.index]
             \/ Counted(cpu.id_ex, d.index)
             \/ cpu.id_ex.nop /\ Counted(cpu.ex_mem, d.index)
      BY <3>1 DEF Counters, Idle
    <3>3. CASE Counted(cpu.id_ex, d.index)
      BY <1>1, <3>1, <3>2, <3>3 DEF Counted, MovesToMEM
    <3>4. CASE cpu.id_ex.nop /\ Counted(cpu.ex_mem, d.index)
      <4>1. cpu'.ex_mem.nop /\ cpu'.mem_wb.ctrl = cpu.ex_mem.ctrl
        BY <1>1, <3>4 DEF MovesToMEM, MovesToWB, Counted, NoEX_MEM
      <4>2. ~cpu.ex_mem.ctrl.RegWrite
        BY <3>4 DEF Counted, BackLines, LinesOf, Branches, RArith, Shifts, IArith, Loads
      <4> QED BY <2>1, <4>1, <4>2, WhatStalls
    <3> QED BY <3>1, <3>2, <3>3, <3>4
  <2>2. CASE ~Stays
    <3>1. n.index = cpu.PC % BHTSize /\ n.at = cpu.PC /\ n.taken = cpu.BHT[n.index]
      BY <1>1, <1>3, <2>2 DEF Fetches
    <3>2. n.index \in 0 .. BHTSize - 1
      BY <3>1, ProgramAssumption DEF InCode, Address
    <3>3. cpu'.BHT[n.index] # cpu.BHT[n.index] => Counted(cpu'.id_ex, n.index)
      BY <3>2, BranchLeaves
    <3> QED BY <3>1, <3>2, <3>3
  <2> QED BY <2>1, <2>2
<1> QED BY <1>2, <1>3 DEF Counters

\* The two-bit counters follow the outcomes of the branches that leave ID, one
\* step each, and only a branch whose counter was in use when it was fetched
\* can move one otherwise: for every program that stays in its code.
THEOREM PipelineCounters ==
  Spec /\ []InCode => CountersFollowBranches
<1>1. Init => CounterInv
  <2> SUFFICES ASSUME Init PROVE CounterInv
    OBVIOUS
  <2>1. Flags /\ BackLines /\ cpu.if_id.nop = TRUE
    BY AtTheStart
  <2>2. cpu.BHT = [k \in 0 .. BHTSize - 1 |-> cpu.BHT[k]]
    BY AtTheStart
  <2> QED BY <2>1, <2>2 DEF CounterInv, Counters
<1>2. CounterInv /\ InCode /\ [Next]_vars => CounterInv'
  <2> SUFFICES ASSUME CounterInv, InCode, [Next]_vars PROVE CounterInv'
    OBVIOUS
  <2>1. CASE Cycle
    BY <2>1, Turn, BackLinesKept, CountersKept DEF CounterInv
  <2>2. CASE UNCHANGED vars
    BY <2>2 DEF vars, CounterInv, Flags, BackLines, Counters, Counted
  <2> QED BY <2>1, <2>2 DEF Next
<1>3. CounterInv /\ [Next]_vars =>
        [\A k \in DOMAIN cpu.BHT : cpu'.BHT[k] # cpu.BHT[k] =>
           OneStep(k) \/ (Leaves(k) /\ Overtaken(k))]_vars
  <2> SUFFICES ASSUME CounterInv, Cycle, NEW k \in DOMAIN cpu.BHT,
                      cpu'.BHT[k] # cpu.BHT[k]
               PROVE  OneStep(k) \/ (Leaves(k) /\ Overtaken(k))
    BY DEF Next
  <2>1. k \in 0 .. BHTSize - 1
    BY DEF CounterInv, Counters
  <2>2. /\ ~Idle /\ InIF_ID.op \in Branches /\ k = cpu.if_id.index
        /\ Counted(cpu'.id_ex, k) /\ cpu'.id_ex.instr = InIF_ID /\ ~cpu'.id_stall
        /\ cpu'.BHT[k] = Step(cpu.if_id.taken, cpu'.id_ex.branch)
    BY <2>1, BranchLeaves DEF CounterInv
  <2>3. Leaves(k)
    BY <2>2 DEF Leaves, Counted
  <2>4. \/ cpu.if_id.taken = cpu.BHT[k]
        \/ Counted(cpu.id_ex, k)
        \/ cpu.id_ex.nop /\ Counted(cpu.ex_mem, k)
    BY <2>2 DEF CounterInv, Counters, Idle, InIF_ID
  <2>5. CASE cpu.if_id.taken = cpu.BHT[k]
    BY <2>2, <2>3, <2>5 DEF OneStep
  <2>6. CASE Counted(cpu.id_ex, k)
    <3>1. Counted(cpu'.ex_mem, k)
      BY <2>6, Turn DEF CounterInv, Counted, MovesToMEM
    <3> QED BY <2>3, <3>1 DEF Overtaken, Counted
  <2>7. CASE cpu.id_ex.nop /\ Counted(cpu.ex_mem, k)
    <3>1. cpu'.ex_mem.nop /\ Counted(cpu'.mem_wb, k)
      <4>1. cpu'.ex_mem.nop
        BY <2>7, Turn DEF CounterInv, MovesToMEM, NoEX_MEM
      <4>2. cpu'.mem_wb.nop = FALSE /\ cpu'.mem_wb.ctrl = cpu.ex_mem.ctrl
            /\ cpu'.mem_wb.at = cpu.ex_mem.at
        BY <2>7, Turn DEF CounterInv, MovesToWB, Counted
      <4> QED BY <2>7, <4>1, <4>2 DEF Counted
    <3> QED BY <2>3, <3>1 DEF Overtaken, Counted
  <2> QED BY <2>4, <2>5, <2>6, <2>7
<1> QED BY <1>1, <1>2, <1>3, PTL DEF Spec, CountersFollowBranches

-----------------------------------------------------------------------------
(* The values a turn computes.                                             *)

\* What WB leaves in the registers.
RegistersAfter(m) ==
  IF m.mem_wb.nop \/ m.mem_wb.ctrl.op = "HALT" THEN m.reg ELSE Written(m.reg, m.mem_wb)

\* What DM leaves in memory and in mem_wb.
MemoryAfter(m) ==
  LET x == m.ex_mem
  IN  IF ~x.nop /\ x.ctrl.op # "HALT" /\ x.ctrl.MemWrite /\ ~x.ctrl.MemRead
      THEN [m.mem EXCEPT ![x.alu_result \div 4] = x.WDtoMem] ELSE m.mem

FromDM(m) ==
  LET x == m.ex_mem
      w == m.mem_wb
      a == x.alu_result
  IN  IF x.nop THEN NoMEM_WB
      ELSE IF x.ctrl.op = "HALT"
      THEN [ctrl |-> x.ctrl, RD |-> w.RD, dest |-> w.dest, alu_result |-> w.alu_result,
            nop |-> FALSE, re_addr |-> w.re_addr, at |-> x.at]
      ELSE [ctrl |-> x.ctrl, dest |-> x.dest, alu_result |-> a,
            RD |-> IF x.ctrl.MemRead /\ ~x.ctrl.MemWrite
                   THEN Loaded(x.ctrl.op, m.mem[a \div 4], a % 4) ELSE w.RD,
            nop |-> FALSE, at |-> x.at,
            re_addr |-> IF x.ctrl.op = "JAL" THEN x.re_addr ELSE w.re_addr]

\* What EX leaves in ex_mem.
Input_2(d) == IF ~d.ctrl.ALUSrc /\ d.ctrl.op \notin Stores THEN d.RD2
              ELSE SignExtend(d.instr.imm)

Result(m) ==
  LET d == m.id_ex
  IN  IF d.ctrl.op \in RArith \cup IArith \cup Loads \cup Stores
      THEN ALU(d.ctrl.op, d.RD1, Input_2(d)) ELSE m.ex_mem.alu_result

FromEX(m, mem) ==
  LET d == m.id_ex
      x == m.ex_mem
      r == Result(m)
  IN  IF d.nop THEN NoEX_MEM
      ELSE IF d.ctrl.op = "HALT"
      THEN [ctrl |-> d.ctrl, alu_result |-> x.alu_result, WDtoMem |-> x.WDtoMem,
            dest |-> x.dest, nop |-> FALSE, re_addr |-> x.re_addr, at |-> d.at]
      ELSE [ctrl |-> d.ctrl, alu_result |-> r, nop |-> FALSE, at |-> d.at,
            dest |-> IF ~d.ctrl.ALUSrc /\ d.ctrl.op \notin Stores THEN Bits15to11(d.instr)
                     ELSE IF d.ctrl.op \in Stores THEN 0 ELSE d.instr.rt,
            WDtoMem |-> IF d.ctrl.op \in Stores
                        THEN Merged(d.ctrl.op, mem[r \div 4], r % 4, d.RD2) ELSE x.WDtoMem,
            re_addr |-> IF d.ctrl.op = "JAL" THEN d.re_addr ELSE x.re_addr]

\* WB writes the result in mem_wb, or stops the loop.
LEMMA WBValues ==
  ASSUME NEW m, Shape(m)
  PROVE  LET n == WB(m)
         IN  /\ n.reg = RegistersAfter(m) /\ n.mem = m.mem
             /\ n.halt = IF ~m.mem_wb.nop /\ m.mem_wb.ctrl.op = "HALT" THEN TRUE ELSE m.halt
             /\ n.mem_wb = [m.mem_wb EXCEPT !.nop = n.mem_wb.nop]
<1> DEFINE n == WB(m)
           written == Written(m.reg, m.mem_wb)
<1>1. CASE m.mem_wb.nop
  <2>1. n = [m EXCEPT !.mem_wb.nop = FALSE]
    BY <1>1 DEF WB
  <2> HIDE DEF n
  <2>2. n.reg = m.reg /\ n.mem = m.mem /\ n.halt = m.halt /\ n.mem_wb = [m.mem_wb EXCEPT !.nop = FALSE]
    BY <2>1 DEF Shape
  <2>3. n.mem_wb = [m.mem_wb EXCEPT !.nop = n.mem_wb.nop]
    BY <2>2 DEF Shape
  <2> QED BY <1>1, <2>2, <2>3 DEF n, RegistersAfter
<1>2. CASE ~m.mem_wb.nop /\ m.mem_wb.ctrl.op = "HALT"
  <2>1. n = [m EXCEPT !.halt = TRUE]
    BY <1>2 DEF WB
  <2> HIDE DEF n
  <2>2. n.reg = m.reg /\ n.mem = m.mem /\ n.halt = TRUE /\ n.mem_wb = m.mem_wb
    BY <2>1 DEF Shape
  <2>3. n.mem_wb = [m.mem_wb EXCEPT !.nop = n.mem_wb.nop]
    BY <2>2 DEF Shape
  <2> QED BY <1>2, <2>2, <2>3 DEF n, RegistersAfter
<1>3. CASE ~m.mem_wb.nop /\ m.mem_wb.ctrl.op # "HALT"
  <2>1. n = [m EXCEPT !.reg = written]
    BY <1>3 DEF WB
  <2> HIDE DEF n, written
  <2>2. n.reg = written /\ n.mem = m.mem /\ n.halt = m.halt /\ n.mem_wb = m.mem_wb
    BY <2>1 DEF Shape
  <2>3. n.mem_wb = [m.mem_wb EXCEPT !.nop = n.mem_wb.nop]
    BY <2>2 DEF Shape
  <2> QED BY <1>3, <2>2, <2>3 DEF n, RegistersAfter, written
<1> QED BY <1>1, <1>2, <1>3

\* DM loads, stores, or passes results on.
LEMMA DMValues ==
  ASSUME NEW m, Shape(m), m.mem_wb.nop = FALSE
  PROVE  LET n == DM(m)
         IN  n.mem = MemoryAfter(m) /\ n.mem_wb = FromDM(m) /\ n.halt = m.halt
<1> DEFINE n == DM(m)
<1>1. CASE m.ex_mem.nop
  <2>1. n = [m EXCEPT !.mem_wb = NoMEM_WB, !.ex_mem.nop = FALSE]
    BY <1>1 DEF DM
  <2> HIDE DEF n
  <2>2. n.mem = m.mem /\ n.mem_wb = NoMEM_WB /\ n.halt = m.halt
    BY <2>1 DEF Shape
  <2> QED BY <1>1, <2>2 DEF n, MemoryAfter, FromDM
<1>2. CASE ~m.ex_mem.nop /\ m.ex_mem.ctrl.op = "HALT"
  <2>1. n = [m EXCEPT !.mem_wb.ctrl = m.ex_mem.ctrl, !.mem_wb.at = m.ex_mem.at]
    BY <1>2 DEF DM
  <2> HIDE DEF n
  <2>2. /\ n.mem = m.mem /\ n.halt = m.halt
        /\ n.mem_wb = [m.mem_wb EXCEPT !.ctrl = m.ex_mem.ctrl, !.at = m.ex_mem.at]
    BY <2>1 DEF Shape
  <2> DEFINE x == m.ex_mem
             w == m.mem_wb
  <2>3. n.mem_wb = [ctrl |-> x.ctrl, RD |-> w.RD, dest |-> w.dest, alu_result |-> w.alu_result,
                    nop |-> FALSE, re_addr |-> w.re_addr, at |-> x.at]
    BY <2>2 DEF Shape
  <2> QED BY <1>2, <2>2, <2>3 DEF n, MemoryAfter, FromDM
<1>3. CASE ~m.ex_mem.nop /\ m.ex_mem.ctrl.op # "HALT"
  <2> DEFINE x == m.ex_mem
             w == m.mem_wb
             a == x.alu_result
             memory == IF x.ctrl.MemWrite /\ ~x.ctrl.MemRead
                       THEN [m.mem EXCEPT ![a \div 4] = x.WDtoMem] ELSE m.mem
             latch == [ctrl |-> x.ctrl, dest |-> x.dest, alu_result |-> a,
                       RD |-> IF x.ctrl.MemRead /\ ~x.ctrl.MemWrite
                              THEN Loaded(x.ctrl.op, m.mem[a \div 4], a % 4) ELSE w.RD,
                       nop |-> w.nop, at |-> x.at,
                       re_addr |-> IF x.ctrl.op = "JAL" THEN x.re_addr ELSE w.re_addr]
  <2>1. n = [m EXCEPT !.mem = memory, !.mem_wb = latch]
    BY <1>3 DEF DM
  <2>2. memory = MemoryAfter(m) /\ latch = FromDM(m)
    BY <1>3 DEF MemoryAfter, FromDM
  <2> HIDE DEF n, memory, latch
  <2>3. n.mem = memory /\ n.mem_wb = latch /\ n.halt = m.halt
    BY <2>1 DEF Shape
  <2> QED BY <2>2, <2>3 DEF n
<1> QED BY <1>1, <1>2, <1>3

\* EX computes a result, or an address and the word a store leaves there.
LEMMA EXValues ==
  ASSUME NEW m, Shape(m), m.ex_mem.nop = FALSE
  PROVE  LET n == EX(m)
         IN  n.ex_mem = FromEX(m, m.mem) /\ n.mem = m.mem /\ n.halt = m.halt
<1> DEFINE n == EX(m)
<1>1. CASE m.id_ex.nop
  <2>1. n = [m EXCEPT !.ex_mem = NoEX_MEM, !.id_ex.nop = FALSE]
    BY <1>1 DEF EX
  <2> HIDE DEF n
  <2>2. n.mem = m.mem /\ n.ex_mem = NoEX_MEM /\ n.halt = m.halt
    BY <2>1 DEF Shape
  <2> QED BY <1>1, <2>2 DEF n, FromEX
<1>2. CASE ~m.id_ex.nop /\ m.id_ex.ctrl.op = "HALT"
  <2>1. n = [m EXCEPT !.ex_mem.ctrl = m.id_ex.ctrl, !.ex_mem.at = m.id_ex.at]
    BY <1>2 DEF EX
  <2> HIDE DEF n
  <2>2. /\ n.mem = m.mem /\ n.halt = m.halt
        /\ n.ex_mem = [m.ex_mem EXCEPT !.ctrl = m.id_ex.ctrl, !.at = m.id_ex.at]
    BY <2>1 DEF Shape
  <2> DEFINE d == m.id_ex
             x == m.ex_mem
  <2>3. n.ex_mem = [ctrl |-> d.ctrl, alu_result |-> x.alu_result, WDtoMem |-> x.WDtoMem,
                    dest |-> x.dest, nop |-> FALSE, re_addr |-> x.re_addr, at |-> d.at]
    BY <2>2 DEF Shape
  <2> QED BY <1>2, <2>2, <2>3 DEF n, FromEX
<1>3. CASE ~m.id_ex.nop /\ m.id_ex.ctrl.op # "HALT"
  <2> DEFINE d == m.id_ex
             x == m.ex_mem
             r == Result(m)
             latch == [ctrl |-> d.ctrl, alu_result |-> r, nop |-> x.nop, at |-> d.at,
                       dest |-> IF ~d.ctrl.ALUSrc /\ d.ctrl.op \notin Stores
                                THEN Bits15to11(d.instr)
                                ELSE IF d.ctrl.op \in Stores THEN 0 ELSE d.instr.rt,
                       WDtoMem |-> IF d.ctrl.op \in Stores
                                   THEN Merged(d.ctrl.op, m.mem[r \div 4], r % 4, d.RD2)
                                   ELSE x.WDtoMem,
                       re_addr |-> IF d.ctrl.op = "JAL" THEN d.re_addr ELSE x.re_addr]
  <2>1. n = [m EXCEPT !.ex_mem = latch]
    BY <1>3 DEF EX, Result, Input_2
  <2>2. latch = FromEX(m, m.mem)
    BY <1>3 DEF FromEX
  <2> HIDE DEF n, latch
  <2>3. n.mem = m.mem /\ n.ex_mem = latch /\ n.halt = m.halt
    BY <2>1 DEF Shape
  <2> QED BY <2>2, <2>3 DEF n
<1> QED BY <1>1, <1>2, <1>3

\* A branch that leaves ID was predicted wrong.
Mispredicted(m) ==
  /\ ~m.if_id.nop /\ m.if_id.instr # NOP /\ m.if_id.instr.op \in Branches
  /\ Outcome(m) # m.if_id.taken_flag /\ ~StallsHere(m)

\* ID compares the outcome of a branch with its prediction.
LEMMA IDValues ==
  ASSUME NEW m, Shape(m), m.if_id.nop \in BOOLEAN
  PROVE  LET n == ID(m)
             idle == m.if_id.nop \/ m.if_id.instr = NOP
         IN  /\ n.mem = m.mem /\ n.halt = m.halt
             /\ n.correct = IF ~idle /\ m.if_id.instr.op \in Branches
                            THEN Outcome(m) = m.if_id.taken_flag ELSE m.correct
             /\ n.if_id.nop = Mispredicted(m)
<1> DEFINE n == ID(m)
           i == m.if_id.instr
<1>1. CASE m.if_id.nop \/ i = NOP
  <2>1. n = [m EXCEPT !.id_ex = NoID_EX, !.if_id.nop = FALSE]
    BY <1>1 DEF ID
  <2> HIDE DEF n
  <2>2. /\ n.mem = m.mem /\ n.halt = m.halt /\ n.correct = m.correct
        /\ n.if_id = [m.if_id EXCEPT !.nop = FALSE]
    BY <2>1 DEF Shape
  <2>3. n.if_id.nop = FALSE
    BY <2>2 DEF Shape
  <2>4. Mispredicted(m) = FALSE
    BY <1>1 DEF Mispredicted
  <2>5. n.if_id.nop = Mispredicted(m)
    BY <2>3, <2>4
  <2> QED BY <1>1, <2>2, <2>5 DEF n
<1>2. CASE ~(m.if_id.nop \/ i = NOP)
  <2> DEFINE right == Outcome(m) = m.if_id.taken_flag
             stall == StallsHere(m)
             e == ToEX(m)
             c == Lines(m)
             wrong == i.op \in Branches /\ ~right /\ ~stall
             correct == IF i.op \in Branches THEN right ELSE m.correct
  <2>1. n = [m EXCEPT !.id_ex = e, !.control = c, !.if_nop = @ \/ stall,
               !.id_stall  = @ \/ stall,
               !.correct   = correct,
               !.if_id.nop = @ \/ wrong]
    BY <1>2 DEF ID
  <2>2. Mispredicted(m) = wrong
    BY <1>2 DEF Mispredicted
  <2> HIDE DEF n, e, c, stall, correct, wrong
  <2>3. /\ n.mem = m.mem /\ n.halt = m.halt /\ n.correct = correct
        /\ n.if_id = [m.if_id EXCEPT !.nop = @ \/ wrong]
    BY <2>1 DEF Shape
  <2>4. n.if_id.nop = (m.if_id.nop \/ wrong)
    BY <2>3 DEF Shape
  <2>5. n.if_id.nop = wrong
    BY <1>2, <2>4 DEF wrong
  <2> QED BY <1>2, <2>2, <2>3, <2>5 DEF n, correct
<1> QED BY <1>1, <1>2

\* What IF leaves in if_id.
FromIF(m, stays) ==
  LET d == m.if_id
      i == code[m.PC]
      index == m.PC % BHTSize
      taken == m.BHT[index] \in {2, 3}
  IN  IF stays
      THEN [instr |-> d.instr, PC |-> m.PC, nop |-> d.nop, branch_no_PC |-> d.branch_no_PC,
            taken_flag |-> d.taken_flag, taken |-> d.taken, index |-> d.index, at |-> d.at]
      ELSE IF i.op \notin Branches
      THEN [instr |-> i, PC |-> m.PC + 1, nop |-> d.nop, branch_no_PC |-> d.branch_no_PC,
            taken_flag |-> d.taken_flag, taken |-> d.taken, index |-> d.index, at |-> m.PC]
      ELSE [instr |-> i, PC |-> IF taken THEN Target(m.PC, i) ELSE m.PC + 1, nop |-> d.nop,
            branch_no_PC |-> IF taken THEN m.PC + 1 ELSE Target(m.PC, i),
            taken_flag |-> taken, taken |-> m.BHT[index], index |-> index, at |-> m.PC]

\* IF takes the next PC of a branch from its counter.
LEMMA IFValues ==
  ASSUME NEW m, Shape(m)
  PROVE  LET n == IFetch(m)
         IN  n.if_id = FromIF(m, m.if_nop) /\ n.mem = m.mem /\ n.halt = m.halt
<1> DEFINE n == IFetch(m)
           i == code[m.PC]
           index == m.PC % BHTSize
           taken == m.BHT[index] \in {2, 3}
           d == m.if_id
<1>1. CASE m.if_nop
  <2>1. n = [m EXCEPT !.if_id.PC = m.PC, !.if_nop = FALSE]
    BY <1>1 DEF IFetch
  <2> HIDE DEF n
  <2>2. n.mem = m.mem /\ n.halt = m.halt /\ n.if_id = [m.if_id EXCEPT !.PC = m.PC]
    BY <2>1 DEF Shape
  <2>3. n.if_id = [instr |-> d.instr, PC |-> m.PC, nop |-> d.nop,
                   branch_no_PC |-> d.branch_no_PC, taken_flag |-> d.taken_flag,
                   taken |-> d.taken, index |-> d.index, at |-> d.at]
    BY <2>2 DEF Shape
  <2> QED BY <1>1, <2>2, <2>3 DEF n, FromIF
<1>2. CASE ~m.if_nop
  <2> DEFINE fetched == [m.if_id EXCEPT !.instr = i, !.PC = m.PC + 1, !.at = m.PC]
  <2>1. fetched = [instr |-> i, PC |-> m.PC + 1, nop |-> d.nop,
                   branch_no_PC |-> d.branch_no_PC, taken_flag |-> d.taken_flag,
                   taken |-> d.taken, index |-> d.index, at |-> m.PC]
    <3> DEFINE p == m.PC + 1
               q == m.PC
    <3>1. fetched = [m.if_id EXCEPT !.instr = i, !.PC = p, !.at = q]
      OBVIOUS
    <3>2. m.if_id = [instr |-> m.if_id.instr, PC |-> m.if_id.PC, nop |-> m.if_id.nop,
                     branch_no_PC |-> m.if_id.branch_no_PC,
                     taken_flag |-> m.if_id.taken_flag, taken |-> m.if_id.taken,
                     index |-> m.if_id.index, at |-> m.if_id.at]
      BY DEF Shape
    <3> HIDE DEF i, p, q, fetched
    <3>3. fetched = [instr |-> i, PC |-> p, nop |-> d.nop,
                     branch_no_PC |-> d.branch_no_PC, taken_flag |-> d.taken_flag,
                     taken |-> d.taken, index |-> d.index, at |-> q]
      BY <3>1, <3>2
    <3> QED BY <3>3 DEF p, q
  <2> HIDE DEF fetched
  <2>2. CASE i.op \notin Branches
    <3>1. n = [m EXCEPT !.if_id = fetched]
      BY <1>2, <2>2 DEF IFetch, fetched
    <3> HIDE DEF n
    <3>2. n.if_id = fetched /\ n.mem = m.mem /\ n.halt = m.halt
      BY <3>1 DEF Shape
    <3>3. fetched = FromIF(m, m.if_nop)
      BY <1>2, <2>1, <2>2 DEF FromIF
    <3> QED BY <3>2, <3>3 DEF n
  <2>3. CASE i.op \in Branches
    <3> DEFINE nextPC == IF taken THEN Target(m.PC, i) ELSE m.PC + 1
               otherPC == IF taken THEN m.PC + 1 ELSE Target(m.PC, i)
               counter == m.BHT[index]
               branch == [fetched EXCEPT !.PC = nextPC, !.branch_no_PC = otherPC,
                            !.taken_flag = taken, !.taken = counter, !.index = index]
    <3>1. n = [m EXCEPT !.if_id = branch]
      BY <1>2, <2>3 DEF IFetch, fetched
    <3>2. branch = [instr |-> i, PC |-> nextPC, nop |-> d.nop, branch_no_PC |-> otherPC,
                    taken_flag |-> taken, taken |-> counter, index |-> index, at |-> m.PC]
      <4>1. branch = [fetched EXCEPT !.PC = nextPC, !.branch_no_PC = otherPC,
                        !.taken_flag = taken, !.taken = counter, !.index = index]
        OBVIOUS
      <4> HIDE DEF branch, nextPC, otherPC, counter, index, taken, i
      <4> QED BY <2>1, <4>1
    <3>3. branch = FromIF(m, m.if_nop)
      <4> HIDE DEF branch
      <4> QED BY <1>2, <2>3, <3>2 DEF FromIF
    <3> HIDE DEF n, branch
    <3>4. n.if_id = branch /\ n.mem = m.mem /\ n.halt = m.halt
      BY <3>1 DEF Shape
    <3> QED BY <3>3, <3>4 DEF n
  <2> QED BY <2>2, <2>3
<1> QED BY <1>1, <1>2

\* The next PC.
PCAfter(m) ==
  IF m.id_ex.ctrl.jump /\ ~m.id_stall THEN m.id_ex.jump_PC
  ELSE IF m.id_ex.ctrl.branch /\ ~m.correct /\ ~m.id_stall THEN m.id_ex.branch_no_PC
  ELSE m.if_id.PC

\* The end of a turn picks the next PC.
LEMMA EndValues ==
  ASSUME NEW m, Shape(m)
  PROVE  LET n == NextPC(BranchState(m))
         IN  /\ n.PC = PCAfter(m) /\ n.mem = m.mem /\ n.halt = m.halt /\ n.correct = m.correct
             /\ n.id_ex.taken = IF ~m.id_stall /\ m.id_ex.ctrl.op \in Branches
                                THEN Step(m.id_ex.taken, m.id_ex.branch) ELSE m.id_ex.taken
<1> DEFINE s == BranchState(m)
           n == NextPC(s)
           e == m.id_ex
           next == Step(e.taken, e.branch)
<1> HIDE DEF next
<1>1. /\ Shape(s) /\ s.if_id = m.if_id /\ s.mem = m.mem /\ s.halt = m.halt
      /\ s.id_stall = m.id_stall /\ s.correct = m.correct
      /\ s.id_ex.ctrl = e.ctrl /\ s.id_ex.jump_PC = e.jump_PC
      /\ s.id_ex.branch_no_PC = e.branch_no_PC
      /\ s.id_ex.taken = IF ~m.id_stall /\ e.ctrl.op \in Branches THEN next ELSE e.taken
  <2>1. CASE m.id_stall \/ e.ctrl.op \notin Branches
    <3>1. s = m
      BY <2>1 DEF BranchState
    <3> QED BY <2>1, <3>1
  <2>2. CASE ~(m.id_stall \/ e.ctrl.op \notin Branches)
    <3> DEFINE table == [m.BHT EXCEPT ![e.index] = next]
    <3>1. s = [m EXCEPT !.BHT = table, !.id_ex.taken = next]
      BY <2>2 DEF BranchState, next, Shape
    <3> HIDE DEF table, s
    <3>2. /\ s.if_id = m.if_id /\ s.mem = m.mem /\ s.halt = m.halt
          /\ s.id_stall = m.id_stall /\ s.correct = m.correct
          /\ s.id_ex = [e EXCEPT !.taken = next]
      BY <3>1 DEF Shape
    <3>3. /\ s.id_ex.taken = next /\ s.id_ex.ctrl = e.ctrl
          /\ s.id_ex.jump_PC = e.jump_PC /\ s.id_ex.branch_no_PC = e.branch_no_PC
      BY <3>2 DEF Shape
    <3>4. Shape(s)
      BY <3>1 DEF Shape
    <3> QED BY <2>2, <3>2, <3>3, <3>4
  <2> QED BY <2>1, <2>2
<1> HIDE DEF s
<1>2. PCAfter(m) = PCAfter(s)
  BY <1>1 DEF PCAfter
<1>3. n = [s EXCEPT !.PC = PCAfter(s), !.if_id.nop = TRUE] \/ n = [s EXCEPT !.PC = PCAfter(s)]
  BY DEF NextPC, PCAfter
<1> DEFINE p == PCAfter(s)
<1> HIDE DEF n, p
<1>4. n = [s EXCEPT !.PC = p, !.if_id.nop = TRUE] \/ n = [s EXCEPT !.PC = p]
  BY <1>3 DEF p
<1>5. n.PC = p /\ n.mem = s.mem /\ n.halt = s.halt /\ n.correct = s.correct /\ n.id_ex = s.id_ex
  BY <1>1, <1>4, ZenonT(40) DEF Shape
<1> QED BY <1>1, <1>2, <1>5 DEF n, p, s, next

\* The machine between EX and ID.
AfterEX == EX(DM(WB([cpu EXCEPT !.id_stall = FALSE])))

\* ID sends back what IF fetches behind a jump or a branch predicted wrong.
Flushes ==
  /\ ~Idle /\ ~Stays
  /\ InIF_ID.op \in Jumps \/ (InIF_ID.op \in Branches /\ Outcome(AfterEX) # cpu.if_id.taken_flag)

BackValues ==
  /\ cpu'.reg = RegistersAfter(cpu) /\ cpu'.mem = MemoryAfter(cpu)
  /\ cpu'.halt = IF ~cpu.mem_wb.nop /\ cpu.mem_wb.ctrl.op = "HALT" THEN TRUE ELSE cpu.halt
  /\ cpu'.mem_wb = FromDM(cpu) /\ cpu'.ex_mem = FromEX(cpu, cpu'.mem)

\* ID finds the latches as EX and DM leave them, the registers as WB does.
InputsOfID ==
  LET b == AfterEX
  IN  /\ b.reg = cpu'.reg /\ b.ex_mem = cpu'.ex_mem /\ b.mem_wb = cpu'.mem_wb
      /\ b.if_id = cpu.if_id /\ b.control = cpu.control /\ b.correct = cpu.correct
      /\ b.id_ex = [cpu.id_ex EXCEPT !.nop = FALSE]
      /\ Lines(b) = NewLines /\ StallsHere(b) = Stalls(b.ex_mem, b.mem_wb, InIF_ID, NewLines)

FrontValues ==
  /\ cpu'.id_ex = [IF Idle THEN NoID_EX ELSE ToEX(AfterEX) EXCEPT !.taken =
                     IF ~Idle /\ ~Stays /\ InIF_ID.op \in Branches
                     THEN Step(cpu.if_id.taken, Outcome(AfterEX)) ELSE @]
  /\ cpu'.if_id = [FromIF(cpu, Stays) EXCEPT !.nop = Flushes]
  /\ cpu'.PC = IF ~Flushes THEN cpu'.if_id.PC
               ELSE IF InIF_ID.op \in Jumps THEN cpu'.id_ex.jump_PC
               ELSE cpu'.id_ex.branch_no_PC
  /\ cpu'.correct \in {cpu.correct, Outcome(AfterEX) = cpu.if_id.taken_flag}

\* What a turn makes of every value.
LEMMA Values ==
  ASSUME Flags, Cycle
  PROVE  BackValues /\ InputsOfID /\ FrontValues
<1> DEFINE m0 == [cpu EXCEPT !.id_stall = FALSE]
           m1 == WB(m0)
           m2 == DM(m1)
           b  == EX(m2)
           f  == ID(b)
           g  == IFetch(f)
           n  == NextPC(BranchState(g))
<1>1. cpu' = n /\ AfterEX = b
  BY DEF Cycle, AfterEX
<1>2. Idle \in BOOLEAN /\ Stays \in BOOLEAN /\ Flags' /\ MovesToEX
  BY Turn DEF Idle, Stays, Flags
<1> HIDE DEF m0, m1, m2, b, f, g, n
<1>3. /\ Shape(m0) /\ m0.id_stall = FALSE /\ m0.if_nop = FALSE /\ m0.PC = cpu.PC
      /\ m0.if_id = cpu.if_id /\ m0.id_ex = cpu.id_ex /\ m0.ex_mem = cpu.ex_mem
      /\ m0.mem_wb = cpu.mem_wb /\ m0.control = cpu.control /\ m0.BHT = cpu.BHT
      /\ m0.reg = cpu.reg /\ m0.mem = cpu.mem /\ m0.halt = cpu.halt /\ m0.correct = cpu.correct
  <2>1. Shape(cpu) /\ m0 = [cpu EXCEPT !.id_stall = FALSE] /\ cpu.if_nop = FALSE
    BY DEF Flags, m0
  <2>2. /\ m0.id_stall = FALSE /\ m0.if_nop = FALSE /\ m0.PC = cpu.PC
        /\ m0.if_id = cpu.if_id /\ m0.id_ex = cpu.id_ex /\ m0.ex_mem = cpu.ex_mem
        /\ m0.mem_wb = cpu.mem_wb /\ m0.control = cpu.control /\ m0.BHT = cpu.BHT
        /\ m0.reg = cpu.reg /\ m0.mem = cpu.mem /\ m0.halt = cpu.halt
        /\ m0.correct = cpu.correct
    BY <2>1 DEF Shape
  <2>3. Shape(m0)
    BY <2>1 DEF Shape
  <2> QED BY <2>2, <2>3
<1>4. /\ Shape(m1) /\ m1.id_stall = FALSE /\ m1.if_nop = FALSE /\ m1.PC = cpu.PC
      /\ m1.if_id = cpu.if_id /\ m1.id_ex = cpu.id_ex /\ m1.ex_mem = cpu.ex_mem
      /\ m1.mem_wb.nop = FALSE /\ m1.control = cpu.control /\ m1.BHT = cpu.BHT
      /\ m1.correct = cpu.correct
  BY <1>3, WBStage DEF Flags, m1
<1>5. /\ m1.reg = RegistersAfter(m0) /\ m1.mem = cpu.mem
      /\ m1.halt = IF ~cpu.mem_wb.nop /\ cpu.mem_wb.ctrl.op = "HALT" THEN TRUE ELSE cpu.halt
      /\ m1.mem_wb = [cpu.mem_wb EXCEPT !.nop = m1.mem_wb.nop]
  <2>1. /\ m1.reg = RegistersAfter(m0) /\ m1.mem = m0.mem
        /\ m1.halt = IF ~m0.mem_wb.nop /\ m0.mem_wb.ctrl.op = "HALT" THEN TRUE ELSE m0.halt
        /\ m1.mem_wb = [m0.mem_wb EXCEPT !.nop = m1.mem_wb.nop]
    BY <1>3, WBValues DEF m1
  <2> QED BY <1>3, <2>1
<1>6. m1.mem_wb = [cpu.mem_wb EXCEPT !.nop = FALSE] /\ RegistersAfter(m0) = RegistersAfter(cpu)
  BY <1>3, <1>4, <1>5 DEF RegistersAfter
<1>7. /\ Shape(m2) /\ m2.id_stall = FALSE /\ m2.if_nop = FALSE /\ m2.PC = cpu.PC
      /\ m2.if_id = cpu.if_id /\ m2.id_ex = cpu.id_ex /\ m2.reg = m1.reg
      /\ m2.ex_mem = [cpu.ex_mem EXCEPT !.nop = FALSE]
      /\ m2.control = cpu.control /\ m2.BHT = cpu.BHT /\ m2.correct = cpu.correct
  <2>1. m1.ex_mem.nop \in BOOLEAN
    BY <1>4 DEF Flags
  <2>2. /\ Shape(m2) /\ m2.id_stall = m1.id_stall /\ m2.if_nop = m1.if_nop /\ m2.PC = m1.PC
        /\ m2.if_id = m1.if_id /\ m2.id_ex = m1.id_ex /\ m2.reg = m1.reg
        /\ m2.ex_mem = [m1.ex_mem EXCEPT !.nop = FALSE]
        /\ m2.control = m1.control /\ m2.BHT = m1.BHT /\ m2.correct = m1.correct
    BY <1>4, <2>1, DMStage DEF m2
  <2> QED BY <1>4, <2>2
<1>8. m2.mem = MemoryAfter(m1) /\ m2.mem_wb = FromDM(m1) /\ m2.halt = m1.halt
  BY <1>4, DMValues DEF m2
<1>9. MemoryAfter(m1) = MemoryAfter(cpu) /\ FromDM(m1) = FromDM(cpu)
  <2>1. /\ m1.mem_wb.RD = cpu.mem_wb.RD /\ m1.mem_wb.dest = cpu.mem_wb.dest
        /\ m1.mem_wb.alu_result = cpu.mem_wb.alu_result
        /\ m1.mem_wb.re_addr = cpu.mem_wb.re_addr
    BY <1>6 DEF Flags, Shape
  <2> QED BY <1>4, <1>5, <2>1 DEF MemoryAfter, FromDM
<1>10. m2.ex_mem.nop = FALSE
  BY <1>7 DEF Flags, Shape
<1>11. /\ Shape(b) /\ b.id_stall = FALSE /\ b.if_nop = FALSE /\ b.PC = cpu.PC
       /\ b.if_id = cpu.if_id /\ b.id_ex = [cpu.id_ex EXCEPT !.nop = FALSE]
       /\ b.mem_wb = m2.mem_wb /\ b.reg = m2.reg
       /\ b.control = cpu.control /\ b.BHT = cpu.BHT /\ b.correct = cpu.correct
  <2>1. m2.id_ex.nop \in BOOLEAN
    BY <1>7 DEF Flags
  <2>2. /\ Shape(b) /\ b.id_stall = m2.id_stall /\ b.if_nop = m2.if_nop /\ b.PC = m2.PC
        /\ b.if_id = m2.if_id /\ b.id_ex = [m2.id_ex EXCEPT !.nop = FALSE]
        /\ b.mem_wb = m2.mem_wb /\ b.reg = m2.reg
        /\ b.control = m2.control /\ b.BHT = m2.BHT /\ b.correct = m2.correct
    BY <1>7, <1>10, <2>1, EXStage DEF b
  <2> QED BY <1>7, <2>2
<1>12. b.ex_mem = FromEX(m2, m2.mem) /\ b.mem = m2.mem /\ b.halt = m2.halt
  BY <1>7, <1>10, EXValues DEF b
<1>13. FromEX(m2, m2.mem) = FromEX(cpu, m2.mem)
  <2>1. /\ m2.ex_mem.alu_result = cpu.ex_mem.alu_result
        /\ m2.ex_mem.WDtoMem = cpu.ex_mem.WDtoMem /\ m2.ex_mem.dest = cpu.ex_mem.dest
        /\ m2.ex_mem.re_addr = cpu.ex_mem.re_addr
    BY <1>7 DEF Flags, Shape
  <2>2. Result(m2) = Result(cpu)
    BY <1>7, <2>1 DEF Result
  <2> QED BY <1>7, <2>1, <2>2 DEF FromEX
<1>14. /\ Lines(b) = NewLines
       /\ StallsHere(b) = Stalls(b.ex_mem, b.mem_wb, InIF_ID, NewLines)
       /\ StallsHere(b) \in BOOLEAN
       /\ Idle = (b.if_id.nop \/ b.if_id.instr = NOP) /\ b.if_id.instr = InIF_ID
  BY <1>11 DEF Lines, StallsHere, InIF_ID, NewLines, Stalls, Idle
<1>15. /\ Shape(f) /\ f.PC = cpu.PC /\ f.ex_mem = b.ex_mem /\ f.mem_wb = b.mem_wb
       /\ f.reg = b.reg /\ f.BHT = cpu.BHT
       /\ f.if_id = [cpu.if_id EXCEPT !.nop = f.if_id.nop]
       /\ f.id_ex = IF Idle THEN NoID_EX ELSE ToEX(b)
       /\ f.if_nop = (~Idle /\ StallsHere(b)) /\ f.id_stall = (~Idle /\ StallsHere(b))
  <2>1. b.if_id.nop \in BOOLEAN /\ b.id_stall = FALSE /\ b.if_nop = FALSE
    BY <1>11 DEF Flags
  <2> QED BY <1>2, <1>11, <1>14, <2>1, IDStage DEF f
<1>16. /\ f.mem = b.mem /\ f.halt = b.halt
       /\ f.correct = IF ~Idle /\ InIF_ID.op \in Branches
                      THEN Outcome(b) = cpu.if_id.taken_flag ELSE cpu.correct
       /\ f.if_id.nop = Mispredicted(b)
  <2>1. b.if_id.nop \in BOOLEAN
    BY <1>11 DEF Flags
  <2> QED BY <1>11, <1>14, <2>1, IDValues, ZenonT(40) DEF f
<1>17. /\ Shape(g) /\ g.id_ex = f.id_ex /\ g.ex_mem = f.ex_mem /\ g.mem_wb = f.mem_wb
       /\ g.reg = f.reg /\ g.id_stall = f.id_stall /\ g.correct = f.correct
       /\ g.if_id.nop = f.if_id.nop
  BY <1>14, <1>15, IFStage DEF g
<1>18. g.if_id = FromIF(f, f.if_nop) /\ g.mem = f.mem /\ g.halt = f.halt
  BY <1>15, IFValues DEF g
<1>19. /\ n.ex_mem = g.ex_mem /\ n.mem_wb = g.mem_wb /\ n.reg = g.reg
       /\ n.id_stall = g.id_stall
       /\ n.id_ex = [g.id_ex EXCEPT !.taken = n.id_ex.taken]
       /\ n.if_id = [g.if_id EXCEPT !.nop = n.if_id.nop]
       /\ n.if_id.nop = IF g.id_ex.ctrl.jump /\ ~g.id_stall THEN TRUE ELSE g.if_id.nop
  <2>1. g.id_stall \in BOOLEAN
    BY <1>2, <1>14, <1>15, <1>17
  <2> QED BY <1>17, <2>1, EndOfTurn DEF n
<1>20. /\ n.PC = PCAfter(g) /\ n.mem = g.mem /\ n.halt = g.halt /\ n.correct = g.correct
       /\ n.id_ex.taken = IF ~g.id_stall /\ g.id_ex.ctrl.op \in Branches
                          THEN Step(g.id_ex.taken, g.id_ex.branch) ELSE g.id_ex.taken
  BY <1>17, EndValues DEF n
<1>21. Stays = (~Idle /\ StallsHere(b))
  BY <1>1, <1>14, <1>15, <1>17, <1>19 DEF Stays
<1>22. BackValues
  <2>1. n.mem = m2.mem /\ n.halt = m2.halt /\ n.reg = m1.reg /\ n.mem_wb = m2.mem_wb
        /\ n.ex_mem = b.ex_mem
    BY <1>7, <1>11, <1>12, <1>15, <1>16, <1>17, <1>18, <1>19, <1>20
  <2> QED BY <1>1, <1>5, <1>6, <1>8, <1>9, <1>12, <1>13, <2>1 DEF BackValues
<1>23. InputsOfID
  BY <1>1, <1>11, <1>14, <1>15, <1>17, <1>19 DEF InputsOfID
<1> DEFINE wrong == Outcome(b) # cpu.if_id.taken_flag
<1>24. /\ Mispredicted(b) <=> ~Idle /\ InIF_ID.op \in Branches /\ wrong /\ ~Stays
       /\ Flushes <=> ~Idle /\ ~Stays
                        /\ (InIF_ID.op \in Jumps \/ (InIF_ID.op \in Branches /\ wrong))
  BY <1>1, <1>11, <1>14, <1>21 DEF Mispredicted, Flushes
<1>25. g.id_ex.ctrl = (IF Idle THEN NoControl ELSE NewLines) /\ g.id_stall = Stays
  BY <1>14, <1>15, <1>17, <1>21 DEF NoID_EX, ToEX
<1>26. LinesOf(NewLines, InIF_ID.op)
  BY Decoded DEF NewLines, Flags, Shape
<1>27. /\ NewLines.jump <=> InIF_ID.op \in Jumps
       /\ InIF_ID.op \notin Jumps => (NewLines.branch <=> InIF_ID.op \in Branches)
       /\ NewLines.op = InIF_ID.op
       /\ InIF_ID.op \in Branches => InIF_ID.op \notin Jumps
  BY <1>26 DEF LinesOf, Jumps, Branches
<1>28. ~NoControl.jump /\ ~NoControl.branch /\ NoControl.op \notin Branches
  BY DEF NoControl, NOP, Branches
<1> HIDE DEF Idle, Stays, NewLines, InIF_ID, wrong
<1>29. /\ g.id_ex.ctrl.jump /\ ~g.id_stall <=> ~Idle /\ ~Stays /\ InIF_ID.op \in Jumps
       /\ Flushes <=> (g.id_ex.ctrl.jump /\ ~g.id_stall) \/ Mispredicted(b)
  BY <1>2, <1>24, <1>25, <1>27, <1>28
<1>30. n.if_id.nop = Flushes
  <2>1. Mispredicted(b) \in BOOLEAN /\ Flushes \in BOOLEAN /\ g.if_id.nop = Mispredicted(b)
    BY <1>16, <1>17 DEF Mispredicted, Flushes
  <2>2. CASE g.id_ex.ctrl.jump /\ ~g.id_stall
    BY <1>19, <1>29, <2>1, <2>2
  <2>3. CASE ~(g.id_ex.ctrl.jump /\ ~g.id_stall)
    BY <1>19, <1>29, <2>1, <2>3
  <2> QED BY <2>2, <2>3
<1>31. n.if_id = [FromIF(cpu, Stays) EXCEPT !.nop = Flushes]
  <2>1. /\ f.if_id.branch_no_PC = cpu.if_id.branch_no_PC /\ f.if_id.instr = cpu.if_id.instr
        /\ f.if_id.taken_flag = cpu.if_id.taken_flag /\ f.if_id.taken = cpu.if_id.taken
        /\ f.if_id.index = cpu.if_id.index /\ f.if_id.at = cpu.if_id.at
    BY <1>15 DEF Flags, Shape
  <2>2. f.if_nop = Stays
    BY <1>15, <1>21
  <2> DEFINE F == FromIF(cpu, Stays)
  <2>3. FromIF(f, f.if_nop) = [F EXCEPT !.nop = f.if_id.nop]
    BY <1>15, <2>1, <2>2 DEF FromIF
  <2>4. \A x, y : [[F EXCEPT !.nop = x] EXCEPT !.nop = y] = [F EXCEPT !.nop = y]
    <3> HIDE DEF F
    <3> QED OBVIOUS
  <2> HIDE DEF F
  <2>5. n.if_id = [g.if_id EXCEPT !.nop = Flushes]
    BY <1>19, <1>30
  <2>6. g.if_id = [F EXCEPT !.nop = f.if_id.nop]
    BY <1>18, <2>3
  <2>7. n.if_id = [[F EXCEPT !.nop = f.if_id.nop] EXCEPT !.nop = Flushes]
    BY <2>5, <2>6
  <2>8. n.if_id = [F EXCEPT !.nop = Flushes]
    BY <2>4, <2>7
  <2> QED BY <2>8 DEF F
<1>32. n.id_ex = [IF Idle THEN NoID_EX ELSE ToEX(b) EXCEPT !.taken =
                    IF ~Idle /\ ~Stays /\ InIF_ID.op \in Branches
                    THEN Step(cpu.if_id.taken, Outcome(b)) ELSE @]
  <2>1. g.id_ex = IF Idle THEN NoID_EX ELSE ToEX(b)
    BY <1>15, <1>17
  <2>2. n.id_ex = [g.id_ex EXCEPT !.taken = n.id_ex.taken]
    BY <1>19
  <2>3. CASE ~Idle /\ ~Stays /\ InIF_ID.op \in Branches
    <3>1. n.id_ex.taken = Step(g.id_ex.taken, g.id_ex.branch)
      BY <1>20, <1>25, <1>27, <2>3
    <3>2. g.id_ex.taken = cpu.if_id.taken /\ g.id_ex.branch = Outcome(b)
      BY <1>11, <1>14, <2>1, <2>3 DEF ToEX
    <3> QED BY <2>1, <2>2, <2>3, <3>1, <3>2
  <2>4. CASE ~(~Idle /\ ~Stays /\ InIF_ID.op \in Branches)
    <3>1. n.id_ex.taken = g.id_ex.taken
      BY <1>2, <1>20, <1>25, <1>27, <1>28, <2>4
    <3> QED BY <2>1, <2>2, <2>4, <3>1
  <2> QED BY <2>3, <2>4
<1>33. n.PC = IF ~Flushes THEN n.if_id.PC
              ELSE IF InIF_ID.op \in Jumps THEN n.id_ex.jump_PC ELSE n.id_ex.branch_no_PC
  <2>1. /\ n.if_id.PC = g.if_id.PC /\ n.id_ex.jump_PC = g.id_ex.jump_PC
        /\ n.id_ex.branch_no_PC = g.id_ex.branch_no_PC
    BY <1>17, <1>19 DEF Shape
  <2>2. CASE ~Flushes
    <3>1. ~(g.id_ex.ctrl.jump /\ ~g.id_stall)
      BY <1>29, <2>2
    <3>2. ~(g.id_ex.ctrl.branch /\ ~g.correct /\ ~g.id_stall)
      <4>1. CASE Idle \/ Stays
        BY <1>2, <1>25, <1>28, <4>1
      <4>2. CASE ~Idle /\ ~Stays
        <5>1. InIF_ID.op \notin Jumps /\ ~(InIF_ID.op \in Branches /\ wrong)
          BY <1>24, <2>2, <4>2
        <5>2. CASE InIF_ID.op \in Branches
          BY <1>16, <1>17, <4>2, <5>1, <5>2 DEF wrong
        <5>3. CASE InIF_ID.op \notin Branches
          BY <1>25, <1>27, <4>2, <5>1, <5>3
        <5> QED BY <5>2, <5>3
      <4> QED BY <4>1, <4>2
    <3> QED BY <1>20, <2>1, <2>2, <3>1, <3>2 DEF PCAfter
  <2>3. CASE Flushes /\ InIF_ID.op \in Jumps
    <3>1. g.id_ex.ctrl.jump /\ ~g.id_stall
      BY <1>24, <1>29, <2>3
    <3> QED BY <1>20, <2>1, <2>3, <3>1 DEF PCAfter
  <2>4. CASE Flushes /\ InIF_ID.op \notin Jumps
    <3>1. ~Idle /\ ~Stays /\ InIF_ID.op \in Branches /\ wrong
      BY <1>24, <2>4
    <3>2. ~(g.id_ex.ctrl.jump /\ ~g.id_stall)
      BY <1>29, <2>4
    <3>3. g.id_ex.ctrl.branch /\ ~g.correct /\ ~g.id_stall
      BY <1>2, <1>16, <1>17, <1>25, <1>27, <2>4, <3>1 DEF wrong
    <3> QED BY <1>20, <2>1, <2>4, <3>2, <3>3 DEF PCAfter
  <2> QED BY <2>2, <2>3, <2>4
<1>34. n.correct \in {cpu.correct, Outcome(b) = cpu.if_id.taken_flag}
  BY <1>16, <1>17, <1>20
<1>35. FrontValues
  BY <1>1, <1>30, <1>31, <1>32, <1>33, <1>34 DEF FrontValues
<1> QED BY <1>22, <1>23, <1>35

-----------------------------------------------------------------------------
(* Types.                                                                  *)

\* Project2.docx: programs make no misaligned access.
Aligned ==
  LET x == cpu.ex_mem
  IN  ~x.nop /\ x.ctrl.op \in Loads \cup Stores =>
        x.alu_result % (Further(x.ctrl.op) + 1) = 0

\* What the code guarantees of an instruction: it comes from the program.
FromCode ==
  /\ code \in Programs
  /\ ~cpu.if_id.nop => cpu.if_id.instr = code[cpu.if_id.at]
  /\ ~cpu.id_ex.nop => /\ cpu.id_ex.instr = code[cpu.id_ex.at]
                       /\ cpu.id_ex.instr.op \in Shifts =>
                            cpu.id_ex.RD1 = cpu.id_ex.instr.imm

TypeInv == Flags /\ BackLines /\ TypeOK /\ FromCode

\* TypeOK, field by field.
LEMMA Fields ==
  ASSUME TypeOK
  PROVE  /\ cpu.if_id.instr \in Instr /\ cpu.if_id.PC \in 0 .. CodeWords
         /\ cpu.if_id.at \in Address /\ cpu.if_id.branch_no_PC \in 0 .. CodeWords
         /\ cpu.if_id.taken_flag \in BOOLEAN /\ cpu.if_id.taken \in 0 .. 3
         /\ cpu.if_id.index \in 0 .. BHTSize - 1
         /\ cpu.id_ex.ctrl \in Control /\ cpu.id_ex.instr \in Instr
         /\ cpu.id_ex.RD1 \in Word /\ cpu.id_ex.RD2 \in Word /\ cpu.id_ex.jump_PC \in Word
         /\ cpu.id_ex.branch \in BOOLEAN /\ cpu.id_ex.re_addr \in Word
         /\ cpu.id_ex.taken_flag \in BOOLEAN /\ cpu.id_ex.branch_no_PC \in 0 .. CodeWords
         /\ cpu.id_ex.taken \in 0 .. 3 /\ cpu.id_ex.index \in 0 .. BHTSize - 1
         /\ cpu.id_ex.at \in Address
         /\ cpu.ex_mem.ctrl \in Control /\ cpu.ex_mem.alu_result \in Word
         /\ cpu.ex_mem.WDtoMem \in Word /\ cpu.ex_mem.dest \in Reg
         /\ cpu.ex_mem.re_addr \in Word /\ cpu.ex_mem.at \in Address
         /\ cpu.mem_wb.ctrl \in Control /\ cpu.mem_wb.RD \in Word /\ cpu.mem_wb.dest \in Reg
         /\ cpu.mem_wb.alu_result \in Word /\ cpu.mem_wb.re_addr \in Word
         /\ cpu.mem_wb.at \in Address
<1> USE DEF TypeOK
<1>1. /\ cpu.if_id.instr \in Instr /\ cpu.if_id.PC \in 0 .. CodeWords
      /\ cpu.if_id.at \in Address /\ cpu.if_id.branch_no_PC \in 0 .. CodeWords
      /\ cpu.if_id.taken_flag \in BOOLEAN /\ cpu.if_id.taken \in 0 .. 3
      /\ cpu.if_id.index \in 0 .. BHTSize - 1
  OBVIOUS
<1>2. /\ cpu.id_ex.ctrl \in Control /\ cpu.id_ex.instr \in Instr
      /\ cpu.id_ex.RD1 \in Word /\ cpu.id_ex.RD2 \in Word /\ cpu.id_ex.jump_PC \in Word
      /\ cpu.id_ex.branch \in BOOLEAN /\ cpu.id_ex.re_addr \in Word
      /\ cpu.id_ex.taken_flag \in BOOLEAN /\ cpu.id_ex.branch_no_PC \in 0 .. CodeWords
      /\ cpu.id_ex.taken \in 0 .. 3 /\ cpu.id_ex.index \in 0 .. BHTSize - 1
      /\ cpu.id_ex.at \in Address
  OBVIOUS
<1>3. /\ cpu.ex_mem.ctrl \in Control /\ cpu.ex_mem.alu_result \in Word
      /\ cpu.ex_mem.WDtoMem \in Word /\ cpu.ex_mem.dest \in Reg
      /\ cpu.ex_mem.re_addr \in Word /\ cpu.ex_mem.at \in Address
  OBVIOUS
<1>4. /\ cpu.mem_wb.ctrl \in Control /\ cpu.mem_wb.RD \in Word /\ cpu.mem_wb.dest \in Reg
      /\ cpu.mem_wb.alu_result \in Word /\ cpu.mem_wb.re_addr \in Word
      /\ cpu.mem_wb.at \in Address
  OBVIOUS
<1> QED BY <1>1, <1>2, <1>3, <1>4

\* Zero, the rest of a word, and the word an address is in.
LEMMA Zero ==
  /\ 0 \in Word /\ 0 \in Reg /\ 31 \in Reg /\ 0 \in Address /\ 0 \in 0 .. CodeWords
  /\ 0 \in 0 .. BHTSize - 1 /\ CodeWords \in Nat \ {0} /\ BHTSize \in Nat \ {0}
  /\ NOP \in Instr /\ NOP.op \in Op
  /\ \A w \in Word : w \div 4 \in Word /\ w \div 4 \in DataWord /\ w \in Nat
<1>1. /\ 0 \in Word /\ 0 \in Reg /\ 31 \in Reg /\ 0 \in Address /\ 0 \in 0 .. CodeWords
      /\ 0 \in 0 .. BHTSize - 1 /\ CodeWords \in Nat \ {0} /\ BHTSize \in Nat \ {0}
  BY Inside, RegAssumption, ProgramAssumption DEF Address
<1>2. NOP \in Instr /\ NOP.op \in Op
  <2>1. Bits > 0 /\ HalfSize \in Nat \ {0}
    BY Widths, Sizes
  <2>2. "SLL" \in Op
    BY DEF Op, RType, RArith, Shifts
  <2> QED BY <1>1, <2>1, <2>2 DEF NOP, Instr
<1>3. \A w \in Word : w \div 4 \in Word /\ w \div 4 \in DataWord /\ w \in Nat
  <2> TAKE w \in Word
  <2> DEFINE H == WordSize \div 2
             q == H \div 2
             k == w \div 4
  <2>1. WordSize = 2 * H /\ H \in Nat \ {0} /\ H % 2 = 0
    BY Middles
  <2>2. w \in Nat /\ w < WordSize
    BY <2>1 DEF Word
  <2> HIDE DEF H, q, k
  <2>3. q \in Nat /\ H = 2 * q
    BY <2>1 DEF q
  <2>4. WordSize = 4 * q
    BY <2>1, <2>3
  <2>5. WordSize \div 4 = q
    BY <2>3, <2>4
  <2>6. k \in Nat /\ 4 * k <= w
    BY <2>2 DEF k
  <2>7. k < q /\ k < WordSize
    BY <2>2, <2>3, <2>4, <2>6
  <2> QED BY <2>2, <2>3, <2>4, <2>5, <2>6, <2>7 DEF Word, DataWord, k
<1> QED BY <1>1, <1>2, <1>3

\* Bubbles are typed.
LEMMA Bubbles ==
  /\ NoControl \in Control /\ NoEX_MEM.ctrl \in Control /\ NoMEM_WB.ctrl \in Control
BY Zero DEF NoControl, Control, NoEX_MEM, NoMEM_WB

\* Decoding yields lines.
LEMMA DecodeTyped ==
  ASSUME NEW c \in Control, NEW op \in Op
  PROVE  Decode(c, op) \in Control
<1> DEFINE d == Decode(c, op)
<1>1. CASE op \in RType
  <2>1. d = [NoControl EXCEPT !.op = op, !.jump = (op = "JR"), !.RegWrite = (op # "JR")]
    BY <1>1 DEF Decode, RType, RArith, Shifts
  <2> HIDE DEF d
  <2>2. d = [op |-> op, jump |-> op = "JR", branch |-> FALSE, MemRead |-> FALSE,
             MemtoReg |-> FALSE, MemWrite |-> FALSE, ALUSrc |-> FALSE, RegWrite |-> op # "JR"]
    BY <2>1 DEF NoControl
  <2> QED BY <2>2 DEF Control, d
<1>2. CASE op \in {"J", "JAL"}
  <2>1. d = [c EXCEPT !.op = op, !.jump = TRUE, !.MemRead = FALSE, !.MemWrite = FALSE,
                      !.RegWrite = FALSE]
    BY <1>2 DEF Decode, RType, RArith, Shifts
  <2> HIDE DEF d
  <2> QED BY <2>1 DEF Control, d
<1>3. CASE op = "HALT"
  <2>1. d = [c EXCEPT !.op = op, !.jump = FALSE, !.branch = FALSE, !.MemRead = FALSE,
                      !.MemWrite = FALSE, !.RegWrite = FALSE]
    BY <1>3 DEF Decode, RType, RArith, Shifts
  <2> HIDE DEF d
  <2> QED BY <2>1 DEF Control, d
<1>4. CASE op \notin RType \cup {"J", "JAL", "HALT"}
  <2>1. d = [op |-> op, jump |-> FALSE, branch |-> op \in Branches,
             MemRead |-> op \in Loads, MemtoReg |-> op \in Loads,
             MemWrite |-> op \in Stores, ALUSrc |-> op \in IArith \cup Loads,
             RegWrite |-> op \in IArith \cup Loads]
    BY <1>4 DEF Decode
  <2> HIDE DEF d
  <2> QED BY <2>1 DEF Control, d
<1> QED BY <1>1, <1>2, <1>3, <1>4

\* What instructions of programs hold.
LEMMA Programmed ==
  ASSUME code \in Programs, NEW p \in Address
  PROVE  LET i == code[p]
         IN  /\ i \in Instr /\ i.op \in Op /\ i.rs \in Reg /\ i.rt \in Reg /\ i.rd \in Reg
             /\ i.imm \in Word /\ SignExtend(i.imm) \in Word
             /\ i.op \in Shifts => i.imm < Bits
             /\ i.op = "SRA" => i.imm # 0
             /\ i.op \in Branches => Target(p, i) \in Address
             /\ i.op \in {"J", "JAL", "HALT"} => i.rs = 0 /\ i.rt = 0
             /\ Bits15to11(i) \in Reg
<1> DEFINE i == code[p]
<1>1. i \in Instr
  BY ProgramAssumption
<1>2. /\ i.op \in Op /\ i.rs \in Reg /\ i.rt \in Reg /\ i.rd \in Reg
      /\ i.imm \in 0 .. HalfSize - 1 /\ (i.op \in Shifts => i.imm < Bits)
  BY <1>1 DEF Instr
<1>3. /\ i.op = "SRA" => i.imm # 0
      /\ i.op \in Branches => Target(p, i) \in Address
      /\ i.op \in {"J", "JAL", "HALT"} => i.rs = 0 /\ i.rt = 0
  BY ProgramAssumption DEF ShiftAssumption
<1> HIDE DEF i
<1>4. i.imm \in Word /\ SignExtend(i.imm) \in Word
  BY <1>2, Immediate
<1>5. Bits15to11(i) \in Reg
  BY <1>2, Zero DEF Bits15to11
<1> QED BY <1>1, <1>2, <1>3, <1>4, <1>5 DEF i

\* A live instruction in ex_mem has the address of an aligned access.
LEMMA AccessTyped ==
  ASSUME NEW op \in Loads \cup Stores, NEW a \in Word, a % (Further(op) + 1) = 0,
         NEW w \in Word, NEW v \in Word
  PROVE  /\ op \in Loads => Loaded(op, w, a % 4) \in Word
         /\ op \in Stores => Merged(op, w, a % 4, v) \in Word
<1>1. a \in Nat
  BY Zero
<1>2. op \in Loads => Loaded(op, w, a % 4) \in Word
  BY <1>1, LoadsAgree
<1>3. op \in Stores => Merged(op, w, a % 4, v) \in Word
  BY <1>1, StoresAgree
<1> QED BY <1>2, <1>3

\* What EX computes is a word.
LEMMA ResultTyped ==
  ASSUME TypeInv, ~cpu.id_ex.nop
  PROVE  Result(cpu) \in Word /\ cpu.id_ex.ctrl.op = cpu.id_ex.instr.op
<1> DEFINE d == cpu.id_ex
           i == d.instr
<1>1. /\ d.ctrl.op = i.op /\ i = code[d.at] /\ d.at \in Address /\ code \in Programs
      /\ (i.op \in Shifts => d.RD1 = i.imm)
      /\ d.RD1 \in Word /\ d.RD2 \in Word /\ cpu.ex_mem.alu_result \in Word
  BY Fields DEF TypeInv, BackLines, FromCode, LinesOf
<1>2. /\ SignExtend(i.imm) \in Word
      /\ i.op \in Shifts => i.imm < Bits
      /\ i.op = "SRA" => i.imm # 0
  BY <1>1, Programmed
<1>3. Input_2(d) \in Word
  BY <1>1, <1>2 DEF Input_2
<1>4. CASE i.op \in RArith
  <2>1. RegisterALU(i.op, d.RD1, Input_2(d)) \in Word
    BY <1>1, <1>2, <1>3, <1>4, RegisterResult DEF Shifts
  <2> QED BY <1>1, <1>4, <2>1 DEF Result, ALU
<1>5. CASE i.op \notin RArith /\ i.op \in IArith \cup Loads \cup Stores
  <2>1. ImmediateALU(i.op, d.RD1, Input_2(d)) \in Word
    BY <1>1, <1>3, <1>5, ImmediateResult
  <2> QED BY <1>1, <1>5, <2>1 DEF Result, ALU
<1>6. CASE i.op \notin RArith \cup IArith \cup Loads \cup Stores
  BY <1>1, <1>6 DEF Result
<1> QED BY <1>1, <1>4, <1>5, <1>6

\* Registers, memory and the latches behind EX stay typed.
LEMMA BackTyped ==
  ASSUME TypeInv, Aligned, Aligned', Cycle
  PROVE  /\ cpu'.reg \in [Reg -> Word] /\ cpu'.mem \in [DataWord -> Word]
         /\ cpu'.halt \in BOOLEAN
         /\ cpu'.ex_mem \in [ctrl : Control, alu_result : Word, WDtoMem : Word, dest : Reg,
                             nop : BOOLEAN, re_addr : Word, at : Address]
         /\ cpu'.mem_wb \in [ctrl : Control, RD : Word, dest : Reg, alu_result : Word,
                             nop : BOOLEAN, re_addr : Word, at : Address]
<1> DEFINE x == cpu.ex_mem
           w == cpu.mem_wb
           d == cpu.id_ex
<1>1. BackValues
  BY Values DEF TypeInv
<1>2. /\ cpu.reg \in [Reg -> Word] /\ cpu.mem \in [DataWord -> Word] /\ cpu.halt \in BOOLEAN
  BY DEF TypeInv, TypeOK
<1>3. /\ d.ctrl \in Control /\ d.instr \in Instr /\ d.RD2 \in Word /\ d.re_addr \in Word
      /\ d.at \in Address
      /\ x.ctrl \in Control /\ x.alu_result \in Word
      /\ x.WDtoMem \in Word /\ x.dest \in Reg
      /\ x.re_addr \in Word /\ x.at \in Address
      /\ w.ctrl \in Control /\ w.RD \in Word /\ w.dest \in Reg
      /\ w.alu_result \in Word /\ w.re_addr \in Word /\ w.at \in Address
  BY Fields DEF TypeInv
<1>4. cpu'.halt \in BOOLEAN
  BY <1>1, <1>2 DEF BackValues
<1>5. cpu'.reg \in [Reg -> Word]
  <2>1. Written(cpu.reg, w) \in [Reg -> Word]
    BY <1>2, <1>3 DEF Written
  <2> QED BY <1>1, <1>2, <2>1 DEF BackValues, RegistersAfter
<1>6. cpu'.mem \in [DataWord -> Word]
  BY <1>1, <1>2, <1>3 DEF BackValues, MemoryAfter
<1>7. cpu'.mem_wb \in [ctrl : Control, RD : Word, dest : Reg, alu_result : Word,
                       nop : BOOLEAN, re_addr : Word, at : Address]
  <2>1. CASE x.nop
    <3>1. cpu'.mem_wb = NoMEM_WB
      BY <1>1, <2>1 DEF BackValues, FromDM
    <3> QED BY <3>1, Zero, Bubbles DEF NoMEM_WB
  <2>2. CASE ~x.nop /\ x.ctrl.op = "HALT"
    <3>1. cpu'.mem_wb = [ctrl |-> x.ctrl, RD |-> w.RD, dest |-> w.dest,
                         alu_result |-> w.alu_result, nop |-> FALSE,
                         re_addr |-> w.re_addr, at |-> x.at]
      BY <1>1, <2>2 DEF BackValues, FromDM
    <3> QED BY <1>3, <3>1
  <2>3. CASE ~x.nop /\ x.ctrl.op # "HALT"
    <3> DEFINE a == x.alu_result
               RD == IF x.ctrl.MemRead /\ ~x.ctrl.MemWrite
                     THEN Loaded(x.ctrl.op, cpu.mem[a \div 4], a % 4) ELSE w.RD
               re_addr == IF x.ctrl.op = "JAL" THEN x.re_addr ELSE w.re_addr
    <3>1. cpu'.mem_wb = [ctrl |-> x.ctrl, dest |-> x.dest, alu_result |-> a, RD |-> RD,
                         nop |-> FALSE, at |-> x.at, re_addr |-> re_addr]
      BY <1>1, <2>3 DEF BackValues, FromDM
    <3>2. RD \in Word
      <4>1. x.ctrl.MemRead => x.ctrl.op \in Loads
        BY <2>3 DEF TypeInv, BackLines, LinesOf
      <4>2. x.ctrl.op \in Loads => a % (Further(x.ctrl.op) + 1) = 0
        BY <2>3 DEF Aligned
      <4>3. cpu.mem[a \div 4] \in Word
        BY <1>2, <1>3, Zero
      <4>4. x.ctrl.op \in Loads => Loaded(x.ctrl.op, cpu.mem[a \div 4], a % 4) \in Word
        BY <1>3, <4>2, <4>3, AccessTyped
      <4> QED BY <1>3, <4>1, <4>4
    <3>3. re_addr \in Word
      BY <1>3
    <3> HIDE DEF RD, re_addr
    <3> QED BY <1>3, <3>1, <3>2, <3>3
  <2> QED BY <2>1, <2>2, <2>3
<1>8. cpu'.ex_mem \in [ctrl : Control, alu_result : Word, WDtoMem : Word, dest : Reg,
                       nop : BOOLEAN, re_addr : Word, at : Address]
  <2>1. CASE d.nop
    <3>1. cpu'.ex_mem = NoEX_MEM
      BY <1>1, <2>1 DEF BackValues, FromEX
    <3> QED BY <3>1, Zero, Bubbles DEF NoEX_MEM
  <2>2. CASE ~d.nop /\ d.ctrl.op = "HALT"
    <3>1. cpu'.ex_mem = [ctrl |-> d.ctrl, alu_result |-> x.alu_result, WDtoMem |-> x.WDtoMem,
                         dest |-> x.dest, nop |-> FALSE, re_addr |-> x.re_addr, at |-> d.at]
      BY <1>1, <2>2 DEF BackValues, FromEX
    <3> QED BY <1>3, <3>1
  <2>3. CASE ~d.nop /\ d.ctrl.op # "HALT"
    <3> DEFINE r == Result(cpu)
               dest == IF ~d.ctrl.ALUSrc /\ d.ctrl.op \notin Stores THEN Bits15to11(d.instr)
                       ELSE IF d.ctrl.op \in Stores THEN 0 ELSE d.instr.rt
               WDtoMem == IF d.ctrl.op \in Stores
                          THEN Merged(d.ctrl.op, cpu'.mem[r \div 4], r % 4, d.RD2)
                          ELSE x.WDtoMem
               re_addr == IF d.ctrl.op = "JAL" THEN d.re_addr ELSE x.re_addr
    <3>1. cpu'.ex_mem = [ctrl |-> d.ctrl, alu_result |-> r, nop |-> FALSE, at |-> d.at,
                         dest |-> dest, WDtoMem |-> WDtoMem, re_addr |-> re_addr]
      BY <1>1, <2>3 DEF BackValues, FromEX
    <3>2. r \in Word
      BY <2>3, ResultTyped
    <3>3. dest \in Reg
      <4>1. d.instr = code[d.at] /\ code \in Programs
        BY <2>3 DEF TypeInv, FromCode
      <4>2. Bits15to11(d.instr) \in Reg /\ d.instr.rt \in Reg
        BY <1>3, <4>1, Programmed
      <4> QED BY <4>2, Zero
    <3>4. re_addr \in Word
      BY <1>3
    <3>5. WDtoMem \in Word
      <4> HIDE DEF r, dest, WDtoMem, re_addr
      <4>1. /\ cpu'.ex_mem.nop = FALSE /\ cpu'.ex_mem.ctrl.op = d.ctrl.op
            /\ cpu'.ex_mem.alu_result = r
        BY <3>1
      <4>2. d.ctrl.op \in Stores => r % (Further(d.ctrl.op) + 1) = 0
        BY <4>1 DEF Aligned
      <4>3. cpu'.mem[r \div 4] \in Word
        BY <1>6, <3>2, Zero
      <4>4. d.ctrl.op \in Stores => Merged(d.ctrl.op, cpu'.mem[r \div 4], r % 4, d.RD2) \in Word
        BY <1>3, <3>2, <4>2, <4>3, AccessTyped
      <4> QED BY <1>3, <4>4 DEF WDtoMem
    <3> HIDE DEF r, dest, WDtoMem, re_addr
    <3> QED BY <1>3, <3>1, <3>2, <3>3, <3>4, <3>5
  <2> QED BY <2>1, <2>2, <2>3
<1> QED BY <1>4, <1>5, <1>6, <1>7, <1>8

\* The instruction that ID decodes.
LEMMA Decoding ==
  ASSUME TypeInv, ~Idle
  PROVE  /\ cpu.if_id.at \in Address /\ InIF_ID = code[cpu.if_id.at] /\ InIF_ID # NOP
         /\ ~cpu.if_id.nop /\ code \in Programs
         /\ NewLines \in Control /\ LinesOf(NewLines, InIF_ID.op)
<1>1. /\ cpu.if_id.at \in Address /\ InIF_ID = code[cpu.if_id.at] /\ code \in Programs
      /\ cpu.control \in Control /\ InIF_ID # NOP /\ ~cpu.if_id.nop
  BY Fields DEF TypeInv, FromCode, Idle, InIF_ID, TypeOK
<1>2. InIF_ID.op \in Op
  BY <1>1, Programmed
<1>3. NewLines \in Control
  BY <1>1, <1>2, DecodeTyped DEF NewLines
<1>4. LinesOf(NewLines, InIF_ID.op)
  BY Decoded DEF NewLines, TypeInv, Flags, Shape
<1> QED BY <1>1, <1>3, <1>4

\* ID leaves a typed instruction, or a bubble, in id_ex.
LEMMA FrontTyped ==
  ASSUME TypeInv, Aligned, Aligned', Cycle
  PROVE  /\ cpu'.id_ex \in [ctrl : Control, instr : Instr, RD1 : Word, RD2 : Word,
                            jump_PC : Word, branch : BOOLEAN, nop : BOOLEAN,
                            re_addr : Word, taken_flag : BOOLEAN,
                            branch_no_PC : 0 .. CodeWords, taken : 0 .. 3,
                            index : 0 .. BHTSize - 1, at : Address]
         /\ ~cpu'.id_ex.nop => /\ cpu'.id_ex.instr = code[cpu'.id_ex.at]
                               /\ cpu'.id_ex.instr.op \in Shifts =>
                                    cpu'.id_ex.RD1 = cpu'.id_ex.instr.imm
         /\ cpu'.control \in Control /\ cpu'.correct \in BOOLEAN
<1> DEFINE b == AfterEX
           e == cpu.id_ex
           d == cpu.if_id
           i == InIF_ID
           t == ToEX(b)
           counter == IF ~Idle /\ ~Stays /\ i.op \in Branches
                      THEN Step(d.taken, Outcome(b)) ELSE t.taken
<1>1. InputsOfID /\ FrontValues /\ MovesToEX
  BY Values, Turn DEF TypeInv
<1>2. /\ cpu'.reg \in [Reg -> Word]
      /\ cpu'.ex_mem \in [ctrl : Control, alu_result : Word, WDtoMem : Word, dest : Reg,
                          nop : BOOLEAN, re_addr : Word, at : Address]
      /\ cpu'.mem_wb \in [ctrl : Control, RD : Word, dest : Reg, alu_result : Word,
                          nop : BOOLEAN, re_addr : Word, at : Address]
  BY BackTyped
<1>3. /\ b.ex_mem.alu_result \in Word /\ b.mem_wb.alu_result \in Word
      /\ b.mem_wb.RD \in Word /\ b.mem_wb.re_addr \in Word
      /\ \A r \in Reg : b.reg[r] \in Word
  BY <1>1, <1>2 DEF InputsOfID
<1>4. /\ b.id_ex.branch = e.branch /\ b.id_ex.jump_PC = e.jump_PC
      /\ b.id_ex.re_addr = e.re_addr /\ b.id_ex.taken_flag = e.taken_flag
      /\ b.id_ex.branch_no_PC = e.branch_no_PC /\ b.id_ex.taken = e.taken
      /\ b.id_ex.index = e.index
  BY <1>1 DEF InputsOfID, TypeInv, Flags, Shape
<1>5. /\ e.jump_PC \in Word /\ e.branch \in BOOLEAN /\ e.re_addr \in Word
      /\ e.taken_flag \in BOOLEAN /\ e.branch_no_PC \in 0 .. CodeWords
      /\ e.taken \in 0 .. 3 /\ e.index \in 0 .. BHTSize - 1
      /\ d.instr \in Instr /\ d.PC \in 0 .. CodeWords
      /\ d.at \in Address /\ d.branch_no_PC \in 0 .. CodeWords
      /\ d.taken_flag \in BOOLEAN /\ d.taken \in 0 .. 3
      /\ d.index \in 0 .. BHTSize - 1
  BY Fields DEF TypeInv
<1>6. cpu.correct \in BOOLEAN /\ cpu.control \in Control
  BY DEF TypeInv, TypeOK
<1>7. cpu'.correct \in BOOLEAN
  BY <1>1, <1>6 DEF FrontValues
<1>8. CASE Idle
  <2>1. cpu'.id_ex = [NoID_EX EXCEPT !.taken = NoID_EX.taken]
    BY <1>1, <1>8 DEF FrontValues
  <2>2. cpu'.id_ex = NoID_EX
    BY <2>1 DEF NoID_EX
  <2>3. cpu'.control = cpu.control
    BY <1>1, <1>8 DEF MovesToEX
  <2>4. cpu'.id_ex.nop
    BY <2>2 DEF NoID_EX
  <2> QED BY <1>6, <1>7, <2>2, <2>3, <2>4, Zero, Bubbles DEF NoID_EX
<1>9. CASE ~Idle
  <2>1. /\ d.at \in Address /\ i = code[d.at] /\ code \in Programs
        /\ NewLines \in Control /\ cpu'.control = NewLines
        /\ Lines(b) = NewLines /\ b.if_id = d /\ b.if_id.instr = i
    BY <1>1, <1>9, Decoding DEF MovesToEX, InputsOfID, InIF_ID
  <2>2. /\ i \in Instr /\ i.rs \in Reg /\ i.rt \in Reg /\ i.imm \in Word
    BY <2>1, Programmed
  <2>3. \A r \in Reg : /\ Forward(b.ex_mem, b.mem_wb, r, b.reg[r]) \in Word
                       /\ Operand(b, r) \in Word
    BY <1>3 DEF Forward, ForwardBranch, Operand
  <2>4. Outcome(b) \in BOOLEAN
    BY <1>4, <1>5 DEF Outcome
  <2>5. counter \in 0 .. 3
    <3>1. t.taken \in 0 .. 3
      BY <1>4, <1>5, <2>1 DEF ToEX
    <3>2. Step(d.taken, Outcome(b)) \in 0 .. 3
      BY <1>5, <2>4 DEF Step
    <3> HIDE DEF t
    <3> QED BY <3>1, <3>2
  <2>6. cpu'.id_ex = [t EXCEPT !.taken = counter]
    BY <1>1, <1>9 DEF FrontValues
  <2> DEFINE RD1 == IF i.op \in Shifts THEN i.imm
                    ELSE IF ToForward(i) THEN Forward(b.ex_mem, b.mem_wb, i.rs, b.reg[i.rs])
                    ELSE b.reg[i.rs]
             RD2 == IF ToForward(i) /\ ~Lines(b).ALUSrc
                    THEN Forward(b.ex_mem, b.mem_wb, i.rt, b.reg[i.rt]) ELSE b.reg[i.rt]
             jump_PC == IF i.op \in {"J", "JAL"} THEN i.imm
                        ELSE IF i.op = "JR" THEN Operand(b, i.rs) \div 4 ELSE e.jump_PC
             re_addr == IF i.op = "JAL" THEN (4 * d.PC) % WordSize ELSE e.re_addr
             taken_flag == IF i.op \in Branches THEN d.taken_flag ELSE e.taken_flag
             branch_no_PC == IF i.op \in Branches THEN d.branch_no_PC ELSE e.branch_no_PC
             index == IF i.op \in Branches THEN d.index ELSE e.index
             branch == Outcome(b)
             stays == StallsHere(b)
             lines == NewLines
  <2>7. t = [ctrl |-> lines, instr |-> i, at |-> d.at, nop |-> stays, branch |-> branch,
             RD1 |-> RD1, RD2 |-> RD2, jump_PC |-> jump_PC, re_addr |-> re_addr,
             taken_flag |-> taken_flag, branch_no_PC |-> branch_no_PC,
             taken |-> t.taken, index |-> index]
    BY <1>4, <2>1 DEF ToEX
  <2>8. RD1 \in Word /\ RD2 \in Word
    BY <1>3, <2>2, <2>3
  <2>9. jump_PC \in Word
    BY <1>5, <2>2, <2>3, Zero
  <2>10. re_addr \in Word
    <3>1. 4 * d.PC \in Int
      BY <1>5, Zero
    <3>2. (4 * d.PC) % WordSize \in Word
      BY <3>1, Inside
    <3> QED BY <1>5, <3>2
  <2>11. /\ taken_flag \in BOOLEAN /\ branch_no_PC \in 0 .. CodeWords
         /\ index \in 0 .. BHTSize - 1 /\ stays \in BOOLEAN /\ branch \in BOOLEAN
         /\ lines \in Control
    BY <1>5, <2>1, <2>4 DEF StallsHere, Stalls
  <2>12. i.op \in Shifts => RD1 = i.imm
    OBVIOUS
  <2> HIDE DEF t, counter, RD1, RD2, jump_PC, re_addr, taken_flag, branch_no_PC, index,
               branch, stays, i, lines
  <2>13. cpu'.id_ex = [ctrl |-> lines, instr |-> i, at |-> d.at, nop |-> stays,
                       branch |-> branch, RD1 |-> RD1, RD2 |-> RD2, jump_PC |-> jump_PC,
                       re_addr |-> re_addr, taken_flag |-> taken_flag,
                       branch_no_PC |-> branch_no_PC, taken |-> counter, index |-> index]
    BY <2>6, <2>7
  <2>14. cpu'.id_ex.instr = i /\ cpu'.id_ex.at = d.at /\ cpu'.id_ex.RD1 = RD1
    BY <2>13
  <2> QED BY <1>5, <1>7, <2>1, <2>2, <2>5, <2>8, <2>9, <2>10, <2>11, <2>12, <2>13, <2>14
<1> QED BY <1>8, <1>9

\* IF leaves a typed instruction in if_id.
LEMMA FetchTyped ==
  ASSUME TypeInv, InCode, Cycle
  PROVE  /\ cpu'.if_id \in [instr : Instr, PC : 0 .. CodeWords, nop : BOOLEAN, at : Address,
                            branch_no_PC : 0 .. CodeWords, taken_flag : BOOLEAN,
                            taken : 0 .. 3, index : 0 .. BHTSize - 1]
         /\ ~cpu'.if_id.nop => cpu'.if_id.instr = code[cpu'.if_id.at]
<1> DEFINE d == cpu.if_id
           i == code[cpu.PC]
           index == cpu.PC % BHTSize
           taken == cpu.BHT[index] \in {2, 3}
           f == FromIF(cpu, Stays)
<1>1. FrontValues
  BY Values DEF TypeInv
<1>2. /\ d.instr \in Instr /\ d.PC \in 0 .. CodeWords
      /\ d.at \in Address /\ d.branch_no_PC \in 0 .. CodeWords
      /\ d.taken_flag \in BOOLEAN /\ d.taken \in 0 .. 3
      /\ d.index \in 0 .. BHTSize - 1
  BY Fields DEF TypeInv
<1>3. cpu.PC \in Address /\ cpu.PC \in 0 .. CodeWords /\ cpu.PC + 1 \in 0 .. CodeWords
      /\ cpu.PC \in Int
  BY ProgramAssumption DEF InCode, Address
<1>4. /\ i \in Instr
      /\ i.op \in Branches => Target(cpu.PC, i) \in 0 .. CodeWords
  <2>1. code \in Programs
    BY DEF TypeInv, FromCode
  <2>2. i \in Instr /\ (i.op \in Branches => Target(cpu.PC, i) \in Address)
    BY <1>3, <2>1, Programmed
  <2> HIDE DEF i
  <2> QED BY <2>2, ProgramAssumption DEF Address
<1>5. index \in 0 .. BHTSize - 1
  BY <1>3, Zero
<1>6. cpu.BHT[index] \in 0 .. 3
  BY <1>5 DEF TypeInv, TypeOK
<1>7. Flushes \in BOOLEAN
  BY DEF Flushes
<1>8. cpu'.if_id = [f EXCEPT !.nop = Flushes]
  BY <1>1 DEF FrontValues
<1>9. CASE Stays
  <2>1. f = [instr |-> d.instr, PC |-> cpu.PC, nop |-> d.nop,
             branch_no_PC |-> d.branch_no_PC, taken_flag |-> d.taken_flag,
             taken |-> d.taken, index |-> d.index, at |-> d.at]
    BY <1>9 DEF FromIF
  <2> HIDE DEF f
  <2>2. cpu'.if_id = [instr |-> d.instr, PC |-> cpu.PC, nop |-> Flushes,
                      branch_no_PC |-> d.branch_no_PC, taken_flag |-> d.taken_flag,
                      taken |-> d.taken, index |-> d.index, at |-> d.at]
    BY <1>8, <2>1
  <2>3. d.instr = code[d.at]
    BY <1>9 DEF Stays, Idle, TypeInv, FromCode
  <2> QED BY <1>2, <1>3, <1>7, <2>2, <2>3
<1>10. CASE ~Stays /\ i.op \notin Branches
  <2>1. f = [instr |-> i, PC |-> cpu.PC + 1, nop |-> d.nop,
             branch_no_PC |-> d.branch_no_PC, taken_flag |-> d.taken_flag,
             taken |-> d.taken, index |-> d.index, at |-> cpu.PC]
    BY <1>10 DEF FromIF
  <2> HIDE DEF f
  <2>2. cpu'.if_id = [instr |-> i, PC |-> cpu.PC + 1, nop |-> Flushes,
                      branch_no_PC |-> d.branch_no_PC, taken_flag |-> d.taken_flag,
                      taken |-> d.taken, index |-> d.index, at |-> cpu.PC]
    BY <1>8, <2>1
  <2> QED BY <1>2, <1>3, <1>4, <1>7, <2>2
<1>11. CASE ~Stays /\ i.op \in Branches
  <2> DEFINE nextPC == IF taken THEN Target(cpu.PC, i) ELSE cpu.PC + 1
             otherPC == IF taken THEN cpu.PC + 1 ELSE Target(cpu.PC, i)
  <2>1. f = [instr |-> i, PC |-> nextPC, nop |-> d.nop, branch_no_PC |-> otherPC,
             taken_flag |-> taken, taken |-> cpu.BHT[index], index |-> index, at |-> cpu.PC]
    BY <1>11 DEF FromIF
  <2>2. nextPC \in 0 .. CodeWords /\ otherPC \in 0 .. CodeWords /\ taken \in BOOLEAN
    BY <1>3, <1>4, <1>11
  <2> HIDE DEF f, nextPC, otherPC, taken, index
  <2>3. cpu'.if_id = [instr |-> i, PC |-> nextPC, nop |-> Flushes, branch_no_PC |-> otherPC,
                      taken_flag |-> taken, taken |-> cpu.BHT[index], index |-> index,
                      at |-> cpu.PC]
    BY <1>8, <2>1
  <2> QED BY <1>2, <1>3, <1>4, <1>5, <1>6, <1>7, <2>2, <2>3
<1> QED BY <1>9, <1>10, <1>11

\* A turn keeps everything in its range.
LEMMA TypeKept ==
  ASSUME TypeInv, InCode, InCode', Aligned, Aligned', Cycle
  PROVE  TypeInv'
<1>1. /\ Flags' /\ BackLines' /\ Predicts /\ MovesToEX
  BY Turn, BackLinesKept DEF TypeInv
<1>2. code' = code /\ code \in Programs /\ code \in [Address -> Instr]
  BY DEF Cycle, TypeInv, FromCode, TypeOK
<1>3. cpu'.BHT \in [0 .. BHTSize - 1 -> 0 .. 3]
  <2>1. cpu.BHT \in [0 .. BHTSize - 1 -> 0 .. 3]
    BY DEF TypeInv, TypeOK
  <2>2. cpu.if_id.taken \in 0 .. 3
    BY Fields DEF TypeInv
  <2>3. cpu'.id_ex.branch \in BOOLEAN
    BY FrontTyped
  <2>4. Step(cpu.if_id.taken, cpu'.id_ex.branch) \in 0 .. 3
    BY <2>2, <2>3 DEF Step
  <2> QED BY <1>1, <2>1, <2>4 DEF Predicts
<1>4. cpu'.id_stall \in BOOLEAN /\ cpu'.if_nop \in BOOLEAN
  BY <1>1 DEF MovesToEX, Stays, Flags
<1>5. TypeOK'
  BY <1>2, <1>3, <1>4, BackTyped, FrontTyped, FetchTyped DEF TypeOK, InCode
<1>6. FromCode'
  BY <1>2, FrontTyped, FetchTyped DEF FromCode
<1> QED BY <1>1, <1>5, <1>6 DEF TypeInv

\* The machine starts typed.
LEMMA TypedAtTheStart ==
  ASSUME Init
  PROVE  TypeInv
<1> PICK start \in Starts : cpu = InitCPU(start)
  BY DEF Init
<1>0. start[1] \in Address /\ start[2] \in Word
  BY ProgramAssumption
<1>1. Flags /\ BackLines /\ code \in Programs
      /\ cpu.if_id.nop = TRUE /\ cpu.id_ex.nop = TRUE
  BY AtTheStart
<1>2. TypeOK
  <2>1. code \in [Address -> Instr]
    BY <1>1, ProgramAssumption
  <2>2. /\ cpu.PC = start[1] /\ cpu.mem = DataImage
        /\ cpu.reg = [r \in Reg |-> IF r = 29 THEN start[2] ELSE 0]
        /\ cpu.BHT = [k \in 0 .. BHTSize - 1 |-> 1] /\ cpu.control = NoControl
        /\ cpu.halt = FALSE /\ cpu.if_nop = FALSE /\ cpu.id_stall = FALSE
        /\ cpu.correct = FALSE /\ cpu.id_ex = NoID_EX /\ cpu.ex_mem = NoEX_MEM
        /\ cpu.mem_wb = NoMEM_WB
        /\ cpu.if_id = [instr |-> NOP, PC |-> 0, nop |-> TRUE, branch_no_PC |-> 0,
                        taken_flag |-> FALSE, taken |-> 0, index |-> 0, at |-> 0]
    BY DEF InitCPU
  <2>3. cpu.if_id \in [instr : Instr, PC : 0 .. CodeWords, nop : BOOLEAN, at : Address,
                       branch_no_PC : 0 .. CodeWords, taken_flag : BOOLEAN,
                       taken : 0 .. 3, index : 0 .. BHTSize - 1]
    BY <2>2, Zero
  <2>4. cpu.id_ex \in [ctrl : Control, instr : Instr, RD1 : Word, RD2 : Word,
                       jump_PC : Word, branch : BOOLEAN, nop : BOOLEAN, re_addr : Word,
                       taken_flag : BOOLEAN, branch_no_PC : 0 .. CodeWords, taken : 0 .. 3,
                       index : 0 .. BHTSize - 1, at : Address]
    BY <2>2, Zero, Bubbles DEF NoID_EX
  <2>5. cpu.ex_mem \in [ctrl : Control, alu_result : Word, WDtoMem : Word, dest : Reg,
                        nop : BOOLEAN, re_addr : Word, at : Address]
    BY <2>2, Zero, Bubbles DEF NoEX_MEM
  <2>6. cpu.mem_wb \in [ctrl : Control, RD : Word, dest : Reg, alu_result : Word,
                        nop : BOOLEAN, re_addr : Word, at : Address]
    BY <2>2, Zero, Bubbles DEF NoMEM_WB
  <2>7. /\ cpu.reg \in [Reg -> Word] /\ cpu.mem \in [DataWord -> Word]
        /\ cpu.BHT \in [0 .. BHTSize - 1 -> 0 .. 3]
    BY <1>0, <2>2, Zero, ProgramAssumption
  <2> QED BY <1>0, <2>1, <2>2, <2>3, <2>4, <2>5, <2>6, <2>7, Zero, Bubbles DEF TypeOK
<1> QED BY <1>1, <1>2 DEF TypeInv, FromCode

\* Every latch, register and word of memory keeps its range: for every program
\* that stays in its code and makes no misaligned access.
THEOREM PipelineTyped == Spec /\ []InCode /\ []Aligned => []TypeOK
<1>1. Init => TypeInv
  BY TypedAtTheStart
<1>2. TypeInv /\ InCode /\ InCode' /\ Aligned /\ Aligned' /\ [Next]_vars => TypeInv'
  <2> SUFFICES ASSUME TypeInv, InCode, InCode', Aligned, Aligned', [Next]_vars
               PROVE  TypeInv'
    OBVIOUS
  <2>1. CASE Cycle
    BY <2>1, TypeKept
  <2>2. CASE UNCHANGED vars
    BY <2>2 DEF vars, TypeInv, Flags, BackLines, TypeOK, FromCode
  <2> QED BY <2>1, <2>2 DEF Next
<1>3. TypeInv => TypeOK
  BY DEF TypeInv
<1> QED BY <1>1, <1>2, <1>3, PTL DEF Spec
-----------------------------------------------------------------------------
(* The path of execution.                                                  *)

\* The oldest instruction that has not been through ID, EX or DM.
DueID(m) == IF ~m.if_id.nop /\ m.if_id.instr # NOP THEN m.if_id.at ELSE Due(code, m.PC)
DueEX(m) == IF ~m.id_ex.nop THEN m.id_ex.at ELSE DueID(m)
DueDM(m) == IF ~m.ex_mem.nop THEN m.ex_mem.at ELSE DueEX(m)

\* A HALT has been through DM.
Halted(m) == m.halt \/ (~m.mem_wb.nop /\ m.mem_wb.ctrl.op = "HALT")

\* Committed, of any machine.
Registers(m) ==
  IF m.halt \/ m.mem_wb.nop THEN m.reg ELSE Written(m.reg, m.mem_wb)

\* Where the instruction in id_ex goes on, as ID has found out.
After(e) ==
  LET i == e.instr
  IN  IF i.op \in Branches THEN IF e.branch THEN Target(e.at, i) ELSE e.at + 1
      ELSE IF i.op \in Jumps THEN e.jump_PC ELSE e.at + 1

\* Where the instruction at p goes on, given the registers before it.
AfterExecuting(p, reg) ==
  LET i == code[p]
  IN  IF i.op \in Branches
      THEN IF (reg[i.rs] = reg[i.rt]) <=> (i.op = "BEQ") THEN Target(p, i) ELSE p + 1
      ELSE IF i.op = "JR" THEN reg[i.rs] \div 4
      ELSE IF i.op \in Jumps THEN i.imm ELSE p + 1

\* IF fetches next what follows if_id as predicted; the other way is kept.
FetchPath(m) ==
  LET d == m.if_id
      i == d.instr
      t == Target(d.at, i)
  IN  ~d.nop =>
        /\ d.PC = m.PC
        /\ i.op \notin Branches => d.PC = d.at + 1
        /\ i.op \in Branches =>
             /\ d.PC = IF d.taken_flag THEN t ELSE d.at + 1
             /\ d.branch_no_PC = IF d.taken_flag THEN d.at + 1 ELSE t

\* Behind id_ex follows what ID has found; branches and JR have read registers
\* as the instructions before them leave them.
DecodePath(m) ==
  LET e == m.id_ex
      i == e.instr
  IN  ~e.nop =>
        /\ i.op # "HALT" => DueID(m) = Due(code, After(e))
        /\ i.op \in Branches =>
             /\ Ready(m, i.rs) /\ Ready(m, i.rt)
             /\ e.branch <=> ((Current(m, i.rs) = Current(m, i.rt)) <=> (i.op = "BEQ"))
        /\ i.op = "JR" => Ready(m, i.rs) /\ e.jump_PC = Current(m, i.rs) \div 4
        /\ i.op \in {"J", "JAL"} => e.jump_PC = i.imm
        /\ i.op = "JAL" => e.re_addr = (4 * (e.at + 1)) % WordSize

\* What EX has passed on is what executing the instruction at p yields.
Executed(x, p, reg, mem) ==
  LET i == code[p]
      a == ALU(i.op, reg[i.rs], SignExtend(i.imm))
  IN  /\ x.ctrl.op = i.op
      /\ i.op \in RArith =>
           /\ x.dest = i.rd
           /\ x.alu_result = ALU(i.op, IF i.op \in Shifts THEN i.imm ELSE reg[i.rs], reg[i.rt])
      /\ i.op \in IArith \cup Loads => x.dest = i.rt
      /\ i.op \in IArith \cup Loads \cup Stores => x.alu_result = a
      /\ i.op \in Stores => x.WDtoMem = Merged(i.op, mem[a \div 4], a % 4, reg[i.rt])
      /\ i.op = "JAL" => x.re_addr = (4 * (p + 1)) % WordSize

\* DM is about to complete the instruction that is due, and the next one due is
\* the one that follows it.
ExecutePath(m) ==
  LET x == m.ex_mem
  IN  ~x.nop /\ ~m.halt =>
        /\ Executed(x, x.at, Registers(m), m.mem)
        /\ x.ctrl.op # "HALT" => DueEX(m) = Due(code, AfterExecuting(x.at, Registers(m)))

\* Nothing is behind a HALT.
HaltLast(m) ==
  ~m.mem_wb.nop /\ m.mem_wb.ctrl.op = "HALT" => m.ex_mem.nop \/ m.ex_mem.ctrl.op = "HALT"

PathInv ==
  /\ TypeInv /\ Order /\ OperandsCurrent
  /\ FetchPath(cpu) /\ DecodePath(cpu) /\ ExecutePath(cpu) /\ HaltLast(cpu)

\* The instruction due at p.
LEMMA DueCode ==
  ASSUME code \in Programs, NEW p \in Address
  PROVE  /\ code[p] # NOP => Due(code, p) = p
         /\ code[p] = NOP => Due(code, p) = Due(code, p + 1)
<1>1. CodeWords \in Nat /\ DOMAIN code = 0 .. CodeWords - 1 /\ p \in Int /\ p \in DOMAIN code
  BY ProgramAssumption DEF Address
<1> QED BY <1>1, DueIs

\* What a turn leaves in if_id, field by field.
LEMMA FetchIs ==
  ASSUME Flags, Cycle
  PROVE  LET d == cpu.if_id
             n == cpu'.if_id
             i == code[cpu.PC]
             t == Target(cpu.PC, i)
         IN  /\ n.nop = Flushes
             /\ Stays => /\ n.instr = d.instr /\ n.at = d.at /\ n.PC = cpu.PC
                         /\ n.taken_flag = d.taken_flag /\ n.branch_no_PC = d.branch_no_PC
             /\ ~Stays => /\ n.instr = i /\ n.at = cpu.PC
                          /\ i.op \notin Branches => n.PC = cpu.PC + 1
                          /\ i.op \in Branches =>
                               /\ n.PC = IF n.taken_flag THEN t ELSE cpu.PC + 1
                               /\ n.branch_no_PC = IF n.taken_flag THEN cpu.PC + 1 ELSE t
<1> DEFINE d == cpu.if_id
           i == code[cpu.PC]
           t == Target(cpu.PC, i)
           index == cpu.PC % BHTSize
           taken == cpu.BHT[index] \in {2, 3}
           f == FromIF(cpu, Stays)
<1>1. cpu'.if_id = [f EXCEPT !.nop = Flushes]
  BY Values DEF FrontValues
<1>2. CASE Stays
  <2>1. f = [instr |-> d.instr, PC |-> cpu.PC, nop |-> d.nop,
             branch_no_PC |-> d.branch_no_PC, taken_flag |-> d.taken_flag,
             taken |-> d.taken, index |-> d.index, at |-> d.at]
    BY <1>2 DEF FromIF
  <2> HIDE DEF f
  <2> QED BY <1>1, <1>2, <2>1
<1>3. CASE ~Stays /\ i.op \notin Branches
  <2>1. f = [instr |-> i, PC |-> cpu.PC + 1, nop |-> d.nop,
             branch_no_PC |-> d.branch_no_PC, taken_flag |-> d.taken_flag,
             taken |-> d.taken, index |-> d.index, at |-> cpu.PC]
    BY <1>3 DEF FromIF
  <2> HIDE DEF f
  <2> QED BY <1>1, <1>3, <2>1
<1>4. CASE ~Stays /\ i.op \in Branches
  <2> DEFINE nextPC == IF taken THEN t ELSE cpu.PC + 1
             otherPC == IF taken THEN cpu.PC + 1 ELSE t
  <2>1. f = [instr |-> i, PC |-> nextPC, nop |-> d.nop, branch_no_PC |-> otherPC,
             taken_flag |-> taken, taken |-> cpu.BHT[index], index |-> index, at |-> cpu.PC]
    BY <1>4 DEF FromIF
  <2> HIDE DEF f, nextPC, otherPC, taken, index
  <2>2. cpu'.if_id = [instr |-> i, PC |-> nextPC, nop |-> Flushes, branch_no_PC |-> otherPC,
                      taken_flag |-> taken, taken |-> cpu.BHT[index], index |-> index,
                      at |-> cpu.PC]
    BY <1>1, <2>1
  <2>3. /\ cpu'.if_id.nop = Flushes /\ cpu'.if_id.instr = i /\ cpu'.if_id.at = cpu.PC
        /\ cpu'.if_id.PC = nextPC /\ cpu'.if_id.branch_no_PC = otherPC
        /\ cpu'.if_id.taken_flag = taken
    BY <2>2
  <2> QED BY <1>4, <2>3 DEF nextPC, otherPC
<1> QED BY <1>2, <1>3, <1>4

\* What is due behind ID now is due behind EX after the turn.
LEMMA DueMoves ==
  ASSUME TypeInv, InCode, Cycle
  PROVE  DueEX(cpu') = DueID(cpu)
<1> DEFINE d == cpu.if_id
           i == code[cpu.PC]
<1>1. MovesToEX /\ FrontValues /\ code \in Programs /\ cpu.PC \in Address
  BY Turn, Values DEF TypeInv, FromCode, InCode
<1>2. /\ i # NOP => Due(code, cpu.PC) = cpu.PC
      /\ i = NOP => Due(code, cpu.PC) = Due(code, cpu.PC + 1)
  BY <1>1, DueCode
<1>3. /\ cpu'.if_id.nop = Flushes
      /\ Stays => cpu'.if_id.instr = d.instr /\ cpu'.if_id.at = d.at
      /\ ~Stays => /\ cpu'.if_id.instr = i /\ cpu'.if_id.at = cpu.PC
                   /\ i.op \notin Branches => cpu'.if_id.PC = cpu.PC + 1
  BY FetchIs DEF TypeInv
<1>4. NOP.op \notin Branches
  BY DEF NOP, Branches
<1>5. CASE Idle
  <2>1. ~Stays /\ ~Flushes /\ cpu'.id_ex.nop
    BY <1>1, <1>5 DEF Stays, Flushes, MovesToEX
  <2>2. cpu'.PC = cpu'.if_id.PC /\ DueID(cpu) = Due(code, cpu.PC)
    BY <1>1, <1>5, <2>1 DEF FrontValues, Idle, DueID, InIF_ID
  <2>3. DueEX(cpu') = IF i # NOP THEN cpu.PC ELSE Due(code, cpu'.PC)
    BY <1>3, <2>1 DEF DueEX, DueID
  <2>4. i = NOP => cpu'.PC = cpu.PC + 1
    BY <1>3, <1>4, <2>1, <2>2
  <2> QED BY <1>2, <2>2, <2>3, <2>4
<1>6. CASE Stays
  <2>1. cpu'.id_ex.nop /\ ~Flushes /\ d.instr # NOP /\ ~d.nop
    BY <1>1, <1>6 DEF Stays, MovesToEX, Flushes, Idle, InIF_ID
  <2> QED BY <1>3, <1>6, <2>1 DEF DueEX, DueID
<1>7. CASE ~Idle /\ ~Stays
  <2>1. ~cpu'.id_ex.nop /\ cpu'.id_ex.at = d.at /\ d.instr # NOP /\ ~d.nop
    BY <1>1, <1>7 DEF MovesToEX, Idle, InIF_ID
  <2> QED BY <2>1 DEF DueEX, DueID
<1> QED BY <1>5, <1>6, <1>7 DEF Stays

\* IF keeps to its prediction.
LEMMA FetchPathKept ==
  ASSUME TypeInv, FetchPath(cpu), Cycle
  PROVE  FetchPath(cpu')
<1> DEFINE d == cpu.if_id
           n == cpu'.if_id
           i == code[cpu.PC]
<1> SUFFICES ASSUME ~n.nop PROVE FetchPath(cpu')
  BY DEF FetchPath
<1>1. FrontValues
  BY Values DEF TypeInv
<1>2. /\ n.nop = Flushes
      /\ Stays => /\ n.instr = d.instr /\ n.at = d.at /\ n.PC = cpu.PC
                  /\ n.taken_flag = d.taken_flag /\ n.branch_no_PC = d.branch_no_PC
      /\ ~Stays => /\ n.instr = i /\ n.at = cpu.PC
                   /\ i.op \notin Branches => n.PC = cpu.PC + 1
                   /\ i.op \in Branches =>
                        /\ n.PC = IF n.taken_flag THEN Target(cpu.PC, i) ELSE cpu.PC + 1
                        /\ n.branch_no_PC = IF n.taken_flag THEN cpu.PC + 1
                                            ELSE Target(cpu.PC, i)
  BY FetchIs DEF TypeInv
<1>3. cpu'.PC = n.PC
  BY <1>1, <1>2 DEF FrontValues
<1>4. CASE Stays
  <2>1. ~d.nop
    BY <1>4 DEF Stays, Idle
  <2> QED BY <1>2, <1>3, <1>4, <2>1 DEF FetchPath
<1>5. CASE ~Stays
  BY <1>2, <1>3, <1>5 DEF FetchPath
<1> QED BY <1>4, <1>5

\* The registers a turn leaves.
LEMMA Commits ==
  ASSUME TypeInv, Cycle, ~cpu'.halt
  PROVE  /\ ~Halted(cpu) /\ cpu'.reg = Registers(cpu)
         /\ cpu'.reg = IF cpu.mem_wb.nop THEN cpu.reg ELSE Written(cpu.reg, cpu.mem_wb)
         /\ Registers(cpu') = IF cpu.ex_mem.nop THEN cpu'.reg
                              ELSE Written(cpu'.reg, FromDM(cpu))
<1> DEFINE w == cpu.mem_wb
<1>1. BackValues /\ ~cpu.halt /\ w.nop \in BOOLEAN
  BY Values DEF Cycle, TypeInv, Flags
<1>2. ~(~w.nop /\ w.ctrl.op = "HALT")
  BY <1>1 DEF BackValues
<1>3. cpu'.reg = IF w.nop THEN cpu.reg ELSE Written(cpu.reg, w)
  BY <1>1, <1>2 DEF BackValues, RegistersAfter
<1>4. cpu'.reg = Registers(cpu) /\ ~Halted(cpu)
  BY <1>1, <1>2, <1>3 DEF Registers, Halted
<1>5. cpu'.mem_wb = FromDM(cpu) /\ cpu'.mem_wb.nop = cpu.ex_mem.nop
  <2>1. cpu'.mem_wb = FromDM(cpu)
    BY <1>1 DEF BackValues
  <2>2. cpu.ex_mem.nop \in BOOLEAN
    BY DEF TypeInv, Flags
  <2>3. FromDM(cpu).nop = cpu.ex_mem.nop
    BY <2>2 DEF FromDM, NoMEM_WB
  <2> QED BY <2>1, <2>3
<1>6. Registers(cpu') = IF cpu.ex_mem.nop THEN cpu'.reg ELSE Written(cpu'.reg, FromDM(cpu))
  BY <1>5 DEF Registers
<1> QED BY <1>3, <1>4, <1>6

\* What instructions past ID leave in a register is committed a turn later,
\* unless a load has yet to bring it.
LEMMA CurrentCommitted ==
  ASSUME TypeInv, Cycle, ~cpu'.halt, NEW r \in Reg, Ready(cpu, r)
  PROVE  Registers(cpu')[r] = Current(cpu, r)
<1> DEFINE x == cpu.ex_mem
           w == cpu.mem_wb
           v == FromDM(cpu)
<1>1. /\ ~Halted(cpu)
      /\ cpu'.reg = IF w.nop THEN cpu.reg ELSE Written(cpu.reg, w)
      /\ Registers(cpu') = IF x.nop THEN cpu'.reg ELSE Written(cpu'.reg, v)
  BY Commits
<1>2. cpu'.reg[r] = Written(cpu.reg, w)[r]
  <2>1. CASE w.nop
    <3>1. w = NoMEM_WB
      BY <2>1 DEF TypeInv, BackLines
    <3>2. ~w.ctrl.RegWrite /\ w.ctrl.op # "JAL"
      BY <3>1 DEF NoMEM_WB, NoControl, NOP
    <3>3. Written(cpu.reg, w)[r] = cpu.reg[r]
      BY <3>2 DEF Written
    <3> QED BY <1>1, <2>1, <3>3
  <2>2. CASE ~w.nop
    BY <1>1, <2>2
  <2> QED BY <2>1, <2>2
<1>3. CASE x.nop
  <2>1. x = NoEX_MEM
    BY <1>3 DEF TypeInv, BackLines
  <2>2. ~WritesTo(x, r)
    BY <2>1 DEF WritesTo, NoEX_MEM, NoControl, NOP
  <2> QED BY <1>1, <1>2, <1>3, <2>2 DEF Current
<1>4. CASE ~x.nop
  <2>1. LinesOf(x.ctrl, x.ctrl.op)
    BY <1>4 DEF TypeInv, BackLines
  <2>2. v.ctrl = x.ctrl
    BY <1>4 DEF FromDM
  <2>3. Registers(cpu')[r] =
          IF v.ctrl.RegWrite /\ v.dest # 0 /\ r = v.dest
          THEN IF v.ctrl.MemtoReg THEN v.RD ELSE v.alu_result
          ELSE IF v.ctrl.op = "JAL" /\ r = 31 THEN v.re_addr ELSE cpu'.reg[r]
    BY <1>1, <1>4 DEF Written
  <2>4. CASE x.ctrl.op = "HALT"
    <3>1. ~x.ctrl.RegWrite
      BY <2>1, <2>4 DEF LinesOf, RArith, Shifts, IArith, Loads
    <3> HIDE DEF v
    <3> QED BY <1>2, <2>2, <2>3, <2>4, <3>1 DEF Current, WritesTo
  <2>5. CASE x.ctrl.op # "HALT"
    <3>1. /\ v.dest = x.dest /\ v.alu_result = x.alu_result
          /\ x.ctrl.op = "JAL" => v.re_addr = x.re_addr
      BY <1>4, <2>5 DEF FromDM
    <3>2. x.ctrl.op = "JAL" => ~x.ctrl.RegWrite
      BY <2>1 DEF LinesOf, RArith, Shifts, IArith, Loads
    <3>3. x.ctrl.RegWrite /\ x.ctrl.MemtoReg => x.ctrl.MemRead
      BY <2>1 DEF LinesOf
    <3> HIDE DEF v
    <3> QED BY <1>2, <2>2, <2>3, <3>1, <3>2, <3>3 DEF Current, Ready, WritesTo
  <2> QED BY <2>4, <2>5
<1> QED BY <1>3, <1>4

\* What an instruction that leaves ID carries.
LEMMA LeavesID ==
  ASSUME TypeInv, Cycle, ~cpu'.id_ex.nop
  PROVE  LET b == AfterEX
             d == cpu.if_id
             i == InIF_ID
             e == cpu'.id_ex
         IN  /\ ~Idle /\ ~Stays /\ e.instr = i /\ e.at = d.at /\ e.ctrl = NewLines
             /\ e.branch = Outcome(b)
             /\ i.op \in Branches => e.branch_no_PC = d.branch_no_PC
             /\ i.op \in {"J", "JAL"} => e.jump_PC = i.imm
             /\ i.op = "JR" => e.jump_PC = Operand(b, i.rs) \div 4
             /\ i.op = "JAL" => e.re_addr = (4 * d.PC) % WordSize
<1> DEFINE b == AfterEX
           d == cpu.if_id
           i == InIF_ID
           t == ToEX(b)
           counter == IF ~Idle /\ ~Stays /\ i.op \in Branches
                      THEN Step(d.taken, Outcome(b)) ELSE t.taken
<1>1. InputsOfID /\ FrontValues /\ MovesToEX
  BY Values, Turn DEF TypeInv
<1>2. /\ ~Idle /\ ~Stays /\ cpu'.id_ex.instr = i /\ cpu'.id_ex.at = d.at
      /\ cpu'.id_ex.ctrl = NewLines
  BY <1>1 DEF MovesToEX, Idle, TypeInv, Flags
<1>3. Lines(b) = NewLines /\ b.if_id = d /\ b.if_id.instr = i
  BY <1>1 DEF InputsOfID, InIF_ID
<1> DEFINE RD1 == t.RD1
           RD2 == t.RD2
           jump_PC == IF i.op \in {"J", "JAL"} THEN i.imm
                      ELSE IF i.op = "JR" THEN Operand(b, i.rs) \div 4 ELSE b.id_ex.jump_PC
           re_addr == IF i.op = "JAL" THEN (4 * d.PC) % WordSize ELSE b.id_ex.re_addr
           taken_flag == t.taken_flag
           branch_no_PC == IF i.op \in Branches THEN d.branch_no_PC ELSE b.id_ex.branch_no_PC
           index == t.index
           branch == Outcome(b)
           stays == StallsHere(b)
           lines == NewLines
<1>4. t = [ctrl |-> lines, instr |-> i, at |-> d.at, nop |-> stays, branch |-> branch,
           RD1 |-> RD1, RD2 |-> RD2, jump_PC |-> jump_PC, re_addr |-> re_addr,
           taken_flag |-> taken_flag, branch_no_PC |-> branch_no_PC,
           taken |-> t.taken, index |-> index]
  BY <1>3 DEF ToEX
<1>5. cpu'.id_ex = [t EXCEPT !.taken = counter]
  BY <1>1, <1>2 DEF FrontValues
<1> HIDE DEF t, counter, RD1, RD2, jump_PC, re_addr, taken_flag, branch_no_PC, index,
             branch, stays, lines
<1>6. cpu'.id_ex = [ctrl |-> lines, instr |-> i, at |-> d.at, nop |-> stays,
                    branch |-> branch, RD1 |-> RD1, RD2 |-> RD2, jump_PC |-> jump_PC,
                    re_addr |-> re_addr, taken_flag |-> taken_flag,
                    branch_no_PC |-> branch_no_PC, taken |-> counter, index |-> index]
  BY <1>4, <1>5
<1>7. /\ cpu'.id_ex.branch = branch /\ cpu'.id_ex.jump_PC = jump_PC
      /\ cpu'.id_ex.re_addr = re_addr /\ cpu'.id_ex.branch_no_PC = branch_no_PC
  BY <1>6
<1> QED BY <1>2, <1>7 DEF branch, jump_PC, re_addr, branch_no_PC

\* The registers a branch or a JR compares or follows are those that the
\* instructions before it leave.
LEMMA OperandOfID ==
  ASSUME TypeInv, Order, Order', BackLines', Cycle, ~FalseDependence',
         ~cpu'.id_ex.nop, InID(InIF_ID), NEW r \in Waiting(InIF_ID, NewLines)
  PROVE  Ready(cpu', r) /\ Operand(AfterEX, r) = Current(cpu', r)
<1> DEFINE x == cpu'.ex_mem
           w == cpu'.mem_wb
           i == InIF_ID
<1>1. ~Idle /\ ~Stays /\ cpu'.id_ex.instr = i
  BY LeavesID
<1>2. r \in {i.rs, i.rt} /\ i.rs \in Reg /\ i.rt \in Reg
  <2>1. i \in Instr
    BY <1>1 DEF Order, Idle, InIF_ID
  <2> HIDE DEF i
  <2> QED BY <2>1 DEF i, Instr, Waiting, InID
<1>3. \A q \in Waiting(i, NewLines) : ~BranchStall(x, w, q)
  BY <1>1 DEF Stays, Stalls
<1>4. /\ Ready(cpu', r)
      /\ ForwardBranch(x, w, r, cpu'.reg[r]) = Current(cpu', r)
  BY <1>1, <1>2, <1>3, BranchCurrent DEF TypeInv
<1>5. \A q \in Waiting(i, NewLines) : ~ByEX(x, q)
  BY <1>3 DEF BranchStall
<1>6. Operand(AfterEX, r) = ForwardBranch(x, w, r, cpu'.reg[r])
  <2>1. InputsOfID
    BY Values DEF TypeInv
  <2>2. /\ AfterEX.ex_mem = x /\ AfterEX.mem_wb = w /\ AfterEX.reg = cpu'.reg
        /\ Waiting(AfterEX.if_id.instr, Lines(AfterEX)) = Waiting(i, NewLines)
    BY <2>1 DEF InputsOfID, InIF_ID
  <2> QED BY <1>5, <2>2 DEF Operand
<1> QED BY <1>4, <1>6

\* ID passes on what follows, and what it has read is current.
LEMMA DecodePathKept ==
  ASSUME TypeInv, TypeInv', Order, Order', FetchPath(cpu), InCode, InCode',
         ~FalseDependence', Cycle
  PROVE  DecodePath(cpu')
<1> DEFINE d == cpu.if_id
           e == cpu'.id_ex
           n == cpu'.if_id
           i == InIF_ID
           c == code[cpu.PC]
           t == Target(d.at, i)
<1> SUFFICES ASSUME ~e.nop PROVE DecodePath(cpu')
  BY DEF DecodePath
<1>1. FrontValues /\ BackLines' /\ code \in Programs
  BY Values DEF TypeInv, FromCode
<1>2. /\ ~Idle /\ ~Stays /\ e.instr = i /\ e.at = d.at
      /\ e.branch = Outcome(AfterEX)
      /\ i.op \in Branches => e.branch_no_PC = d.branch_no_PC
      /\ i.op \in {"J", "JAL"} => e.jump_PC = i.imm
      /\ i.op = "JR" => e.jump_PC = Operand(AfterEX, i.rs) \div 4
      /\ i.op = "JAL" => e.re_addr = (4 * d.PC) % WordSize
  BY LeavesID
<1>3. /\ d.PC = cpu.PC
      /\ i.op \notin Branches => d.PC = d.at + 1
      /\ i.op \in Branches =>
           /\ d.PC = IF d.taken_flag THEN t ELSE d.at + 1
           /\ d.branch_no_PC = IF d.taken_flag THEN d.at + 1 ELSE t
  BY <1>2 DEF FetchPath, Idle, InIF_ID
<1>4. /\ n.nop = Flushes
      /\ n.instr = c /\ n.at = cpu.PC
      /\ c.op \notin Branches => n.PC = cpu.PC + 1
  BY <1>2, FetchIs DEF TypeInv
<1>5. d.taken_flag \in BOOLEAN /\ e.branch \in BOOLEAN
  BY Fields DEF TypeInv, TypeOK
<1>6. i.op # "HALT" => DueID(cpu') = Due(code, After(e))
  <2> SUFFICES ASSUME i.op # "HALT" PROVE DueID(cpu') = Due(code, After(e))
    OBVIOUS
  <2>1. CASE Flushes
    <3>1. DueID(cpu') = Due(code, cpu'.PC)
      BY <1>4, <2>1 DEF DueID
    <3>2. CASE i.op \in Jumps
      <4>1. cpu'.PC = e.jump_PC /\ After(e) = e.jump_PC
        BY <1>1, <1>2, <2>1, <3>2 DEF FrontValues, After, Jumps, Branches
      <4> QED BY <3>1, <4>1
    <3>3. CASE i.op \notin Jumps
      <4>1. i.op \in Branches /\ e.branch # d.taken_flag
        BY <1>2, <2>1, <3>3 DEF Flushes
      <4>2. cpu'.PC = d.branch_no_PC
        BY <1>1, <1>2, <2>1, <3>3, <4>1 DEF FrontValues
      <4>3. After(e) = d.branch_no_PC
        BY <1>2, <1>3, <1>5, <4>1 DEF After
      <4> QED BY <3>1, <4>2, <4>3
    <3> QED BY <3>2, <3>3
  <2>2. CASE ~Flushes
    <3>1. cpu'.PC = n.PC
      BY <1>1, <2>2 DEF FrontValues
    <3>2. /\ c # NOP => Due(code, cpu.PC) = cpu.PC
          /\ c = NOP => Due(code, cpu.PC) = Due(code, cpu.PC + 1)
      BY <1>1, DueCode DEF InCode
    <3>3. c = NOP => cpu'.PC = cpu.PC + 1
      BY <1>4, <3>1 DEF NOP, Branches
    <3>4. DueID(cpu') = Due(code, cpu.PC)
      BY <1>4, <2>2, <3>2, <3>3 DEF DueID
    <3>5. i.op \notin Jumps /\ (i.op \in Branches => e.branch = d.taken_flag)
      BY <1>2, <2>2 DEF Flushes
    <3>6. After(e) = cpu.PC
      BY <1>2, <1>3, <3>5 DEF After
    <3> QED BY <3>4, <3>6
  <2> QED BY <2>1, <2>2
<1>7. InID(i) => \A r \in Waiting(i, NewLines) :
                    Ready(cpu', r) /\ Operand(AfterEX, r) = Current(cpu', r)
  BY <1>1, OperandOfID
<1>8. i.op \in Branches =>
        /\ Ready(cpu', i.rs) /\ Ready(cpu', i.rt)
        /\ e.branch <=> ((Current(cpu', i.rs) = Current(cpu', i.rt)) <=> (i.op = "BEQ"))
  <2> SUFFICES ASSUME i.op \in Branches
               PROVE  /\ Ready(cpu', i.rs) /\ Ready(cpu', i.rt)
                      /\ e.branch <=> ((Current(cpu', i.rs) = Current(cpu', i.rt))
                                        <=> (i.op = "BEQ"))
    OBVIOUS
  <2>1. Waiting(i, NewLines) = {i.rs, i.rt} /\ InID(i)
    BY DEF Waiting, InID
  <2>2. AfterEX.if_id.instr = i
    BY Values DEF TypeInv, InputsOfID, InIF_ID
  <2>3. e.branch <=> ((Operand(AfterEX, i.rs) = Operand(AfterEX, i.rt)) <=> (i.op = "BEQ"))
    BY <1>2, <2>2 DEF Outcome
  <2> QED BY <1>7, <2>1, <2>3
<1>9. i.op = "JR" => Ready(cpu', i.rs) /\ e.jump_PC = Current(cpu', i.rs) \div 4
  <2> SUFFICES ASSUME i.op = "JR"
               PROVE  Ready(cpu', i.rs) /\ e.jump_PC = Current(cpu', i.rs) \div 4
    OBVIOUS
  <2>1. Waiting(i, NewLines) = {i.rs} /\ InID(i)
    BY DEF Waiting, InID, Branches
  <2> QED BY <1>2, <1>7, <2>1
<1>10. i.op = "JAL" => e.re_addr = (4 * (e.at + 1)) % WordSize
  BY <1>2, <1>3 DEF Branches
<1> QED BY <1>2, <1>6, <1>8, <1>9, <1>10 DEF DecodePath

\* EX executes what the instruction says on the registers and the memory that
\* the instructions before it leave.
LEMMA ExecutePathKept ==
  ASSUME TypeInv, OperandsCurrent, DecodePath(cpu), InCode, Cycle
  PROVE  ExecutePath(cpu')
<1> DEFINE d == cpu.id_ex
           i == d.instr
           x == cpu'.ex_mem
           R == Registers(cpu')
           a == ALU(i.op, R[i.rs], SignExtend(i.imm))
<1> SUFFICES ASSUME ~x.nop, ~cpu'.halt PROVE ExecutePath(cpu')
  BY DEF ExecutePath
<1>1. /\ ~d.nop /\ x = FromEX(cpu, cpu'.mem) /\ ~cpu.halt
  <2>1. x = FromEX(cpu, cpu'.mem) /\ ~cpu.halt
    BY Values DEF TypeInv, BackValues, Cycle
  <2>2. d.nop => x.nop
    BY <2>1 DEF FromEX, NoEX_MEM
  <2> QED BY <2>1, <2>2
<1>2. /\ LinesOf(d.ctrl, i.op) /\ i = code[d.at] /\ d.at \in Address /\ code \in Programs
      /\ i.op \in Shifts => d.RD1 = i.imm
  BY <1>1, Fields DEF TypeInv, BackLines, FromCode
<1>3. i.op \in Op /\ i.rs \in Reg /\ i.rt \in Reg
  BY <1>2, Programmed
<1>4. /\ x.at = d.at /\ x.ctrl.op = i.op
      /\ i.op # "HALT" =>
           /\ x.alu_result = Result(cpu)
           /\ x.dest = IF ~d.ctrl.ALUSrc /\ i.op \notin Stores THEN Bits15to11(i)
                       ELSE IF i.op \in Stores THEN 0 ELSE i.rt
           /\ i.op \in Stores =>
                x.WDtoMem = Merged(i.op, cpu'.mem[Result(cpu) \div 4], Result(cpu) % 4, d.RD2)
           /\ i.op = "JAL" => x.re_addr = d.re_addr
  BY <1>1, <1>2 DEF FromEX, LinesOf
<1>5. \A r \in Reg : Ready(cpu, r) => R[r] = Current(cpu, r)
  BY CurrentCommitted
<1>6. ToForward(i) => /\ i.op \notin Shifts => d.RD1 = R[i.rs]
                      /\ ~d.ctrl.ALUSrc => d.RD2 = R[i.rt]
  BY <1>1, <1>3, <1>5 DEF OperandsCurrent
<1> HIDE DEF R
<1>7. Executed(x, d.at, R, cpu'.mem)
  <2> HIDE DEF d, x
  <2>1. CASE i.op \in RArith
    <3>1. ToForward(i) /\ ~d.ctrl.ALUSrc /\ i.op \notin Stores /\ i.op # "HALT" /\ i.op # "JAL"
          /\ i.op \notin IArith \cup Loads /\ i.op \in RType
      BY <1>2, <2>1 DEF ToForward, LinesOf, RArith, Shifts, Branches, IArith, Loads, Stores, RType
    <3>2. x.dest = i.rd
      BY <1>4, <3>1, SMTT(20) DEF Bits15to11
    <3>3. x.alu_result = ALU(i.op, d.RD1, d.RD2)
      BY <1>2, <1>4, <2>1, <3>1 DEF Result, Input_2, LinesOf, d
    <3>4. x.alu_result = ALU(i.op, IF i.op \in Shifts THEN i.imm ELSE R[i.rs], R[i.rt])
      BY <1>2, <1>6, <3>1, <3>3
    <3> QED BY <1>2, <1>4, <2>1, <3>1, <3>2, <3>4 DEF Executed
  <2>2. CASE i.op \in IArith \cup Loads \cup Stores
    <3>1. /\ i.op \notin RArith /\ i.op # "HALT" /\ i.op # "JAL" /\ i.op \notin Shifts
          /\ i.op # "LUI" => ToForward(i)
          /\ i.op \in Stores => ~d.ctrl.ALUSrc
          /\ i.op \in IArith \cup Loads => d.ctrl.ALUSrc /\ i.op \notin Stores
      BY <1>2, <2>2 DEF ToForward, LinesOf, RArith, Shifts, Branches, IArith, Loads, Stores
    <3>2. Input_2(d) = SignExtend(i.imm)
      BY <1>2, <2>2, <3>1 DEF Input_2, LinesOf, d
    <3>3. Result(cpu) = ALU(i.op, d.RD1, SignExtend(i.imm))
      BY <1>2, <2>2, <3>2 DEF Result, LinesOf, d
    <3>4. Result(cpu) = a
      <4>1. CASE i.op = "LUI"
        BY <3>3, <4>1 DEF ALU, ImmediateALU, RArith, Shifts, Loads, Stores
      <4>2. CASE i.op # "LUI"
        BY <1>6, <3>1, <3>3, <4>2
      <4> QED BY <4>1, <4>2
    <3>5. i.op \in Stores => d.RD2 = R[i.rt]
      BY <1>6, <3>1 DEF Stores
    <3> QED BY <1>2, <1>4, <2>2, <3>1, <3>4, <3>5 DEF Executed
  <2>3. CASE i.op \notin RArith \cup IArith \cup Loads \cup Stores
    <3>1. i.op = "JAL" => x.re_addr = (4 * (d.at + 1)) % WordSize
      BY <1>1, <1>4 DEF DecodePath, d
    <3> QED BY <1>2, <1>4, <2>3, <3>1 DEF Executed
  <2> QED BY <2>1, <2>2, <2>3
<1>8. i.op # "HALT" => DueEX(cpu') = Due(code, AfterExecuting(d.at, R))
  <2> SUFFICES ASSUME i.op # "HALT" PROVE DueEX(cpu') = Due(code, AfterExecuting(d.at, R))
    OBVIOUS
  <2>1. DueEX(cpu') = Due(code, After(d))
    BY <1>1, DueMoves DEF DecodePath
  <2>2. After(d) = AfterExecuting(d.at, R)
    <3>1. CASE i.op \in Branches
      <4>1. /\ d.branch <=> ((R[i.rs] = R[i.rt]) <=> (i.op = "BEQ"))
        BY <1>1, <1>3, <1>5, <3>1 DEF DecodePath
      <4> HIDE DEF d
      <4> QED BY <1>2, <3>1, <4>1 DEF After, AfterExecuting
    <3>2. CASE i.op = "JR"
      <4>1. d.jump_PC = R[i.rs] \div 4
        BY <1>1, <1>3, <1>5, <3>2 DEF DecodePath
      <4> HIDE DEF d
      <4> QED BY <1>2, <3>2, <4>1 DEF After, AfterExecuting, Branches, Jumps
    <3>3. CASE i.op \in {"J", "JAL"}
      <4>1. d.jump_PC = i.imm
        BY <1>1, <3>3 DEF DecodePath
      <4> HIDE DEF d
      <4> QED BY <1>2, <3>3, <4>1 DEF After, AfterExecuting, Branches, Jumps
    <3>4. CASE i.op \notin Branches \cup Jumps
      BY <1>2, <3>4 DEF After, AfterExecuting, Jumps
    <3> QED BY <3>1, <3>2, <3>3, <3>4 DEF Jumps
  <2> QED BY <2>1, <2>2
<1>9. code' = code
  BY DEF Cycle
<1> QED BY <1>4, <1>7, <1>8 DEF ExecutePath, R

\* The turns that stop behind a HALT.
LEMMA HaltLastKept ==
  ASSUME TypeInv, Order, Cycle
  PROVE  HaltLast(cpu')
<1> SUFFICES ASSUME ~cpu'.mem_wb.nop, cpu'.mem_wb.ctrl.op = "HALT", ~cpu'.ex_mem.nop
             PROVE  cpu'.ex_mem.ctrl.op = "HALT"
  BY DEF HaltLast
<1>1. MovesToWB /\ MovesToMEM
  BY Turn DEF TypeInv
<1>2. ~cpu.ex_mem.nop /\ cpu.ex_mem.ctrl.op = "HALT"
  BY <1>1 DEF MovesToWB, NoMEM_WB
<1>3. ~cpu.id_ex.nop /\ cpu'.ex_mem.ctrl = cpu.id_ex.ctrl
  BY <1>1 DEF MovesToMEM, NoEX_MEM
<1> QED BY <1>2, <1>3 DEF Order, TypeInv, BackLines, LinesOf

\* A turn keeps the path.
LEMMA PathKept ==
  ASSUME PathInv, InCode, InCode', Aligned, Aligned', ~FalseDependence', Cycle
  PROVE  PathInv'
<1>1. TypeInv' /\ code' = code
  BY TypeKept DEF PathInv, Cycle
<1>2. Flags /\ BackLines /\ BackLines' /\ Order
  BY <1>1 DEF PathInv, TypeInv
<1>3. Order'
  BY <1>2, OrderKept
<1>4. OperandsCurrent'
  BY <1>2, <1>3, OperandsKept
<1>5. FetchPath(cpu') /\ HaltLast(cpu') /\ ExecutePath(cpu')
  BY FetchPathKept, HaltLastKept, ExecutePathKept DEF PathInv
<1>6. DecodePath(cpu')
  BY <1>1, <1>3, DecodePathKept DEF PathInv
<1>7. /\ FetchPath(cpu') <=> FetchPath(cpu)'
      /\ DecodePath(cpu') <=> DecodePath(cpu)'
      /\ ExecutePath(cpu') <=> ExecutePath(cpu)'
      /\ HaltLast(cpu') <=> HaltLast(cpu)'
  BY <1>1 DEF FetchPath, DecodePath, ExecutePath, HaltLast, DueID, DueEX, After,
              AfterExecuting, Executed
<1> QED BY <1>1, <1>3, <1>4, <1>5, <1>6, <1>7 DEF PathInv

\* Before the first turn no instruction is on it.
LEMMA PathAtTheStart ==
  ASSUME Init
  PROVE  PathInv
<1>1. /\ TypeInv /\ code \in Programs /\ cpu.if_id.nop = TRUE /\ cpu.id_ex.nop = TRUE
      /\ cpu.ex_mem = NoEX_MEM
  BY AtTheStart, TypedAtTheStart
<1>2. cpu.mem_wb = NoMEM_WB
  BY DEF Init, InitCPU
<1>3. cpu.ex_mem.nop = TRUE /\ cpu.mem_wb.nop = TRUE
  BY <1>1, <1>2 DEF NoEX_MEM, NoMEM_WB
<1> QED BY <1>1, <1>3 DEF PathInv, Order, OperandsCurrent, FetchPath, DecodePath,
                          ExecutePath, HaltLast

-----------------------------------------------------------------------------
(* Machine defines again what Instructions does; it is the same.           *)

\* Sizes.
LEMMA SameSizes ==
  /\ Machine!Bits = Bits /\ Machine!ByteSize = ByteSize /\ Machine!HalfSize = HalfSize
  /\ Machine!WordSize = WordSize /\ Machine!Word = Word /\ Machine!Stopped = Stopped
  /\ Machine!NOP = NOP
BY DEF Machine!Bits, Bits, Machine!ByteSize, ByteSize, Machine!HalfSize, HalfSize,
       Machine!WordSize, WordSize, Machine!Word, Word, Machine!Stopped, Stopped,
       Machine!NOP, NOP

\* Classes of instructions.
LEMMA SameClasses ==
  /\ Machine!Shifts = Shifts /\ Machine!RArith = RArith /\ Machine!RType = RType
  /\ Machine!IArith = IArith /\ Machine!Loads = Loads /\ Machine!Stores = Stores
  /\ Machine!Branches = Branches /\ Machine!Op = Op
BY DEF Machine!Shifts, Shifts, Machine!RArith, RArith, Machine!RType, RType,
       Machine!IArith, IArith, Machine!Loads, Loads, Machine!Stores, Stores,
       Machine!Branches, Branches, Machine!Op, Op

\* Instructions.
LEMMA SameInstr == Machine!Instr = Instr
BY SameSizes, SameClasses DEF Machine!Instr, Instr

\* The next instruction.
LEMMA SameDue == ASSUME NEW c, NEW p PROVE Machine!Due(c, p) = Due(c, p)
BY SameSizes DEF Machine!Due, Due, Machine!Min, Min

\* Signed numbers.
LEMMA SameSigned ==
  ASSUME NEW w
  PROVE  Machine!Signed(w) = Signed(w) /\ Machine!SignExtend(w) = SignExtend(w)
BY SameSizes DEF Machine!Signed, Signed, Machine!SignExtend, SignExtend

\* Branches.
LEMMA SameTarget == ASSUME NEW p, NEW i PROVE Machine!Target(p, i) = Target(p, i)
<1>1. Machine!SignExtend(i.imm) = SignExtend(i.imm)
  BY SameSigned
<1>2. Machine!Signed(SignExtend(i.imm)) = Signed(SignExtend(i.imm))
  BY SameSigned
<1> QED BY <1>1, <1>2 DEF Machine!Target, Target

\* Bit operations.
LEMMA SameAnd == ASSUME NEW a, NEW b PROVE Machine!And(a, b) = And(a, b)
<1>1. \A w, k : Machine!Bit(w, k) = Bit(w, k)
  BY DEF Machine!Bit, Bit
<1> QED BY <1>1, SameSizes DEF Machine!And, And

\* The other bit operations and comparisons.
LEMMA SameBits ==
  ASSUME NEW a, NEW b
  PROVE  /\ Machine!Or(a, b) = Or(a, b) /\ Machine!Xor(a, b) = Xor(a, b)
         /\ Machine!Not(a) = Not(a) /\ Machine!Less(a, b) = Less(a, b)
         /\ Machine!ShiftRightArith(a, b) = ShiftRightArith(a, b)
<1>1. Machine!And(a, b) = And(a, b) /\ Machine!Signed(a) = Signed(a)
  BY SameAnd, SameSigned
<1> QED BY <1>1, SameSizes DEF Machine!Or, Or, Machine!Xor, Xor, Machine!Not, Not,
           Machine!Less, Less, Machine!ShiftRightArith, ShiftRightArith

\* exec_r.
LEMMA SameRegisterALU ==
  ASSUME NEW op, NEW a, NEW b
  PROVE  Machine!RegisterALU(op, a, b) = RegisterALU(op, a, b)
<1>1. /\ Machine!And(a, b) = And(a, b) /\ Machine!Or(a, b) = Or(a, b)
      /\ Machine!Xor(a, b) = Xor(a, b) /\ Machine!Less(a, b) = Less(a, b)
      /\ Machine!ShiftRightArith(b, a) = ShiftRightArith(b, a)
      /\ Machine!WordSize = WordSize
  BY SameAnd, SameBits, SameSizes
<1>2. /\ Machine!Not(Or(a, b)) = Not(Or(a, b)) /\ Machine!Not(And(a, b)) = Not(And(a, b))
  BY SameBits
<1>3. Machine!Signed(a) = Signed(a) /\ Machine!Signed(b) = Signed(b)
  BY SameSigned
<1>4. Machine!Less(Signed(a), Signed(b)) = Less(Signed(a), Signed(b))
  BY SameBits
<1> QED BY <1>1, <1>2, <1>3, <1>4 DEF Machine!RegisterALU, RegisterALU

\* The immediate operations.
LEMMA SameImmediateALU ==
  ASSUME NEW op, NEW a, NEW b
  PROVE  Machine!ImmediateALU(op, a, b) = ImmediateALU(op, a, b)
<1> DEFINE c == b % HalfSize
<1>1. /\ Machine!And(a, c) = And(a, c) /\ Machine!Or(a, c) = Or(a, c)
      /\ Machine!WordSize = WordSize /\ Machine!HalfSize = HalfSize
      /\ Machine!Loads = Loads /\ Machine!Stores = Stores
  BY SameAnd, SameBits, SameSizes, SameClasses
<1>2. Machine!Not(Or(a, c)) = Not(Or(a, c))
  BY SameBits
<1>3. Machine!Signed(a) = Signed(a) /\ Machine!Signed(b) = Signed(b)
  BY SameSigned
<1>4. Machine!Less(Signed(a), Signed(b)) = Less(Signed(a), Signed(b))
  BY SameBits
<1> QED BY <1>1, <1>2, <1>3, <1>4 DEF Machine!ImmediateALU, ImmediateALU

\* The ALU.
LEMMA SameALU ==
  ASSUME NEW op, NEW a, NEW b
  PROVE  Machine!ALU(op, a, b) = ALU(op, a, b)
BY SameRegisterALU, SameImmediateALU, SameClasses DEF Machine!ALU, ALU

\* Loads and stores.
LEMMA SameBytes ==
  ASSUME NEW op, NEW w, NEW k, NEW v
  PROVE  /\ Machine!Loaded(op, w, k) = Loaded(op, w, k)
         /\ Machine!Merged(op, w, k, v) = Merged(op, w, k, v)
<1>1. /\ Machine!ByteAt(w, k) = ByteAt(w, k) /\ Machine!HalfAt(w, k) = HalfAt(w, k)
      /\ Machine!ByteSize = ByteSize /\ Machine!HalfSize = HalfSize
  BY SameSizes DEF Machine!ByteAt, ByteAt, Machine!HalfAt, HalfAt
<1>2. \A x, size : Machine!Extend(x, size) = Extend(x, size)
  BY SameSizes DEF Machine!Extend, Extend
<1> QED BY <1>1, <1>2, ZenonT(30) DEF Machine!Loaded, Loaded, Machine!Merged, Merged
-----------------------------------------------------------------------------
(* Turns as steps of Machine.                                              *)

\* What is due moves on with the latches.
LEMMA DueDMMoves ==
  ASSUME TypeInv, InCode, Cycle
  PROVE  DueDM(cpu') = DueEX(cpu)
<1>1. MovesToMEM /\ Flags
  BY Turn DEF TypeInv
<1>2. CASE cpu.id_ex.nop
  <2>1. cpu'.ex_mem.nop
    BY <1>1, <1>2 DEF MovesToMEM, NoEX_MEM
  <2> QED BY <1>2, <2>1, DueMoves DEF DueDM, DueEX
<1>3. CASE ~cpu.id_ex.nop
  BY <1>1, <1>3 DEF MovesToMEM, DueDM, DueEX
<1> QED BY <1>2, <1>3

\* The state of Machine.
LEMMA MachineIs ==
  /\ Oldest = IF Halted(cpu) THEN Stopped ELSE DueDM(cpu)
  /\ Committed = Registers(cpu)
BY DEF Oldest, Halted, DueDM, DueEX, DueID, Committed, Registers

\* The state of Machine after a turn.
LEMMA MachineGoesOn ==
  ASSUME Cycle
  PROVE  /\ Oldest' = IF Halted(cpu') THEN Stopped ELSE DueDM(cpu')
         /\ Committed' = Registers(cpu') /\ code' = code
BY DEF Oldest, Halted, DueDM, DueEX, DueID, Committed, Registers, Cycle

\* An instruction that writes no register.
LEMMA NothingWritten ==
  ASSUME NEW reg \in [Reg -> Word], NEW w, ~w.ctrl.RegWrite, w.ctrl.op # "JAL"
  PROVE  Written(reg, w) = reg
BY DEF Written

\* The turn in which WB finds a HALT, and those in which DM finds a bubble.
LEMMA Stutters ==
  ASSUME PathInv, PathInv', InCode, Cycle, cpu'.halt \/ cpu.ex_mem.nop
  PROVE  UNCHANGED Machine!vars
<1> DEFINE w == cpu.mem_wb
           x == cpu.ex_mem
<1>1. BackValues /\ ~cpu.halt /\ TypeInv /\ code' = code
  BY Values DEF PathInv, TypeInv, Cycle
<1>2. CASE cpu'.halt
  <2>1. ~w.nop /\ w.ctrl.op = "HALT"
    BY <1>1, <1>2 DEF BackValues
  <2>2. Halted(cpu) /\ Halted(cpu')
    BY <1>2, <2>1 DEF Halted
  <2>3. x.nop \/ x.ctrl.op = "HALT"
    BY <2>1 DEF PathInv, HaltLast
  <2>4. cpu'.mem = cpu.mem
    BY <1>1, <2>3 DEF BackValues, MemoryAfter
  <2>5. ~w.ctrl.RegWrite
    BY <1>1, <2>1 DEF TypeInv, BackLines, LinesOf, RArith, Shifts, IArith, Loads
  <2>6. Written(cpu.reg, w) = cpu.reg
    BY <1>1, <2>1, <2>5, NothingWritten DEF TypeInv, TypeOK
  <2>7. Registers(cpu) = cpu.reg /\ Registers(cpu') = cpu.reg
    BY <1>1, <1>2, <2>1, <2>6 DEF Registers, BackValues, RegistersAfter
  <2> QED BY <1>1, <2>2, <2>4, <2>7, MachineIs, MachineGoesOn DEF Machine!vars
<1>3. CASE ~cpu'.halt
  <2>1. ~Halted(cpu) /\ x.nop /\ Registers(cpu') = Registers(cpu)
    BY <1>1, <1>3, Commits
  <2>2. cpu'.mem_wb.nop /\ cpu'.mem = cpu.mem
    BY <1>1, <2>1 DEF BackValues, FromDM, MemoryAfter, NoMEM_WB
  <2>3. ~Halted(cpu')
    BY <1>3, <2>2 DEF Halted
  <2>4. DueDM(cpu') = DueDM(cpu)
    BY <1>1, <2>1, DueDMMoves DEF DueDM
  <2> QED BY <1>1, <2>1, <2>2, <2>3, <2>4, MachineIs, MachineGoesOn DEF Machine!vars
<1> QED BY <1>2, <1>3

\* The turns in which DM completes an instruction.
LEMMA Completes ==
  ASSUME PathInv, PathInv', InCode, Cycle, ~cpu'.halt, ~cpu.ex_mem.nop
  PROVE  LET x == cpu.ex_mem
             i == code[x.at]
         IN  /\ code' = code /\ x.at \in Address
             /\ Oldest = x.at /\ Oldest # Stopped /\ Machine!Here = i
             /\ LinesOf(x.ctrl, i.op) /\ Executed(x, x.at, Committed, cpu.mem)
             /\ Committed \in [Reg -> Word] /\ Committed' = Written(Committed, FromDM(cpu))
             /\ cpu'.mem = MemoryAfter(cpu)
             /\ IF i.op = "HALT" THEN Oldest' = Stopped
                ELSE Oldest' = Due(code, AfterExecuting(x.at, Committed))
<1> DEFINE x == cpu.ex_mem
           i == code[x.at]
<1>1. BackValues /\ ~cpu.halt /\ TypeInv /\ TypeInv' /\ code' = code
  BY Values DEF PathInv, TypeInv, Cycle
<1>2. /\ ~Halted(cpu) /\ cpu'.reg = Registers(cpu)
      /\ Registers(cpu') = Written(cpu'.reg, FromDM(cpu))
  BY <1>1, Commits
<1>3. Committed = cpu'.reg /\ Committed' = Written(Committed, FromDM(cpu))
  BY <1>2, MachineIs, MachineGoesOn
<1>4. Committed \in [Reg -> Word]
  BY <1>1, <1>3 DEF TypeInv, TypeOK
<1>5. x.at \in Address /\ x.at # Stopped
  <2>1. x.at \in Address
    BY <1>1, Fields DEF TypeInv
  <2> QED BY <2>1, Zero DEF Address, Stopped
<1>6. Oldest = x.at /\ Oldest # Stopped
  BY <1>2, <1>5, MachineIs DEF DueDM
<1>7. /\ Executed(x, x.at, Committed, cpu.mem)
      /\ x.ctrl.op # "HALT" => DueEX(cpu) = Due(code, AfterExecuting(x.at, Committed))
  BY <1>1, <1>2, <1>3, SMTT(20) DEF PathInv, ExecutePath
<1>8. x.ctrl.op = i.op
  BY <1>7 DEF Executed
<1>9. LinesOf(x.ctrl, i.op)
  BY <1>1, <1>8 DEF TypeInv, BackLines
<1>10. cpu'.mem_wb = FromDM(cpu) /\ cpu'.mem = MemoryAfter(cpu)
  BY <1>1 DEF BackValues
<1>11. cpu'.mem_wb.nop = FALSE /\ cpu'.mem_wb.ctrl = x.ctrl
  BY <1>10 DEF FromDM
<1>12. Halted(cpu') <=> i.op = "HALT"
  BY <1>8, <1>11 DEF Halted
<1>13. IF i.op = "HALT" THEN Oldest' = Stopped
       ELSE Oldest' = Due(code, AfterExecuting(x.at, Committed))
  BY <1>1, <1>7, <1>8, <1>12, MachineGoesOn, DueDMMoves
<1>14. Machine!Here = i
  BY <1>6 DEF Machine!Here
<1> QED BY <1>1, <1>3, <1>4, <1>5, <1>6, <1>7, <1>9, <1>10, <1>13, <1>14

\* What DM passes on to WB.
LEMMA PassedByDM ==
  ASSUME NEW m, ~m.ex_mem.nop
  PROVE  LET x == m.ex_mem
             v == FromDM(m)
             a == x.alu_result
         IN  /\ v.ctrl = x.ctrl
             /\ x.ctrl.op # "HALT" =>
                  /\ v.dest = x.dest /\ v.alu_result = a
                  /\ x.ctrl.MemRead /\ ~x.ctrl.MemWrite =>
                       v.RD = Loaded(x.ctrl.op, m.mem[a \div 4], a % 4)
                  /\ x.ctrl.op = "JAL" => v.re_addr = x.re_addr
BY DEF FromDM

\* Completing an instruction is a step of Machine.
LEMMA CompletesAStep ==
  ASSUME PathInv, PathInv', InCode, Aligned, Cycle, ~cpu'.halt, ~cpu.ex_mem.nop
  PROVE  Machine!Next
<1> DEFINE x == cpu.ex_mem
           v == FromDM(cpu)
           i == code[x.at]
           R == Committed
           a == ALU(i.op, R[i.rs], SignExtend(i.imm))
           p == AfterExecuting(x.at, R)
<1>1. /\ code' = code /\ x.at \in Address
      /\ Oldest = x.at /\ Oldest # Stopped /\ Machine!Here = i
      /\ LinesOf(x.ctrl, i.op) /\ Executed(x, x.at, R, cpu.mem)
      /\ R \in [Reg -> Word] /\ Committed' = Written(R, v)
      /\ cpu'.mem = MemoryAfter(cpu)
      /\ IF i.op = "HALT" THEN Oldest' = Stopped ELSE Oldest' = Due(code, p)
  BY Completes
<1> HIDE DEF x, v, i, R, a, p
<1>2. \A ops : Machine!Running(ops) <=> i.op \in ops
  BY <1>1, SameSizes DEF Machine!Running
<1>3. i.op \in Op /\ i.rs \in Reg /\ i.rt \in Reg
  <2>1. code \in Programs
    BY DEF PathInv, TypeInv, FromCode
  <2> QED BY <1>1, <2>1, Programmed DEF i
<1>4. /\ x.ctrl.op = i.op
      /\ i.op \in RArith =>
           /\ x.dest = i.rd
           /\ x.alu_result = ALU(i.op, IF i.op \in Shifts THEN i.imm ELSE R[i.rs], R[i.rt])
      /\ i.op \in IArith \cup Loads => x.dest = i.rt
      /\ i.op \in IArith \cup Loads \cup Stores => x.alu_result = a
      /\ i.op \in Stores => x.WDtoMem = Merged(i.op, cpu.mem[a \div 4], a % 4, R[i.rt])
      /\ i.op = "JAL" => x.re_addr = (4 * (x.at + 1)) % WordSize
  BY <1>1 DEF Executed, i, a
<1>5. i.op # "HALT" =>
        /\ v.ctrl = x.ctrl /\ v.dest = x.dest /\ v.alu_result = x.alu_result
        /\ i.op \in Loads /\ i.op \notin Stores =>
             v.RD = Loaded(i.op, cpu.mem[a \div 4], a % 4)
        /\ i.op = "JAL" => v.re_addr = x.re_addr
  <2> SUFFICES ASSUME i.op # "HALT"
               PROVE  /\ v.ctrl = x.ctrl /\ v.dest = x.dest /\ v.alu_result = x.alu_result
                      /\ i.op \in Loads /\ i.op \notin Stores =>
                           v.RD = Loaded(i.op, cpu.mem[a \div 4], a % 4)
                      /\ i.op = "JAL" => v.re_addr = x.re_addr
    OBVIOUS
  <2>1. LinesOf(x.ctrl, i.op)
    BY <1>1
  <2>2. i.op \in Loads => x.alu_result = a
    BY <1>4
  <2>3. /\ i.op \in Loads /\ i.op \notin Stores => x.ctrl.MemRead /\ ~x.ctrl.MemWrite
        /\ x.ctrl.op = i.op
    BY <2>1 DEF LinesOf
  <2>4. /\ v.ctrl = x.ctrl /\ v.dest = x.dest /\ v.alu_result = x.alu_result
        /\ x.ctrl.MemRead /\ ~x.ctrl.MemWrite =>
             v.RD = Loaded(i.op, cpu.mem[x.alu_result \div 4], x.alu_result % 4)
        /\ i.op = "JAL" => v.re_addr = x.re_addr
    BY <2>3, PassedByDM DEF x, v
  <2> QED BY <2>2, <2>3, <2>4
<1>6. i.op = "HALT" => v.ctrl = x.ctrl
  BY PassedByDM DEF x, v
<1>7. i.op \notin Stores => cpu'.mem = cpu.mem
  BY <1>1, <1>4 DEF MemoryAfter, LinesOf, x
<1>8. i.op # "HALT" => Machine!GoTo(p)
  BY <1>1, SameDue DEF Machine!GoTo
<1>9. \A r \in Reg :
        Written(R, v)[r] =
          IF v.ctrl.RegWrite /\ v.dest # 0 /\ r = v.dest
          THEN IF v.ctrl.MemtoReg THEN v.RD ELSE v.alu_result
          ELSE IF v.ctrl.op = "JAL" /\ r = 31 THEN v.re_addr ELSE R[r]
  BY DEF Written
<1>10. i.op \in RArith \cup IArith \cup Loads => p = x.at + 1 /\ i.op # "HALT" /\ i.op \notin Stores
  BY DEF p, i, AfterExecuting, RArith, Shifts, IArith, Loads, Stores, Branches, Jumps
<1>11. i.op \in Stores => p = x.at + 1 /\ i.op # "HALT"
  BY DEF p, i, AfterExecuting, Stores, Branches, Jumps
<1>12. i.op \in Loads \cup Stores =>
         /\ Machine!AddressOf(i) = a
         /\ Machine!Accessible(a)
  <2> SUFFICES ASSUME i.op \in Loads \cup Stores
               PROVE  Machine!AddressOf(i) = a /\ Machine!Accessible(a)
    OBVIOUS
  <2>1. a \in Word
    BY <1>4, Fields DEF PathInv, TypeInv, x
  <2>2. Machine!Accessible(a)
    BY <2>1, Zero DEF Machine!Accessible, Machine!DataWord, DataWord
  <2>3. Machine!AddressOf(i) = a
    BY SameALU, SameSigned DEF Machine!AddressOf, a, R
  <2> QED BY <2>2, <2>3
<1>13. \A r, value : Machine!Set(r, value) <=>
                       Committed' = [q \in Reg |-> IF q = r /\ r # 0 THEN value ELSE R[q]]
  BY DEF Machine!Set, R
<1>14. \A r, value : (\A q \in Reg : Written(R, v)[q] = IF q = r /\ r # 0 THEN value ELSE R[q])
                       => Machine!Set(r, value)
  BY <1>1, <1>13 DEF Written
<1>15. CASE i.op \in RArith
  <2>1. Machine!Set(i.rd, ALU(i.op, IF i.op \in Shifts THEN i.imm ELSE R[i.rs], R[i.rt]))
    BY <1>1, <1>4, <1>5, <1>9, <1>10, <1>14, <1>15 DEF LinesOf, RArith, Shifts, Loads
  <2>2. Machine!ALU(i.op, IF i.op \in Shifts THEN i.imm ELSE R[i.rs], R[i.rt]) =
          ALU(i.op, IF i.op \in Shifts THEN i.imm ELSE R[i.rs], R[i.rt])
    BY SameALU
  <2>3. Machine!RegisterArith
    BY <1>1, <1>2, <1>7, <1>8, <1>10, <1>15, <2>1, <2>2, SameClasses
       DEF Machine!RegisterArith, R
  <2> QED BY <2>3 DEF Machine!Next
<1>16. CASE i.op \in IArith
  <2>1. Machine!Set(i.rt, a)
    BY <1>1, <1>4, <1>5, <1>9, <1>10, <1>14, <1>16 DEF LinesOf, IArith, Loads
  <2>2. Machine!ALU(i.op, R[i.rs], Machine!SignExtend(i.imm)) = a
    BY SameALU, SameSigned DEF a
  <2>3. Machine!ImmediateArith
    BY <1>1, <1>2, <1>7, <1>8, <1>10, <1>16, <2>1, <2>2, SameClasses
       DEF Machine!ImmediateArith, R
  <2> QED BY <2>3 DEF Machine!Next
<1>17. CASE i.op \in Loads
  <2>1. Machine!Set(i.rt, Loaded(i.op, cpu.mem[a \div 4], a % 4))
    BY <1>1, <1>4, <1>5, <1>9, <1>10, <1>14, <1>17 DEF LinesOf, Loads
  <2>2. Machine!Loaded(i.op, cpu.mem[a \div 4], a % 4) = Loaded(i.op, cpu.mem[a \div 4], a % 4)
    BY SameBytes
  <2>3. Machine!Load
    BY <1>1, <1>2, <1>7, <1>8, <1>10, <1>12, <1>17, <2>1, <2>2, SameClasses
       DEF Machine!Load
  <2> QED BY <2>3 DEF Machine!Next
<1>18. CASE i.op \in Stores
  <2>1. cpu'.mem = [cpu.mem EXCEPT ![a \div 4] = Merged(i.op, cpu.mem[a \div 4], a % 4, R[i.rt])]
    BY <1>1, <1>4, <1>11, <1>18 DEF MemoryAfter, LinesOf, Loads, Stores, x
  <2>2. Machine!Merged(i.op, cpu.mem[a \div 4], a % 4, R[i.rt])
          = Merged(i.op, cpu.mem[a \div 4], a % 4, R[i.rt])
    BY SameBytes
  <2>3. Committed' = R
    BY <1>1, <1>5, <1>11, <1>18, NothingWritten
       DEF LinesOf, RArith, Shifts, IArith, Loads, Stores
  <2>4. Machine!Store
    BY <1>1, <1>2, <1>8, <1>11, <1>12, <1>18, <2>1, <2>2, <2>3, SameClasses
       DEF Machine!Store, R
  <2> QED BY <2>4 DEF Machine!Next
<1>19. CASE i.op \in Branches
  <2>1. p = IF (R[i.rs] = R[i.rt]) <=> (i.op = "BEQ") THEN Target(x.at, i) ELSE x.at + 1
    BY <1>19 DEF p, AfterExecuting, i
  <2>2. Committed' = R
    BY <1>1, <1>5, <1>19, NothingWritten DEF LinesOf, RArith, Shifts, IArith, Loads, Branches
  <2>3. Machine!Target(x.at, i) = Target(x.at, i)
    BY SameTarget
  <2>4. Machine!Branch
    BY <1>1, <1>2, <1>7, <1>8, <1>19, <2>1, <2>2, <2>3, SameClasses
       DEF Machine!Branch, R, Branches, Stores
  <2> QED BY <2>4 DEF Machine!Next
<1>20. CASE i.op \in Jumps
  <2>1. p = IF i.op = "JR" THEN R[i.rs] \div 4 ELSE i.imm
    BY <1>20 DEF p, AfterExecuting, i, Jumps, Branches
  <2>2. ~x.ctrl.RegWrite /\ i.op # "HALT" /\ i.op \notin Stores
    BY <1>1, <1>20 DEF LinesOf, RArith, Shifts, IArith, Loads, Jumps, Stores
  <2>3. CASE i.op = "JAL"
    <3>1. Machine!Set(31, (4 * (x.at + 1)) % WordSize)
      BY <1>4, <1>5, <1>9, <1>14, <2>2, <2>3
    <3>2. Machine!Jump
      BY <1>1, <1>2, <1>7, <1>8, <2>1, <2>2, <2>3, <3>1, SameSizes DEF Machine!Jump, R
    <3> QED BY <3>2 DEF Machine!Next
  <2>4. CASE i.op # "JAL"
    <3>1. Committed' = R
      BY <1>1, <1>4, <1>5, <2>2, <2>4, NothingWritten
    <3>2. Machine!Jump
      BY <1>1, <1>2, <1>7, <1>8, <1>20, <2>1, <2>2, <2>4, <3>1 DEF Machine!Jump, R, Jumps
    <3> QED BY <3>2 DEF Machine!Next
  <2> QED BY <2>3, <2>4
<1>21. CASE i.op = "HALT"
  <2>1. Committed' = R
    BY <1>1, <1>6, <1>21, NothingWritten DEF LinesOf, RArith, Shifts, IArith, Loads
  <2>2. Machine!Halt
    BY <1>1, <1>2, <1>7, <1>21, <2>1, SameSizes DEF Machine!Halt, R, Stores
  <2> QED BY <2>2 DEF Machine!Next
<1> QED BY <1>3, <1>15, <1>16, <1>17, <1>18, <1>19, <1>20, <1>21 DEF Op, RType, Jumps

\* The pipeline starts where Machine may start.
LEMMA StartsAsMachine ==
  ASSUME Init
  PROVE  Machine!Init
<1>1. /\ code \in [Address -> Instr] /\ cpu.mem \in [DataWord -> Word]
      /\ cpu.reg \in [Reg -> Word]
  BY TypedAtTheStart DEF TypeInv, TypeOK
<1>2. /\ cpu.reg[0] = 0 /\ cpu.halt = FALSE /\ cpu.PC \in Address
      /\ cpu.mem_wb = NoMEM_WB /\ cpu.ex_mem = NoEX_MEM /\ cpu.id_ex = NoID_EX
      /\ cpu.if_id.nop = TRUE
  BY AtTheStart, Zero, ProgramAssumption DEF Init, InitCPU
<1>3. cpu.mem_wb.nop /\ cpu.ex_mem.nop /\ cpu.id_ex.nop
  BY <1>2 DEF NoMEM_WB, NoEX_MEM, NoID_EX
<1>4. Committed = cpu.reg /\ cpu.reg[0] = 0
  BY <1>2, <1>3, Zero DEF Committed
<1>5. Oldest = Due(code, cpu.PC)
  BY <1>2, <1>3 DEF Oldest
<1>6. \E start \in Address \cup {Stopped} : Oldest = Machine!Due(code, start)
  BY <1>2, <1>5, SameDue
<1>7. Machine!Address = Address /\ Machine!DataWord = DataWord
  BY SameSizes DEF Machine!Address, Address, Machine!DataWord, DataWord
<1> QED BY <1>1, <1>4, <1>6, <1>7, SameSizes, SameInstr DEF Machine!Init

\* The pipeline executes its program one instruction after the other, each on
\* what the ones before it left, and nothing that a misprediction or a jump let
\* in takes effect: for every program that stays in its code, makes no
\* misaligned access and lets no displacement of a branch pass for a register.
THEOREM RefinesISA ==
  Spec /\ []InCode /\ []Aligned /\ []~FalseDependence => ImplementsISA
<1>1. Init => PathInv /\ Machine!Init
  BY PathAtTheStart, StartsAsMachine
<1>2. /\ PathInv /\ InCode /\ InCode' /\ Aligned /\ Aligned' /\ (~FalseDependence)'
      /\ [Next]_vars
      => PathInv' /\ [Machine!Next]_Machine!vars
  <2> SUFFICES ASSUME PathInv, InCode, InCode', Aligned, Aligned', ~FalseDependence',
                      [Next]_vars
               PROVE  PathInv' /\ [Machine!Next]_Machine!vars
    OBVIOUS
  <2>1. CASE Cycle
    <3>1. PathInv'
      BY <2>1, PathKept
    <3>2. CASE cpu'.halt \/ cpu.ex_mem.nop
      BY <2>1, <3>1, <3>2, Stutters
    <3>3. CASE ~(cpu'.halt \/ cpu.ex_mem.nop)
      BY <2>1, <3>1, <3>3, CompletesAStep
    <3> QED BY <3>1, <3>2, <3>3
  <2>2. CASE UNCHANGED vars
    <3>1. cpu' = cpu /\ code' = code
      BY <2>2 DEF vars
    <3>2. TypeInv'
      BY <3>1 DEF PathInv, TypeInv, Flags, BackLines, TypeOK, FromCode
    <3>3. Order' /\ OperandsCurrent'
      BY <3>1 DEF PathInv, Order, InCode, OperandsCurrent
    <3>4. FetchPath(cpu)' /\ HaltLast(cpu)'
      BY <3>1 DEF PathInv, FetchPath, HaltLast
    <3>5. DecodePath(cpu)'
      BY <3>1 DEF PathInv, DecodePath, DueID, After
    <3>6. ExecutePath(cpu)'
      <4>1. DueEX(cpu)' = DueEX(cpu) /\ Registers(cpu)' = Registers(cpu)
        BY <3>1 DEF DueEX, DueID, Registers
      <4>2. \A x, p, reg, mem :
              /\ Executed(x, p, reg, mem)' <=> Executed(x, p, reg, mem)
              /\ AfterExecuting(p, reg)' = AfterExecuting(p, reg)
        BY <3>1 DEF Executed, AfterExecuting
      <4> QED BY <3>1, <4>1, <4>2 DEF PathInv, ExecutePath
    <3>7. UNCHANGED Machine!vars
      BY <3>1 DEF Machine!vars, Oldest, Committed
    <3> QED BY <3>2, <3>3, <3>4, <3>5, <3>6, <3>7 DEF PathInv
  <2> QED BY <2>1, <2>2 DEF Next
<1>3. Machine!Init /\ [][Machine!Next]_Machine!vars => ImplementsISA
  BY PTL DEF ImplementsISA, Machine!Spec
<1> QED BY <1>1, <1>2, <1>3, PTL DEF Spec
=============================================================================
