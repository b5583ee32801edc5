---------------------------- MODULE SingleCycle -----------------------------
(***************************************************************************)
(* proj1: the single-cycle processor with its error handler.  A turn of    *)
(* main's loop prints a snapshot, checks the PC, and fetches and executes  *)
(* one instruction, whose checks report errors as they find them: a write  *)
(* to $0 and a number overflow are reported and execution goes on, an      *)
(* address overflow and a misalignment stop the machine.                   *)
(*                                                                         *)
(* log is Error_dump.rpt, snapshots the cycle numbers in snapshot.rpt.     *)
(***************************************************************************)
EXTENDS Datapath, Sequences

CONSTANTS
  CodeWords,  \* words of i_memory, 256 in the code
  DataWords,  \* words of d_memory, 256 in the code
  MaxCycles,  \* bound: Project1.docx keeps programs below 30000 cycles
  Programs    \* what the loader may leave

Address  == 0 .. CodeWords - 1
DataWord == 0 .. DataWords - 1

WT_REG_0 == "Write $0"
NUM_OF   == "Number overflow"
MEM_OF   == "Address overflow"
DATA_MIS == "Misalignment"
Fatal    == {MEM_OF, DATA_MIS}

\* The code image, the start address (byte address PC * 4 + check_PC), the
\* initial $sp and the data image.
Program == [code : [Address -> Instr], PC : Word, check_PC : 0 .. 3, sp : Word,
            mem : [DataWord -> Word]]

ASSUME ProgramAssumption ==
  /\ CodeWords \in Nat \ {0} /\ DataWords \in Nat \ {0} /\ MaxCycles \in Nat
  /\ 4 * DataWords + HalfSize <= WordSize \div 2
  /\ CodeWords + HalfSize <= WordSize \div 2
  /\ Programs \subseteq Program
  /\ \A p \in Programs, a \in Address : p.code[a].op = "SRA" => p.code[a].imm # 0

VARIABLES
  code,       \* i_memory
  PC,         \* vcpu.PC, a word address
  check_PC,   \* the start address modulo 4
  reg,
  mem,        \* d_memory
  halt,       \* vcpu.halt_flag, and the breaks out of the loop
  cycle,
  log,        \* reported errors, each with the cycle it names
  snapshots   \* the cycles of the snapshots printed

vars == <<code, PC, check_PC, reg, mem, halt, cycle, log, snapshots>>

Init ==
  \E p \in Programs :
    /\ code = p.code /\ PC = p.PC /\ check_PC = p.check_PC /\ mem = p.mem
    /\ reg = [r \in Reg |-> IF r = 29 THEN p.sp ELSE 0]
    /\ halt = FALSE /\ cycle = 0 /\ log = <<>> /\ snapshots = <<>>
-----------------------------------------------------------------------------
Flag(condition, error) == IF condition THEN <<error>> ELSE <<>>

\* err_handler, called for each error of a sequence in cycle c.
Reported(errors, c) ==
  log \o [k \in 1 .. Len(errors) |-> [err |-> errors[k], cycle |-> c]]

Here == code[PC]

\* A turn that gets past the checks of the PC.
Fetched(ops) ==
  ~halt /\ cycle < MaxCycles /\ PC \in Address /\ check_PC = 0 /\ Here.op \in ops

\* What every such turn does besides its instruction.
Turn(errors, next_PC) ==
  /\ log' = Reported(errors, cycle)
  /\ PC' = next_PC
  /\ snapshots' = Append(snapshots, cycle)
  /\ cycle' = cycle + 1
  /\ UNCHANGED <<code, check_PC>>

\* Slip: $0 is a register like the others.
Set_ZeroToo(r, value) == reg' = [x \in Reg |-> IF x = r THEN value ELSE reg[x]]

\* store_dest_reg, store_result_to_rt.
Set(r, value) == reg' = [x \in Reg |-> IF x = r /\ r # 0 THEN value ELSE reg[x]]

\* The loop leaves at its checks of the PC: no instruction, no cycle++.
BadPC ==
  /\ ~halt /\ cycle < MaxCycles
  /\ PC \notin Address \/ check_PC # 0
  /\ log' = Reported(<<IF PC \notin Address THEN MEM_OF ELSE DATA_MIS>>, cycle)
  /\ snapshots' = Append(snapshots, cycle)
  /\ halt' = TRUE
  /\ UNCHANGED <<code, PC, check_PC, reg, mem, cycle>>

\* Slip: the destination is checked before the operands.
RegisterArith_DestinationFirst ==
  /\ Fetched(RArith)
  /\ LET i == Here
         a == IF i.op \in Shifts THEN i.imm ELSE reg[i.rs]
         b == reg[i.rt]
     IN  /\ Turn(Flag(i.rd = 0, WT_REG_0) \o Flag(NumOverflow(i.op, a, b), NUM_OF), PC + 1)
         /\ Set(i.rd, ExecR(i.op, a, b))
  /\ UNCHANGED <<mem, halt>>

RegisterArith ==
  /\ Fetched(RArith)
  /\ LET i == Here
         a == IF i.op \in Shifts THEN i.imm ELSE reg[i.rs]
         b == reg[i.rt]
     IN  /\ Turn(Flag(NumOverflow(i.op, a, b), NUM_OF) \o Flag(i.rd = 0, WT_REG_0), PC + 1)
         /\ Set(i.rd, ExecR(i.op, a, b))
  /\ UNCHANGED <<mem, halt>>

ImmediateArith ==
  /\ Fetched(IArith)
  /\ LET i == Here
         a == reg[i.rs]
         overflow == CASE i.op = "ADDI"  -> check_num_OF_add(a, SignExtend(i.imm))
                       [] i.op = "ADDIU" -> check_num_OF_addu(a, i.imm)
                       [] OTHER          -> FALSE
     IN  /\ Turn(Flag(overflow, NUM_OF) \o Flag(i.rt = 0, WT_REG_0), PC + 1)
         /\ Set(i.rt, ImmediateALU(i.op, a, SignExtend(i.imm)))
  /\ UNCHANGED <<mem, halt>>

AddressOf(i) == (reg[i.rs] + SignC(i)) % WordSize

\* What loads and stores check before they touch memory, in their order.
AddressOverflow(i) == check_num_OF_add(reg[i.rs], SignExtend(i.imm))
OutOfRange(i)      == check_mem_OF(i.op, Signed(reg[i.rs]), SignC(i), 4 * DataWords)
Misaligned(i)      == check_data_mis(i.op, Signed(reg[i.rs]), SignC(i))

\* Slip: the access is left out, and execution goes on.
AccessFault_GoesOn ==
  /\ Fetched(Loads \cup Stores)
  /\ OutOfRange(Here) \/ Misaligned(Here)
  /\ Turn(Flag(AddressOverflow(Here), NUM_OF)
            \o <<IF OutOfRange(Here) THEN MEM_OF ELSE DATA_MIS>>, PC + 1)
  /\ UNCHANGED <<reg, mem, halt>>

\* An access that stops the machine.
AccessFault ==
  /\ Fetched(Loads \cup Stores)
  /\ OutOfRange(Here) \/ Misaligned(Here)
  /\ Turn(Flag(AddressOverflow(Here), NUM_OF)
            \o <<IF OutOfRange(Here) THEN MEM_OF ELSE DATA_MIS>>, PC + 1)
  /\ halt' = TRUE
  /\ UNCHANGED <<reg, mem>>

Load ==
  /\ Fetched(Loads)
  /\ ~OutOfRange(Here) /\ ~Misaligned(Here)
  /\ LET i == Here
         a == AddressOf(i)
     IN  /\ Turn(Flag(AddressOverflow(i), NUM_OF) \o Flag(i.rt = 0, WT_REG_0), PC + 1)
         /\ Set(i.rt, ExecLoad(i.op, mem[a \div 4], a))
  /\ UNCHANGED <<mem, halt>>

Store ==
  /\ Fetched(Stores)
  /\ ~OutOfRange(Here) /\ ~Misaligned(Here)
  /\ LET i == Here
         a == AddressOf(i)
     IN  /\ Turn(Flag(AddressOverflow(i), NUM_OF), PC + 1)
         /\ mem' = [mem EXCEPT ![a \div 4] = ExecStore(i.op, @, a, reg[i.rt])]
  /\ UNCHANGED <<reg, halt>>

Branch ==
  /\ Fetched(Branches)
  /\ LET i == Here
         taken == (reg[i.rs] = reg[i.rt]) <=> (i.op = "BEQ")
     IN  Turn(Flag(check_num_OF_add(PC + 1, SignExtend(i.imm)), NUM_OF),
              IF taken THEN (PC + 1 + SignC(i)) % WordSize ELSE PC + 1)
  /\ UNCHANGED <<reg, mem, halt>>

\* The upper bits of PC, which exec_j keeps, are zero here.
Jump ==
  /\ Fetched({"J", "JAL"})
  /\ Turn(<<>>, Here.imm)
  /\ IF Here.op = "JAL" THEN Set(31, ShiftLeft(PC + 1, 2)) ELSE UNCHANGED reg
  /\ UNCHANGED <<mem, halt>>

JumpRegister ==
  /\ Fetched({"JR"})
  /\ reg[Here.rs] % 4 = 0
  /\ Turn(<<>>, reg[Here.rs] \div 4)
  /\ UNCHANGED <<reg, mem, halt>>

\* Slip: the error is reported in the cycle of the jump.
JumpFault_SameCycle ==
  /\ Fetched({"JR"})
  /\ reg[Here.rs] % 4 # 0
  /\ log' = Reported(<<DATA_MIS>>, cycle)
  /\ snapshots' = snapshots \o <<cycle, cycle>>
  /\ PC' = reg[Here.rs] \div 4
  /\ cycle' = cycle + 1
  /\ halt' = TRUE
  /\ UNCHANGED <<code, check_PC, reg, mem>>

\* check_data_mis_instr: the error belongs to the next cycle, whose snapshot it
\* prints; exec_jr still runs, then the loop ends.
JumpFault ==
  /\ Fetched({"JR"})
  /\ reg[Here.rs] % 4 # 0
  /\ log' = Reported(<<DATA_MIS>>, cycle + 1)
  /\ snapshots' = snapshots \o <<cycle, cycle + 1>>
  /\ PC' = reg[Here.rs] \div 4
  /\ cycle' = cycle + 2
  /\ halt' = TRUE
  /\ UNCHANGED <<code, check_PC, reg, mem>>

Halt ==
  /\ Fetched({"HALT"})
  /\ Turn(<<>>, PC + 1)
  /\ halt' = TRUE
  /\ UNCHANGED <<reg, mem>>

Next == \/ BadPC \/ RegisterArith \/ ImmediateArith \/ AccessFault \/ Load \/ Store
        \/ Branch \/ Jump \/ JumpRegister \/ JumpFault \/ Halt

Spec == Init /\ [][Next]_vars
-----------------------------------------------------------------------------
(* Properties.                                                             *)

TypeOK ==
  /\ code \in [Address -> Instr] /\ PC \in Word /\ check_PC \in 0 .. 3
  /\ reg \in [Reg -> Word] /\ reg[0] = 0
  /\ mem \in [DataWord -> Word]
  /\ halt \in BOOLEAN /\ cycle \in 0 .. MaxCycles + 1
  /\ log \in Seq([err : {WT_REG_0, NUM_OF} \cup Fatal, cycle : 0 .. MaxCycles])
  /\ snapshots \in Seq(0 .. MaxCycles)

\* Appendix D.docx: number overflow comes before address overflow, that before
\* misalignment, and that before a write to $0.
Priority(err) == CASE err = NUM_OF -> 1 [] err = MEM_OF -> 2
                   [] err = DATA_MIS -> 3 [] err = WT_REG_0 -> 4

\* The log is in the order of cycles, and of priorities within a cycle; so no
\* error is reported twice in a cycle.
ErrorOrder ==
  \A k \in 1 .. Len(log) - 1 :
    \/ log[k].cycle < log[k + 1].cycle
    \/ log[k].cycle = log[k + 1].cycle /\ Priority(log[k].err) < Priority(log[k + 1].err)

\* A fatal error is the end of the run: nothing is reported after it, and the
\* last snapshot printed is the one of the cycle it names.
FatalIsLast ==
  \A k \in 1 .. Len(log) : log[k].err \in Fatal =>
    halt /\ k = Len(log) /\ snapshots[Len(snapshots)] = log[k].cycle

\* Every cycle has one snapshot, in order, and every error names one of them.
OneSnapshotPerCycle ==
  /\ \A k \in 1 .. Len(snapshots) : snapshots[k] = k - 1
  /\ \A k \in 1 .. Len(log) : log[k].cycle < Len(snapshots)

\* What the checks should find, from sums of integers that do not wrap.
Fits(x)     == -(WordSize \div 2) <= x /\ x < WordSize \div 2
Place(i)    == Signed(reg[i.rs]) + SignC(i)
Overflow(i) ==
  CASE i.op = "ADD"   -> ~Fits(Signed(reg[i.rs]) + Signed(reg[i.rt]))
    [] i.op = "SUB"   -> ~Fits(Signed(reg[i.rs]) - Signed(reg[i.rt]))
    [] i.op = "ADDU"  -> reg[i.rs] + reg[i.rt] >= WordSize
    [] i.op = "SUBU"  -> reg[i.rs] < reg[i.rt]
    [] i.op = "ADDIU" -> reg[i.rs] + i.imm >= WordSize
    [] i.op \in {"ADDI"} \cup Loads \cup Stores -> ~Fits(Place(i))
    [] OTHER          -> FALSE
Width(i)    == IF i.op \in {"LW", "SW", "JR"} THEN 4
               ELSE IF i.op \in {"LH", "LHU", "SH"} THEN 2 ELSE 1
Outside(i)  == i.op \in Loads \cup Stores
                 /\ (Place(i) < 0 \/ Place(i) + Width(i) > 4 * DataWords)
Askew(i)    == \/ i.op \in Loads \cup Stores /\ Place(i) % Width(i) # 0
               \/ i.op = "JR" /\ reg[i.rs] % 4 # 0
WritesZero(i) == \/ i.op \in RArith /\ i.rd = 0
                 \/ i.op \in IArith \cup Loads /\ i.rt = 0

ErrorsDue ==
  IF PC \notin Address THEN {MEM_OF}
  ELSE IF check_PC # 0 THEN {DATA_MIS}
  ELSE {e \in {NUM_OF} : Overflow(Here)}
         \cup (IF Outside(Here) THEN {MEM_OF}
               ELSE IF Askew(Here) THEN {DATA_MIS}
               ELSE {e \in {WT_REG_0} : WritesZero(Here)})

NewErrors == {log'[k].err : k \in Len(log) + 1 .. Len(log')}

\* A turn reports just the errors of its instruction: carry chains, wrapped sums
\* and the order of the checks agree with arithmetic on integers.
ErrorsExact == [][NewErrors = ErrorsDue]_vars

Machine == INSTANCE ISA WITH
  pc <- IF halt \/ check_PC # 0 THEN Stopped ELSE Due(code, PC)

\* A turn that stops the machine for an error does nothing else to it.
Trap == NewErrors \cap Fatal # {} /\ halt' /\ UNCHANGED <<code, reg, mem>>

\* The machine of the instruction set, but for turns that stop it: errors that
\* are only reported change nothing.
ImplementsISA == Machine!Init /\ [][Trap \/ Machine!Next]_(Machine!vars)
-----------------------------------------------------------------------------
(* What proj1/doc/Appendix D.docx says and the code does not do.           *)

\* Address overflow comes before misalignment, for jumps as for accesses.
AddressOverflowFirst ==
  [][NewErrors \cap {DATA_MIS} # {} =>
       IF Here.op \in Loads \cup Stores THEN ~Outside(Here) ELSE PC' \in Address]_vars
=============================================================================
