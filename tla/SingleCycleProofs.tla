------------------------- MODULE SingleCycleProofs --------------------------
(***************************************************************************)
(* The single-cycle processor, for any programs, sizes and widths.         *)
(*                                                                         *)
(* Its reports: the error log is in order, a fatal error ends it, and      *)
(* every cycle has one snapshot.  ReportsOK adds what a running machine    *)
(* has done: a snapshot for each cycle before this one, no fatal error.    *)
(*                                                                         *)
(* Its machine: registers and memory hold words, a turn reports exactly    *)
(* the errors of its instruction, and does what the instruction set says.  *)
(* One lemma for each action shows all three (GoodStep), from MachineOK    *)
(* and from what DatapathProofs says of the units.                         *)
(***************************************************************************)
EXTENDS SingleCycle, DatapathProofs

Errors == {WT_REG_0, NUM_OF} \cup Fatal
Entry  == [err : Errors, cycle : Nat]

ReportsTyped ==
  /\ halt \in BOOLEAN /\ cycle \in Nat
  /\ log \in Seq(Entry) /\ snapshots \in Seq(Nat)

\* Before halting, everything reported is of earlier cycles and none is fatal.
Running ==
  ~halt => /\ Len(snapshots) = cycle
           /\ \A k \in 1 .. Len(log) : log[k].cycle < cycle /\ log[k].err \notin Fatal

ReportsOK == ReportsTyped /\ ErrorOrder /\ FatalIsLast /\ OneSnapshotPerCycle /\ Running

\* What one turn reports: errors by priority, only the last of them fatal.
Reportable(errors) ==
  /\ errors \in Seq(Errors)
  /\ \A k \in 1 .. Len(errors) - 1 :
       Priority(errors[k]) < Priority(errors[k + 1]) /\ errors[k] \notin Fatal

EndsFatally(errors) == \E k \in 1 .. Len(errors) : errors[k] \in Fatal

\* The number of each error in the order of its reports.
LEMMA Priorities ==
  /\ Priority(NUM_OF) = 1 /\ Priority(MEM_OF) = 2
  /\ Priority(DATA_MIS) = 3 /\ Priority(WT_REG_0) = 4
BY DEF Priority, NUM_OF, MEM_OF, DATA_MIS, WT_REG_0

\* The sequences that the actions report.
LEMMA NoError == Reportable(<<>>) /\ ~EndsFatally(<<>>)
BY DEF Reportable, EndsFatally

\* One error alone can be reported; it ends the run if it is fatal.
LEMMA OneError ==
  ASSUME NEW e \in Errors
  PROVE  Reportable(<<e>>) /\ (EndsFatally(<<e>>) <=> e \in Fatal)
BY DEF Reportable, EndsFatally

\* One optional number overflow, then one other optional error.
LEMMA Flags ==
  ASSUME NEW c, NEW d, NEW e \in Errors, e # NUM_OF
  PROVE  /\ Reportable(Flag(c, NUM_OF) \o Flag(d, e))
         /\ EndsFatally(Flag(c, NUM_OF) \o Flag(d, e)) <=> d /\ e \in Fatal
<1>1. NUM_OF \in Errors /\ NUM_OF \notin Fatal
  BY ZenonT(30) DEF Errors, Fatal, NUM_OF, MEM_OF, DATA_MIS
<1>2. CASE ~c /\ ~d
  <2>1. Flag(c, NUM_OF) \o Flag(d, e) = <<>>
    BY <1>2 DEF Flag
  <2> QED
    BY <1>2, <2>1, NoError
<1>3. CASE c /\ ~d
  <2>1. Flag(c, NUM_OF) \o Flag(d, e) = <<NUM_OF>>
    BY <1>3 DEF Flag
  <2> QED
    BY <1>1, <1>3, <2>1, OneError
<1>4. CASE ~c /\ d
  <2>1. Flag(c, NUM_OF) \o Flag(d, e) = <<e>>
    BY <1>4 DEF Flag
  <2> QED
    BY <1>4, <2>1, OneError
<1>5. CASE c /\ d
  <2> DEFINE s == Flag(c, NUM_OF) \o Flag(d, e)
  <2>1. s \in Seq(Errors) /\ Len(s) = 2 /\ s[1] = NUM_OF /\ s[2] = e
    BY <1>1, <1>5 DEF Flag
  <2>2. Priority(NUM_OF) < Priority(e)
    BY Priorities DEF Errors, Fatal
  <2> HIDE DEF s
  <2>3. Reportable(s) /\ (EndsFatally(s) <=> e \in Fatal)
    BY <1>1, <2>1, <2>2 DEF Reportable, EndsFatally
  <2> QED
    BY <1>5, <2>3 DEF s
<1> QED
  BY <1>2, <1>3, <1>4, <1>5

\* An optional number overflow, then an optional write to register 0: neither is fatal.
LEMMA FlagsZero ==
  ASSUME NEW c, NEW d
  PROVE  /\ Reportable(Flag(c, NUM_OF) \o Flag(d, WT_REG_0))
         /\ ~EndsFatally(Flag(c, NUM_OF) \o Flag(d, WT_REG_0))
<1>1. WT_REG_0 \in Errors /\ WT_REG_0 # NUM_OF /\ WT_REG_0 \notin Fatal
  BY DEF Errors, Fatal, WT_REG_0, NUM_OF, MEM_OF, DATA_MIS
<1> QED
  BY <1>1, Flags

\* An optional number overflow alone, which is not fatal.
LEMMA OneFlag ==
  ASSUME NEW c
  PROVE  Reportable(Flag(c, NUM_OF)) /\ ~EndsFatally(Flag(c, NUM_OF))
<1>1. NUM_OF \in Errors /\ NUM_OF \notin Fatal
  BY DEF Errors, Fatal, NUM_OF, MEM_OF, DATA_MIS
<1> QED
  BY <1>1, OneError, NoError DEF Flag
-----------------------------------------------------------------------------
\* Reporting them in cycle c, after all that was reported, keeps the log right.
LEMMA ReportKeeps ==
  ASSUME ReportsOK, ~halt, NEW c \in Nat, cycle <= c, NEW errors, Reportable(errors),
         log' = Reported(errors, c)
  PROVE  /\ log' \in Seq(Entry)
         /\ ErrorOrder'
         /\ \A k \in 1 .. Len(log') : log'[k].cycle <= c
         /\ ~EndsFatally(errors) => \A k \in 1 .. Len(log') : log'[k].err \notin Fatal
         /\ \A k \in 1 .. Len(log') : log'[k].err \in Fatal =>
              k = Len(log') /\ log'[k].cycle = c
<1> DEFINE new == [k \in 1 .. Len(errors) |-> [err |-> errors[k], cycle |-> c]]
<1>1. /\ log \in Seq(Entry) /\ cycle \in Nat
      /\ \A k \in 1 .. Len(log) : log[k].cycle < cycle /\ log[k].err \notin Fatal
  BY DEF ReportsOK, ReportsTyped, Running
<1>2. errors \in Seq(Errors) /\ Len(errors) \in Nat /\ Len(log) \in Nat
  BY <1>1 DEF Reportable
<1>3. new \in Seq(Entry) /\ Len(new) = Len(errors)
  BY <1>2 DEF Entry
<1>4. /\ log' \in Seq(Entry)
      /\ Len(log') = Len(log) + Len(errors)
      /\ \A k \in 1 .. Len(log) : log'[k] = log[k]
      /\ \A k \in 1 .. Len(errors) :
           log'[Len(log) + k] = [err |-> errors[k], cycle |-> c]
  BY <1>1, <1>3 DEF Reported
<1> HIDE DEF new
\* An entry of the new log is an old one or one of errors.
<1>5. ASSUME NEW k \in 1 .. Len(log')
      PROVE  \/ k \in 1 .. Len(log) /\ log'[k] = log[k]
             \/ /\ k - Len(log) \in 1 .. Len(errors)
                /\ log'[k].err = errors[k - Len(log)] /\ log'[k].cycle = c
  <2>2. CASE k \in 1 .. Len(log)
    BY <1>4, <2>2
  <2>3. CASE k > Len(log)
    <3> DEFINE j == k - Len(log)
    <3>1. j \in 1 .. Len(errors) /\ k = Len(log) + j
      BY <1>2, <1>4, <2>3
    <3> HIDE DEF j
    <3>2. log'[k] = [err |-> errors[j], cycle |-> c]
      BY <1>4, <3>1
    <3> QED
      BY <3>1, <3>2 DEF j
  <2> QED
    BY <1>2, <1>4, <2>2, <2>3
<1>6. ASSUME NEW k \in 1 .. Len(log)
      PROVE  log[k].cycle \in Nat /\ log[k].cycle < c
  <2>1. log[k] \in Entry
    BY <1>1
  <2> QED
    BY <1>1, <2>1 DEF Entry
<1>7. \A k \in 1 .. Len(log') : log'[k].cycle <= c
  BY <1>5, <1>6
<1>8. ~EndsFatally(errors) => \A k \in 1 .. Len(log') : log'[k].err \notin Fatal
  BY <1>1, <1>5 DEF EndsFatally
<1>9. ASSUME NEW k \in 1 .. Len(log'), log'[k].err \in Fatal
      PROVE  k = Len(log') /\ log'[k].cycle = c
  <2>1. /\ k - Len(log) \in 1 .. Len(errors) /\ errors[k - Len(log)] \in Fatal
        /\ log'[k].cycle = c
    BY <1>1, <1>5, <1>9
  <2>2. k - Len(log) \notin 1 .. Len(errors) - 1
    BY <2>1 DEF Reportable
  <2> QED
    BY <1>2, <1>4, <2>1, <2>2
<1>10. ASSUME NEW k \in 1 .. Len(log') - 1
       PROVE  \/ log'[k].cycle < log'[k + 1].cycle
              \/ /\ log'[k].cycle = log'[k + 1].cycle
                 /\ Priority(log'[k].err) < Priority(log'[k + 1].err)
  <2>1. k \in 1 .. Len(log') /\ k + 1 \in 1 .. Len(log')
    BY <1>2, <1>4
  <2>2. CASE k + 1 \in 1 .. Len(log)
    <3>1. k \in 1 .. Len(log) - 1 /\ k \in 1 .. Len(log)
      BY <1>2, <2>1, <2>2
    <3> QED
      BY <1>4, <2>2, <3>1 DEF ReportsOK, ErrorOrder
  <2>3. CASE k \in 1 .. Len(log) /\ k + 1 \notin 1 .. Len(log)
    BY <1>4, <1>5, <1>6, <2>1, <2>3
  <2>4. CASE k \notin 1 .. Len(log)
    <3>1. k - Len(log) \in 1 .. Len(errors) - 1 /\ k + 1 - Len(log) = (k - Len(log)) + 1
      BY <1>2, <1>4, <2>1, <2>4
    <3>2. /\ log'[k].err = errors[k - Len(log)] /\ log'[k].cycle = c
          /\ log'[k + 1].err = errors[(k - Len(log)) + 1] /\ log'[k + 1].cycle = c
      BY <1>2, <1>5, <2>1, <2>4, <3>1
    <3> QED
      BY <3>1, <3>2 DEF Reportable
  <2> QED
    BY <1>2, <2>1, <2>2, <2>3, <2>4
<1>11. ErrorOrder'
  BY <1>10, ZenonT(30) DEF ErrorOrder, Priority, NUM_OF, MEM_OF, DATA_MIS, WT_REG_0
<1> QED
  BY <1>4, <1>7, <1>8, <1>9, <1>11

\* A turn that has printed a snapshot for every cycle up to c.
LEMMA EndKeeps ==
  ASSUME ReportsOK, ~halt, NEW c \in Nat, cycle <= c, NEW errors, Reportable(errors),
         log' = Reported(errors, c),
         halt' \in BOOLEAN, EndsFatally(errors) => halt',
         cycle' \in Nat, ~halt' => cycle' = c + 1,
         snapshots' \in Seq(Nat), Len(snapshots') = c + 1,
         \A k \in 1 .. Len(snapshots') : snapshots'[k] = k - 1
  PROVE  ReportsOK'
<1>1. /\ log' \in Seq(Entry)
      /\ ErrorOrder'
      /\ \A k \in 1 .. Len(log') : log'[k].cycle <= c
      /\ ~EndsFatally(errors) => \A k \in 1 .. Len(log') : log'[k].err \notin Fatal
      /\ \A k \in 1 .. Len(log') : log'[k].err \in Fatal =>
           k = Len(log') /\ log'[k].cycle = c
  BY ReportKeeps
<1>2. ASSUME NEW k \in 1 .. Len(log') PROVE log'[k].cycle \in Nat
  <2>1. log'[k] \in Entry
    BY <1>1
  <2> QED
    BY <2>1 DEF Entry
<1>3. ReportsTyped'
  BY <1>1 DEF ReportsTyped
<1>4. FatalIsLast'
  BY <1>1 DEF FatalIsLast
<1>5. OneSnapshotPerCycle'
  <2> SUFFICES ASSUME NEW k \in 1 .. Len(log') PROVE log'[k].cycle < Len(snapshots')
    BY DEF OneSnapshotPerCycle
  <2> QED
    BY <1>1, <1>2, SMTT(30)
<1>6. Running'
  BY <1>1, <1>2 DEF Running
<1> QED
  BY <1>1, <1>3, <1>4, <1>5, <1>6 DEF ReportsOK

\* The snapshots of a machine that has not halted.
LEMMA SnapshotsSoFar ==
  ASSUME ReportsOK, ~halt
  PROVE  /\ cycle \in Nat /\ snapshots \in Seq(Nat) /\ Len(snapshots) = cycle
         /\ \A k \in 1 .. Len(snapshots) : snapshots[k] = k - 1
BY DEF ReportsOK, ReportsTyped, Running, OneSnapshotPerCycle

\* A turn that counts itself.
LEMMA TurnKeeps ==
  ASSUME ReportsOK, ~halt, NEW errors, Reportable(errors), NEW p, Turn(errors, p),
         halt' \in BOOLEAN, EndsFatally(errors) => halt'
  PROVE  ReportsOK'
<1>1. /\ log' = Reported(errors, cycle)
      /\ snapshots' = Append(snapshots, cycle)
      /\ cycle' = cycle + 1
  BY DEF Turn
<1>2. /\ snapshots' \in Seq(Nat) /\ Len(snapshots') = cycle + 1
      /\ \A k \in 1 .. Len(snapshots') : snapshots'[k] = k - 1
  BY <1>1, SnapshotsSoFar
<1> QED
  BY <1>1, <1>2, SnapshotsSoFar, EndKeeps
-----------------------------------------------------------------------------
\* Nothing is reported before the first turn.
LEMMA ReportsInit == Init => ReportsOK
<1> SUFFICES ASSUME Init PROVE ReportsOK
  OBVIOUS
<1>1. halt = FALSE /\ cycle = 0 /\ log = <<>> /\ snapshots = <<>>
  BY DEF Init
<1>2. ReportsTyped
  <2>1. <<>> \in Seq(Entry) /\ <<>> \in Seq(Nat)
    OBVIOUS
  <2> QED
    BY <1>1, <2>1 DEF ReportsTyped
<1>3. ErrorOrder
  BY <1>1 DEF ErrorOrder
<1>4. FatalIsLast
  BY <1>1 DEF FatalIsLast
<1>5. OneSnapshotPerCycle
  BY <1>1 DEF OneSnapshotPerCycle
<1>6. Running
  BY <1>1 DEF Running
<1> QED
  BY <1>2, <1>3, <1>4, <1>5, <1>6 DEF ReportsOK

\* The two turns that end the loop in their own way.
LEMMA BadPCKeeps == ASSUME ReportsOK, BadPC PROVE ReportsOK'
<1> DEFINE errors == <<IF PC \notin Address THEN MEM_OF ELSE DATA_MIS>>
<1>1. Reportable(errors)
  BY OneError DEF Errors, Fatal
<1>2. /\ ~halt /\ halt' = TRUE /\ cycle' = cycle
      /\ log' = Reported(errors, cycle) /\ snapshots' = Append(snapshots, cycle)
  BY DEF BadPC
<1> HIDE DEF errors
<1>3. /\ cycle \in Nat /\ cycle <= cycle
      /\ snapshots' \in Seq(Nat) /\ Len(snapshots') = cycle + 1
      /\ \A k \in 1 .. Len(snapshots') : snapshots'[k] = k - 1
  BY <1>2, SnapshotsSoFar, SMTT(30)
<1> QED
  BY <1>1, <1>2, <1>3, EndKeeps

\* A jump to a misaligned address, which takes two cycles and two snapshots.
LEMMA JumpFaultKeeps == ASSUME ReportsOK, JumpFault PROVE ReportsOK'
<1> DEFINE errors == <<DATA_MIS>>
           c      == cycle + 1
<1>1. Reportable(errors)
  BY OneError DEF Errors, Fatal
<1>2. /\ ~halt /\ halt' = TRUE /\ cycle' = cycle + 2
      /\ log' = Reported(errors, c)
      /\ snapshots' = snapshots \o <<cycle, cycle + 1>>
  BY DEF JumpFault, Fetched
<1> HIDE DEF errors
<1>3. /\ cycle' \in Nat /\ c \in Nat /\ cycle <= c
      /\ snapshots' \in Seq(Nat) /\ Len(snapshots') = c + 1
  BY <1>2, SnapshotsSoFar
<1>4. \A k \in 1 .. Len(snapshots') : snapshots'[k] = k - 1
  BY <1>2, SnapshotsSoFar, SMTT(30)
<1> HIDE DEF c
<1> QED
  BY <1>1, <1>2, <1>3, <1>4, EndKeeps

\* Every turn of main's loop keeps the reports in order.
THEOREM ReportsInvariant == Spec => []ReportsOK
<1>1. ASSUME ReportsOK, [Next]_vars PROVE ReportsOK'
  <2>1. CASE BadPC
    BY <1>1, <2>1, BadPCKeeps
  <2>2. CASE JumpFault
    BY <1>1, <2>2, JumpFaultKeeps
  <2>3. CASE RegisterArith
    <3> DEFINE errors == Flag(NumOverflow(Here.op, IF Here.op \in Shifts THEN Here.imm ELSE reg[Here.rs],
                                  reg[Here.rt]), NUM_OF) \o Flag(Here.rd = 0, WT_REG_0)
    <3>1. Reportable(errors) /\ ~EndsFatally(errors)
      BY FlagsZero
    <3>2. ~halt /\ halt' = halt /\ \E p : Turn(errors, p)
      BY <2>3 DEF RegisterArith, Fetched
    <3> HIDE DEF errors
    <3> QED
      BY <1>1, <3>1, <3>2, TurnKeeps DEF ReportsOK, ReportsTyped
  <2>4. CASE ImmediateArith
    <3> DEFINE errors == Flag(CASE Here.op = "ADDI"  -> check_num_OF_add(reg[Here.rs], SignExtend(Here.imm))
                           [] Here.op = "ADDIU" -> check_num_OF_addu(reg[Here.rs], Here.imm)
                           [] OTHER -> FALSE, NUM_OF)
                     \o Flag(Here.rt = 0, WT_REG_0)
    <3>1. Reportable(errors) /\ ~EndsFatally(errors)
      BY FlagsZero
    <3>2. ~halt /\ halt' = halt /\ \E p : Turn(errors, p)
      BY <2>4 DEF ImmediateArith, Fetched
    <3> HIDE DEF errors
    <3> QED
      BY <1>1, <3>1, <3>2, TurnKeeps DEF ReportsOK, ReportsTyped
  <2>5. CASE AccessFault
    <3> DEFINE e == IF OutOfRange(Here) THEN MEM_OF ELSE DATA_MIS
               errors == Flag(AddressOverflow(Here), NUM_OF) \o <<e>>
    <3>1. e \in Errors /\ e # NUM_OF
      BY DEF Errors, Fatal, NUM_OF, MEM_OF, DATA_MIS
    <3>2. ~halt /\ halt' = TRUE /\ \E p : Turn(errors, p)
      BY <2>5 DEF AccessFault, Fetched
    <3> HIDE DEF e
    <3>3. Reportable(errors)
      BY <3>1, Flags DEF Flag
    <3> HIDE DEF errors
    <3> QED
      BY <1>1, <3>2, <3>3, TurnKeeps
  <2>6. CASE Load
    <3> DEFINE errors == Flag(AddressOverflow(Here), NUM_OF) \o Flag(Here.rt = 0, WT_REG_0)
    <3>1. Reportable(errors) /\ ~EndsFatally(errors)
      BY FlagsZero
    <3>2. ~halt /\ halt' = halt /\ \E p : Turn(errors, p)
      BY <2>6 DEF Load, Fetched
    <3> HIDE DEF errors
    <3> QED
      BY <1>1, <3>1, <3>2, TurnKeeps DEF ReportsOK, ReportsTyped
  <2>7. CASE Store
    <3> DEFINE errors == Flag(AddressOverflow(Here), NUM_OF)
    <3>1. Reportable(errors) /\ ~EndsFatally(errors)
      BY OneFlag
    <3>2. ~halt /\ halt' = halt /\ \E p : Turn(errors, p)
      BY <2>7 DEF Store, Fetched
    <3> HIDE DEF errors
    <3> QED
      BY <1>1, <3>1, <3>2, TurnKeeps DEF ReportsOK, ReportsTyped
  <2>8. CASE Branch
    <3> DEFINE errors == Flag(check_num_OF_add(PC + 1, SignExtend(Here.imm)), NUM_OF)
    <3>1. Reportable(errors) /\ ~EndsFatally(errors)
      BY OneFlag
    <3>2. ~halt /\ halt' = halt /\ \E p : Turn(errors, p)
      BY <2>8 DEF Branch, Fetched
    <3> HIDE DEF errors
    <3> QED
      BY <1>1, <3>1, <3>2, TurnKeeps DEF ReportsOK, ReportsTyped
  <2>9. CASE Jump
    <3> DEFINE errors == <<>>
    <3>1. Reportable(errors) /\ ~EndsFatally(errors)
      BY NoError
    <3>2. ~halt /\ halt' = halt /\ \E p : Turn(errors, p)
      BY <2>9 DEF Jump, Fetched
    <3> HIDE DEF errors
    <3> QED
      BY <1>1, <3>1, <3>2, TurnKeeps DEF ReportsOK, ReportsTyped
  <2>10. CASE JumpRegister
    <3> DEFINE errors == <<>>
    <3>1. Reportable(errors) /\ ~EndsFatally(errors)
      BY NoError
    <3>2. ~halt /\ halt' = halt /\ \E p : Turn(errors, p)
      BY <2>10 DEF JumpRegister, Fetched
    <3> HIDE DEF errors
    <3> QED
      BY <1>1, <3>1, <3>2, TurnKeeps DEF ReportsOK, ReportsTyped
  <2>11. CASE Halt
    <3> DEFINE errors == <<>>
    <3>1. Reportable(errors) /\ ~EndsFatally(errors)
      BY NoError
    <3>2. ~halt /\ halt' = TRUE /\ \E p : Turn(errors, p)
      BY <2>11 DEF Halt, Fetched
    <3> HIDE DEF errors
    <3> QED
      BY <1>1, <3>1, <3>2, TurnKeeps DEF ReportsOK, ReportsTyped
  <2>12. CASE UNCHANGED vars
    BY <1>1, <2>12 DEF vars, ReportsOK, ReportsTyped, ErrorOrder, FatalIsLast,
                       OneSnapshotPerCycle, Running, Priority
  <2> QED
    BY <1>1, <2>1, <2>2, <2>3, <2>4, <2>5, <2>6, <2>7, <2>8, <2>9, <2>10, <2>11, <2>12 DEF Next
<1> QED
  BY <1>1, ReportsInit, PTL DEF Spec

\* Errors are reported in the order of cycles and, within a cycle, of the
\* priorities of Appendix D; none twice.
THEOREM LogInOrder == Spec => []ErrorOrder
BY ReportsInvariant, PTL DEF ReportsOK

\* An address overflow or a misalignment is the last thing that happens, in the
\* cycle of the last snapshot.
THEOREM FatalErrorEnds == Spec => []FatalIsLast
BY ReportsInvariant, PTL DEF ReportsOK

\* print_snapshot runs once for every cycle, the one that stops the machine too.
THEOREM SnapshotsComplete == Spec => []OneSnapshotPerCycle
BY ReportsInvariant, PTL DEF ReportsOK
-----------------------------------------------------------------------------
(* Types.                                                                  *)

ReportedEntry == [err : Errors, cycle : 0 .. MaxCycles]

\* The program keeps the shape the loader gave it; no SRA is by zero.
ShiftsOK == \A a \in Address : code[a].op = "SRA" => code[a].imm # 0

MachineOK == TypeOK /\ ShiftsOK

\* The sizes are numbers, and addresses of instructions are far from the end of words.
LEMMA Room ==
  /\ CodeWords \in Nat \ {0} /\ DataWords \in Nat \ {0} /\ MaxCycles \in Nat
  /\ WordSize \in Nat \ {0} /\ WordSize = 2 * (WordSize \div 2)
  /\ WordSize \div 2 \in Nat \ {0} /\ HalfSize = 2 * (HalfSize \div 2)
  /\ HalfSize \div 2 \in Nat \ {0} /\ HalfSize >= 4
  /\ CodeWords + HalfSize <= WordSize \div 2 /\ 4 * DataWords + HalfSize <= WordSize \div 2
<1>1. WordSize \in Nat \ {0}
  BY Sizes, PowPositive, Widths
<1> QED BY <1>1, ProgramAssumption, Middles

\* The parts of the instruction at PC.
LEMMA HereIs ==
  ASSUME MachineOK, PC \in Address
  PROVE  /\ Here \in Instr /\ Here.rs \in Reg /\ Here.rt \in Reg /\ Here.rd \in Reg
         /\ reg[Here.rs] \in Word /\ reg[Here.rt] \in Word
         /\ Here.imm \in 0 .. HalfSize - 1 /\ Here.imm \in Word
         /\ Here.op \in Shifts => Here.imm < Bits
         /\ Here.op = "SRA" => Here.imm # 0
         /\ PC + 1 \in Word
<1>1. Here \in Instr /\ reg \in [Reg -> Word]
  BY DEF MachineOK, TypeOK, Here
<1>2. /\ Here.rs \in Reg /\ Here.rt \in Reg /\ Here.rd \in Reg
      /\ Here.imm \in 0 .. HalfSize - 1
      /\ Here.op \in Shifts => Here.imm < Bits
  BY <1>1 DEF Instr
<1>3. Here.imm \in Word
  BY <1>2, Immediate
<1>4. PC + 1 \in Word
  BY Room DEF Address, Word
<1> QED BY <1>1, <1>2, <1>3, <1>4 DEF MachineOK, ShiftsOK, Here

\* The errors of a report.
Contents(errors) == {errors[k] : k \in 1 .. Len(errors)}

\* What a turn adds to the log.
LEMMA ReportTyped ==
  ASSUME log \in Seq(ReportedEntry), NEW errors \in Seq(Errors), NEW c \in 0 .. MaxCycles,
         log' = Reported(errors, c)
  PROVE  /\ log' \in Seq(ReportedEntry)
         /\ NewErrors = Contents(errors)
<1> DEFINE new == [k \in 1 .. Len(errors) |-> [err |-> errors[k], cycle |-> c]]
<1>1. Len(errors) \in Nat /\ Len(log) \in Nat
  OBVIOUS
<1>2. new \in Seq(ReportedEntry) /\ Len(new) = Len(errors)
  BY <1>1 DEF ReportedEntry
<1>3. /\ log' \in Seq(ReportedEntry)
      /\ Len(log') = Len(log) + Len(errors)
      /\ \A k \in 1 .. Len(errors) : log'[Len(log) + k] = [err |-> errors[k], cycle |-> c]
  BY <1>2 DEF Reported
<1> HIDE DEF new
<1>4. ASSUME NEW e \in NewErrors PROVE \E k \in 1 .. Len(errors) : errors[k] = e
  <2>1. PICK k \in Len(log) + 1 .. Len(log') : e = log'[k].err
    BY DEF NewErrors
  <2> DEFINE j == k - Len(log)
  <2>2. j \in 1 .. Len(errors) /\ k = Len(log) + j
    BY <1>1, <1>3, <2>1
  <2> HIDE DEF j
  <2>3. log'[Len(log) + j] = [err |-> errors[j], cycle |-> c]
    BY <1>3, <2>2
  <2> QED BY <2>1, <2>2, <2>3
<1>5. ASSUME NEW k \in 1 .. Len(errors) PROVE errors[k] \in NewErrors
  <2>1. Len(log) + k \in Len(log) + 1 .. Len(log')
    BY <1>1, <1>3
  <2>2. log'[Len(log) + k] = [err |-> errors[k], cycle |-> c]
    BY <1>3
  <2> QED BY <2>1, <2>2, SMTT(30) DEF NewErrors
<1> QED BY <1>3, <1>4, <1>5 DEF Contents

\* An ordinary turn leaves the log, the snapshots and the counters typed.
LEMMA TurnTyped ==
  ASSUME MachineOK, ~halt, cycle < MaxCycles, NEW errors \in Seq(Errors),
         NEW p \in Word, Turn(errors, p),
         reg' \in [Reg -> Word], reg'[0] = 0, mem' \in [DataWord -> Word], halt' \in BOOLEAN
  PROVE  MachineOK'
<1>1. cycle \in 0 .. MaxCycles /\ cycle + 1 \in 0 .. MaxCycles + 1
  BY ProgramAssumption DEF MachineOK, TypeOK
<1>2. log \in Seq(ReportedEntry) /\ snapshots \in Seq(0 .. MaxCycles)
  BY DEF MachineOK, TypeOK, ReportedEntry, Errors
<1>3. log' \in Seq(ReportedEntry)
  BY <1>1, <1>2, ReportTyped DEF Turn
<1>4. snapshots' \in Seq(0 .. MaxCycles)
  BY <1>1, <1>2 DEF Turn
<1> QED BY <1>1, <1>3, <1>4 DEF MachineOK, TypeOK, ShiftsOK, Turn, ReportedEntry, Errors

\* Registers stay words, and $0 stays zero.
LEMMA SetTyped ==
  ASSUME MachineOK, NEW r \in Reg, NEW value \in Word, Set(r, value)
  PROVE  reg' \in [Reg -> Word] /\ reg'[0] = 0
BY RegAssumption DEF MachineOK, TypeOK, Set

\* A loaded program is typed.
LEMMA TypedInit == Init => MachineOK
<1> SUFFICES ASSUME Init PROVE MachineOK
  OBVIOUS
<1>1. PICK p \in Programs :
        /\ code = p.code /\ PC = p.PC /\ check_PC = p.check_PC /\ mem = p.mem
        /\ reg = [r \in Reg |-> IF r = 29 THEN p.sp ELSE 0]
        /\ halt = FALSE /\ cycle = 0 /\ log = <<>> /\ snapshots = <<>>
  BY DEF Init
<1>2. p \in Program
  BY ProgramAssumption
<1>3. /\ code \in [Address -> Instr] /\ PC \in Word /\ check_PC \in 0 .. 3 /\ p.sp \in Word
      /\ mem \in [DataWord -> Word]
  BY <1>1, <1>2 DEF Program
<1>4. reg \in [Reg -> Word] /\ reg[0] = 0
  BY <1>1, <1>3, RegAssumption, Inside
<1>5. log \in Seq(ReportedEntry) /\ snapshots \in Seq(0 .. MaxCycles)
  BY <1>1
<1>6. ShiftsOK
  BY <1>1, ProgramAssumption DEF ShiftsOK
<1>7. cycle \in 0 .. MaxCycles + 1
  BY <1>1, Room
<1> QED BY <1>1, <1>3, <1>4, <1>5, <1>6, <1>7 DEF MachineOK, TypeOK, ReportedEntry, Errors

\* The errors are different, and only two of them are fatal.
LEMMA ErrorNames ==
  /\ NUM_OF \in Errors /\ WT_REG_0 \in Errors /\ MEM_OF \in Errors /\ DATA_MIS \in Errors
  /\ NUM_OF \notin Fatal /\ WT_REG_0 \notin Fatal /\ MEM_OF \in Fatal /\ DATA_MIS \in Fatal
BY DEF Errors, Fatal, NUM_OF, WT_REG_0, MEM_OF, DATA_MIS

\* What is in a sequence of at most one number overflow and at most one other error.
LEMMA FlagSet ==
  ASSUME NEW e \in Errors, NEW f \in {<<>>, <<NUM_OF>>}, NEW g \in {<<>>, <<e>>}
  PROVE  /\ f \o g \in Seq(Errors)
         /\ Contents(f \o g) =
              (IF f = <<>> THEN {} ELSE {NUM_OF}) \cup (IF g = <<>> THEN {} ELSE {e})
<1> DEFINE s == f \o g
<1>1. NUM_OF \in Errors /\ <<NUM_OF>> # <<>> /\ <<e>> # <<>>
  BY ErrorNames
<1>2. CASE f = <<>> /\ g = <<>>
  <2>1. s = <<>>
    BY <1>2
  <2>2. s \in Seq(Errors) /\ Len(s) = 0
    BY <2>1
  <2> HIDE DEF s
  <2>3. Contents(s) = {}
    BY <2>2 DEF Contents
  <2> QED BY <1>2, <2>2, <2>3 DEF s
<1>3. CASE f = <<NUM_OF>> /\ g = <<>>
  <2>1. s = <<NUM_OF>>
    BY <1>3
  <2>2. s \in Seq(Errors) /\ Len(s) = 1 /\ s[1] = NUM_OF
    BY <1>1, <2>1
  <2> HIDE DEF s
  <2>3. Contents(s) = {NUM_OF}
    BY <2>2 DEF Contents
  <2> QED BY <1>1, <1>3, <2>2, <2>3 DEF s
<1>4. CASE f = <<>> /\ g = <<e>>
  <2>1. s = <<e>>
    BY <1>4
  <2>2. s \in Seq(Errors) /\ Len(s) = 1 /\ s[1] = e
    BY <2>1
  <2> HIDE DEF s
  <2>3. Contents(s) = {e}
    BY <2>2 DEF Contents
  <2> QED BY <1>1, <1>4, <2>2, <2>3 DEF s
<1>5. CASE f = <<NUM_OF>> /\ g = <<e>>
  <2>1. s \in Seq(Errors) /\ Len(s) = 2 /\ s[1] = NUM_OF /\ s[2] = e
    BY <1>1, <1>5
  <2> HIDE DEF s
  <2>2. Contents(s) = {NUM_OF, e}
    BY <2>1 DEF Contents
  <2> QED BY <1>1, <1>5, <2>1, <2>2 DEF s
<1> QED BY <1>2, <1>3, <1>4, <1>5

\* What a turn that reports them adds to the log.
LEMMA TurnReports ==
  ASSUME MachineOK, cycle < MaxCycles, NEW e \in Errors, NEW p,
         NEW f \in {<<>>, <<NUM_OF>>}, NEW g \in {<<>>, <<e>>}, Turn(f \o g, p)
  PROVE  /\ f \o g \in Seq(Errors)
         /\ NewErrors =
              (IF f = <<>> THEN {} ELSE {NUM_OF}) \cup (IF g = <<>> THEN {} ELSE {e})
<1> DEFINE s == f \o g
<1>1. /\ s \in Seq(Errors)
      /\ Contents(s) =
           (IF f = <<>> THEN {} ELSE {NUM_OF}) \cup (IF g = <<>> THEN {} ELSE {e})
  BY FlagSet
<1>2. log' = Reported(s, cycle)
  BY DEF Turn
<1>3. log \in Seq(ReportedEntry) /\ cycle \in 0 .. MaxCycles
  BY Room DEF MachineOK, TypeOK, ReportedEntry, Errors
<1> HIDE DEF s
<1>4. NewErrors = Contents(s)
  BY <1>1, <1>2, <1>3, ReportTyped
<1> QED BY <1>1, <1>4 DEF s

\* And one that reports nothing but perhaps a number overflow.
LEMMA TurnReportsOne ==
  ASSUME MachineOK, cycle < MaxCycles, NEW p, NEW f \in {<<>>, <<NUM_OF>>}, Turn(f, p)
  PROVE  f \in Seq(Errors) /\ NewErrors = IF f = <<>> THEN {} ELSE {NUM_OF}
<1> DEFINE g == <<>>
<1>1. f \o g = f
  BY ErrorNames
<1>2. NUM_OF \in Errors /\ g \in {<<>>, <<NUM_OF>>}
  BY ErrorNames
<1>3. Turn(f \o g, p)
  BY <1>1
<1>4. g = <<>>
  OBVIOUS
<1> HIDE DEF g
<1>5. f \o g \in Seq(Errors)
      /\ NewErrors = (IF f = <<>> THEN {} ELSE {NUM_OF}) \cup (IF g = <<>> THEN {} ELSE {NUM_OF})
  BY <1>2, <1>3, TurnReports
<1> QED BY <1>1, <1>4, <1>5
-----------------------------------------------------------------------------
(* Machine defines again what Instructions does; it is the same.           *)

\* Sizes.
LEMMA SameSizes ==
  /\ Machine!Bits = Bits /\ Machine!ByteSize = ByteSize /\ Machine!HalfSize = HalfSize
  /\ Machine!WordSize = WordSize /\ Machine!Word = Word /\ Machine!Stopped = Stopped
  /\ Machine!NOP = NOP
BY DEF Machine!Bits, Bits, Machine!ByteSize, ByteSize, Machine!HalfSize, HalfSize,
       Machine!WordSize, WordSize, Machine!Word, Word, Machine!Stopped, Stopped,
       Machine!NOP, NOP

\* Classes of instructions.
LEMMA SameClasses ==
  /\ Machine!Shifts = Shifts /\ Machine!RArith = RArith /\ Machine!RType = RType
  /\ Machine!IArith = IArith /\ Machine!Loads = Loads /\ Machine!Stores = Stores
  /\ Machine!Branches = Branches /\ Machine!Op = Op
BY DEF Machine!Shifts, Shifts, Machine!RArith, RArith, Machine!RType, RType,
       Machine!IArith, IArith, Machine!Loads, Loads, Machine!Stores, Stores,
       Machine!Branches, Branches, Machine!Op, Op

\* Instructions.
LEMMA SameInstr == Machine!Instr = Instr
BY SameSizes, SameClasses DEF Machine!Instr, Instr

\* The next instruction.
LEMMA SameDue == ASSUME NEW c, NEW p PROVE Machine!Due(c, p) = Due(c, p)
BY SameSizes DEF Machine!Due, Due, Machine!Min, Min

\* Signed numbers.
LEMMA SameSigned ==
  ASSUME NEW w
  PROVE  Machine!Signed(w) = Signed(w) /\ Machine!SignExtend(w) = SignExtend(w)
BY SameSizes DEF Machine!Signed, Signed, Machine!SignExtend, SignExtend

\* Branches.
LEMMA SameTarget == ASSUME NEW p, NEW i PROVE Machine!Target(p, i) = Target(p, i)
<1>1. Machine!SignExtend(i.imm) = SignExtend(i.imm)
  BY SameSigned
<1>2. Machine!Signed(SignExtend(i.imm)) = Signed(SignExtend(i.imm))
  BY SameSigned
<1> QED BY <1>1, <1>2 DEF Machine!Target, Target

\* Bit operations.
LEMMA SameAnd == ASSUME NEW a, NEW b PROVE Machine!And(a, b) = And(a, b)
<1>1. \A w, k : Machine!Bit(w, k) = Bit(w, k)
  BY DEF Machine!Bit, Bit
<1> QED BY <1>1, SameSizes DEF Machine!And, And

\* The other bit operations and comparisons.
LEMMA SameBits ==
  ASSUME NEW a, NEW b
  PROVE  /\ Machine!Or(a, b) = Or(a, b) /\ Machine!Xor(a, b) = Xor(a, b)
         /\ Machine!Not(a) = Not(a) /\ Machine!Less(a, b) = Less(a, b)
         /\ Machine!ShiftRightArith(a, b) = ShiftRightArith(a, b)
<1>1. Machine!And(a, b) = And(a, b) /\ Machine!Signed(a) = Signed(a)
  BY SameAnd, SameSigned
<1> QED BY <1>1, SameSizes DEF Machine!Or, Or, Machine!Xor, Xor, Machine!Not, Not,
           Machine!Less, Less, Machine!ShiftRightArith, ShiftRightArith

\* exec_r.
LEMMA SameRegisterALU ==
  ASSUME NEW op, NEW a, NEW b
  PROVE  Machine!RegisterALU(op, a, b) = RegisterALU(op, a, b)
<1>1. /\ Machine!And(a, b) = And(a, b) /\ Machine!Or(a, b) = Or(a, b)
      /\ Machine!Xor(a, b) = Xor(a, b) /\ Machine!Less(a, b) = Less(a, b)
      /\ Machine!ShiftRightArith(b, a) = ShiftRightArith(b, a)
      /\ Machine!WordSize = WordSize
  BY SameAnd, SameBits, SameSizes
<1>2. /\ Machine!Not(Or(a, b)) = Not(Or(a, b)) /\ Machine!Not(And(a, b)) = Not(And(a, b))
  BY SameBits
<1>3. Machine!Signed(a) = Signed(a) /\ Machine!Signed(b) = Signed(b)
  BY SameSigned
<1>4. Machine!Less(Signed(a), Signed(b)) = Less(Signed(a), Signed(b))
  BY SameBits
<1> QED BY <1>1, <1>2, <1>3, <1>4 DEF Machine!RegisterALU, RegisterALU

\* The immediate operations.
LEMMA SameImmediateALU ==
  ASSUME NEW op, NEW a, NEW b
  PROVE  Machine!ImmediateALU(op, a, b) = ImmediateALU(op, a, b)
<1> DEFINE c == b % HalfSize
<1>1. /\ Machine!And(a, c) = And(a, c) /\ Machine!Or(a, c) = Or(a, c)
      /\ Machine!WordSize = WordSize /\ Machine!HalfSize = HalfSize
      /\ Machine!Loads = Loads /\ Machine!Stores = Stores
  BY SameAnd, SameBits, SameSizes, SameClasses
<1>2. Machine!Not(Or(a, c)) = Not(Or(a, c))
  BY SameBits
<1>3. Machine!Signed(a) = Signed(a) /\ Machine!Signed(b) = Signed(b)
  BY SameSigned
<1>4. Machine!Less(Signed(a), Signed(b)) = Less(Signed(a), Signed(b))
  BY SameBits
<1> QED BY <1>1, <1>2, <1>3, <1>4 DEF Machine!ImmediateALU, ImmediateALU

\* The ALU.
LEMMA SameALU ==
  ASSUME NEW op, NEW a, NEW b
  PROVE  Machine!ALU(op, a, b) = ALU(op, a, b)
BY SameRegisterALU, SameImmediateALU, SameClasses DEF Machine!ALU, ALU

\* Loads and stores.
LEMMA SameBytes ==
  ASSUME NEW op, NEW w, NEW k, NEW v
  PROVE  /\ Machine!Loaded(op, w, k) = Loaded(op, w, k)
         /\ Machine!Merged(op, w, k, v) = Merged(op, w, k, v)
<1>1. /\ Machine!ByteAt(w, k) = ByteAt(w, k) /\ Machine!HalfAt(w, k) = HalfAt(w, k)
      /\ Machine!ByteSize = ByteSize /\ Machine!HalfSize = HalfSize
  BY SameSizes DEF Machine!ByteAt, ByteAt, Machine!HalfAt, HalfAt
<1>2. \A x, size : Machine!Extend(x, size) = Extend(x, size)
  BY SameSizes DEF Machine!Extend, Extend
<1> QED BY <1>1, <1>2, ZenonT(30) DEF Machine!Loaded, Loaded, Machine!Merged, Merged
-----------------------------------------------------------------------------
(* Turns as steps of Machine.                                              *)

\* The machine's pc.
Pc == IF halt \/ check_PC # 0 THEN Stopped ELSE Due(code, PC)

\* The processor is about to execute an instruction.
Ready == MachineOK /\ ~halt /\ check_PC = 0 /\ PC \in Address /\ cycle < MaxCycles

\* Code from PC on.
LEMMA PcIs ==
  ASSUME Ready
  PROVE  /\ Here # NOP => Pc = PC
         /\ Here = NOP => Pc = Due(code, PC + 1)
<1>1. CodeWords \in Nat /\ DOMAIN code = 0 .. CodeWords - 1 /\ PC \in Int /\ PC \in DOMAIN code
  BY Room DEF Ready, MachineOK, TypeOK, Address
<1>2. /\ code[PC] # NOP => Due(code, PC) = PC
      /\ code[PC] = NOP => Due(code, PC) = Due(code, PC + 1)
  BY <1>1, DueIs
<1> QED BY <1>2 DEF Ready, Pc, Here

\* The machine is at the same instruction.
LEMMA MachineRuns ==
  ASSUME Ready, Here # NOP
  PROVE  /\ Machine!Here = Here
         /\ \A ops : Machine!Running(ops) <=> Here.op \in ops
         /\ \A i : Machine!AddressOf(i) = ALU(i.op, reg[i.rs], SignExtend(i.imm))
<1>1. Pc = PC /\ PC # Stopped
  <2>1. PC # Stopped
    BY Room DEF Ready, Address, Stopped
  <2> QED BY <2>1, PcIs
<1>2. Machine!Here = Here
  BY <1>1, SameDue, SameSizes DEF Machine!Here, Here, Pc
<1>3. \A ops : Machine!Running(ops) <=> Here.op \in ops
  BY <1>1, <1>2, SameDue, SameSizes DEF Machine!Running, Pc
<1>4. \A i : Machine!AddressOf(i) = ALU(i.op, reg[i.rs], SignExtend(i.imm))
  BY SameALU, SameSigned DEF Machine!AddressOf
<1> QED BY <1>2, <1>3, <1>4

\* A turn moves the machine to where it moves PC.
LEMMA MachineGoes ==
  ASSUME Ready, code' = code, check_PC' = check_PC, ~halt', NEW p, Due(code, PC') = Due(code, p)
  PROVE  Machine!GoTo(p) /\ Pc' = Due(code, p)
<1>1. Pc' = Due(code, p)
  BY DEF Pc, Ready, Due
<1> QED BY <1>1, SameDue, SameSizes DEF Machine!GoTo, Pc

\* A NOP is stepped over: only PC moves on.
LEMMA StepsOver ==
  ASSUME Ready, Here = NOP, code' = code, check_PC' = check_PC, ~halt', PC' = PC + 1,
         reg' = reg, mem' = mem
  PROVE  UNCHANGED Machine!vars
<1>1. Due(code, PC') = Due(code, PC + 1)
  OBVIOUS
<1>2. Pc' = Due(code, PC + 1) /\ Pc = Due(code, PC + 1)
  BY <1>1, MachineGoes, PcIs
<1> QED BY <1>2, SameDue, SameSizes DEF Machine!vars, Pc

\* What every turn does.
GoodStep ==
  /\ MachineOK'
  /\ NewErrors = ErrorsDue
  /\ Trap \/ Machine!Next \/ UNCHANGED Machine!vars

\* An instruction's turn finds the machine ready.
LEMMA FetchedReady ==
  ASSUME MachineOK, NEW ops, Fetched(ops)
  PROVE  Ready /\ Here.op \in ops
BY DEF Fetched, Ready

\* Flags, one by one.
LEMMA FlagIs ==
  ASSUME NEW c \in BOOLEAN, NEW e
  PROVE  Flag(c, e) \in {<<>>, <<e>>} /\ (Flag(c, e) = <<>> <=> ~c)
BY DEF Flag

\* Operations on words: classes of operations are apart.
LEMMA Classes ==
  /\ RArith \cap (IArith \cup Loads \cup Stores \cup Branches \cup {"J", "JAL", "JR", "HALT"}) = {}
  /\ IArith \cap (Loads \cup Stores \cup Branches \cup {"J", "JAL", "JR", "HALT"}) = {}
  /\ (Loads \cup Stores) \cap (Branches \cup {"J", "JAL", "JR", "HALT"}) = {}
  /\ Branches \cap {"J", "JAL", "JR", "HALT"} = {} /\ Loads \cap Stores = {}
  /\ Shifts \subseteq RArith /\ NOP.op \in Shifts /\ NOP.rd = 0
BY DEF RArith, Shifts, IArith, Loads, Stores, Branches, NOP

\* Register operations report overflows of numbers and writes to $0.
LEMMA RegisterArithErrors ==
  ASSUME MachineOK, RegisterArith
  PROVE  NewErrors = ErrorsDue
<1> DEFINE i == Here
           a == IF i.op \in Shifts THEN i.imm ELSE reg[i.rs]
           b == reg[i.rt]
           f == Flag(NumOverflow(i.op, a, b), NUM_OF)
           g == Flag(i.rd = 0, WT_REG_0)
<1>1. Ready /\ i.op \in RArith /\ Turn(f \o g, PC + 1)
  BY FetchedReady DEF RegisterArith
<1>2. reg[i.rs] \in Word /\ reg[i.rt] \in Word
  BY <1>1, HereIs DEF Ready
<1>3. NumOverflow(i.op, a, b) <=> Overflow(i)
  <2>1. CASE i.op = "ADD"
    <3>1. NumOverflow(i.op, a, b) <=> check_num_OF_add(reg[i.rs], reg[i.rt])
      BY <2>1 DEF NumOverflow, Shifts
    <3>2. Overflow(i) <=> ~Fits(Signed(reg[i.rs]) + Signed(reg[i.rt]))
      BY <2>1 DEF Overflow, Loads, Stores
    <3> QED BY <1>2, <3>1, <3>2, AddExact, SignedIs, Room DEF Fits
  <2>2. CASE i.op = "SUB"
    <3>1. NumOverflow(i.op, a, b) <=> check_num_OF_sub(reg[i.rs], reg[i.rt])
      BY <2>2 DEF NumOverflow, Shifts
    <3>2. Overflow(i) <=> ~Fits(Signed(reg[i.rs]) - Signed(reg[i.rt]))
      BY <2>2 DEF Overflow, Loads, Stores
    <3> QED BY <1>2, <3>1, <3>2, SubExact, SignedIs, Room DEF Fits
  <2>3. CASE i.op \in {"ADDU", "SUBU"}
    <3>1. NumOverflow(i.op, a, b) <=>
            IF i.op = "ADDU" THEN check_num_OF_addu(reg[i.rs], reg[i.rt])
            ELSE check_num_OF_subu(reg[i.rs], reg[i.rt])
      BY <2>3 DEF NumOverflow, Shifts
    <3>2. Overflow(i) <=>
            IF i.op = "ADDU" THEN reg[i.rs] + reg[i.rt] >= WordSize ELSE reg[i.rs] < reg[i.rt]
      BY <2>3 DEF Overflow, Loads, Stores
    <3> QED BY <1>2, <3>1, <3>2, UnsignedExact
  <2>4. CASE i.op \notin {"ADD", "SUB", "ADDU", "SUBU"}
    <3>1. ~NumOverflow(i.op, a, b)
      BY <2>4 DEF NumOverflow
    <3>2. ~Overflow(i)
      BY <1>1, <2>4, Classes DEF Overflow, IArith
    <3> QED BY <3>1, <3>2
  <2> QED BY <2>1, <2>2, <2>3, <2>4
<1>4. f \in {<<>>, <<NUM_OF>>} /\ (f = <<>> <=> ~Overflow(i))
  BY <1>3 DEF Flag
<1>5. g \in {<<>>, <<WT_REG_0>>} /\ (g = <<>> <=> i.rd # 0)
  BY DEF Flag
<1>6. ErrorsDue = {e \in {NUM_OF} : Overflow(i)} \cup {e \in {WT_REG_0} : i.rd = 0}
  <2>1. ~Outside(i) /\ ~Askew(i) /\ (WritesZero(i) <=> i.rd = 0)
    BY <1>1, Classes DEF Outside, Askew, WritesZero
  <2>2. PC \in Address /\ check_PC = 0
    BY <1>1 DEF Ready
  <2> QED BY <2>1, <2>2 DEF ErrorsDue
<1> HIDE DEF f, g, i
<1>7. NewErrors = (IF f = <<>> THEN {} ELSE {NUM_OF}) \cup (IF g = <<>> THEN {} ELSE {WT_REG_0})
  BY <1>1, <1>4, <1>5, TurnReports, ErrorNames DEF Ready
<1> QED BY <1>4, <1>5, <1>6, <1>7

\* Register operations: the result goes to rd, whatever is reported.
LEMMA RegisterArithSteps ==
  ASSUME MachineOK, RegisterArith
  PROVE  GoodStep
<1> DEFINE i == Here
           a == IF i.op \in Shifts THEN i.imm ELSE reg[i.rs]
           b == reg[i.rt]
           v == ExecR(i.op, a, b)
           f == Flag(NumOverflow(i.op, a, b), NUM_OF)
           g == Flag(i.rd = 0, WT_REG_0)
<1>1. /\ Ready /\ i.op \in RArith /\ Turn(f \o g, PC + 1) /\ Set(i.rd, v)
      /\ UNCHANGED <<mem, halt>>
  BY FetchedReady DEF RegisterArith
<1>2. /\ reg[i.rs] \in Word /\ reg[i.rt] \in Word /\ i.imm \in Word /\ i.rd \in Reg
      /\ i.op \in Shifts => i.imm < Bits
      /\ i.op = "SRA" => i.imm # 0
      /\ PC + 1 \in Word
  BY <1>1, HereIs DEF Ready
<1>3. v \in Word /\ v = RegisterALU(i.op, a, b)
  <2>1. a \in Word /\ b \in Word /\ (i.op \in Shifts => a < Bits) /\ (i.op = "SRA" => a # 0)
    BY <1>2 DEF Shifts
  <2> HIDE DEF a, b
  <2> QED BY <1>1, <2>1, RegisterResult
<1>4. f \o g \in Seq(Errors)
  <2>1. f \in {<<>>, <<NUM_OF>>} /\ g \in {<<>>, <<WT_REG_0>>}
    BY DEF Flag
  <2> HIDE DEF f, g
  <2> QED BY <2>1, FlagSet, ErrorNames
<1>5. code' = code /\ check_PC' = check_PC /\ PC' = PC + 1
  BY <1>1 DEF Turn
<1> HIDE DEF v, f, g
<1>6. MachineOK'
  <2>1. reg' \in [Reg -> Word] /\ reg'[0] = 0
    BY <1>1, <1>2, <1>3, SetTyped DEF Ready
  <2>2. mem' \in [DataWord -> Word] /\ halt' \in BOOLEAN
    BY <1>1 DEF Ready, MachineOK, TypeOK
  <2> QED BY <1>1, <1>2, <1>4, <2>1, <2>2, TurnTyped DEF Ready
<1>7. NewErrors = ErrorsDue
  BY RegisterArithErrors
<1>8. CASE i = NOP
  <2>1. i.rd = 0
    BY <1>8, Classes
  <2>2. reg' = reg
    BY <1>1, <2>1 DEF Set, Ready, MachineOK, TypeOK
  <2>3. ~halt'
    BY <1>1 DEF Ready
  <2> QED BY <1>1, <1>5, <1>6, <1>7, <1>8, <2>2, <2>3, StepsOver DEF GoodStep
<1>9. CASE i # NOP
  <2>1. ~halt' /\ Due(code, PC') = Due(code, PC + 1)
    BY <1>1, <1>5 DEF Ready
  <2>2. Machine!GoTo(PC + 1) /\ Pc = PC
    BY <1>1, <1>5, <1>9, <2>1, MachineGoes, PcIs
  <2>3. Machine!ALU(i.op, a, b) = v
    BY <1>1, <1>3, SameALU DEF ALU
  <2>4. Machine!Here = i /\ \A ops : Machine!Running(ops) <=> i.op \in ops
    BY <1>1, <1>9, MachineRuns
  <2>5. Machine!Set(i.rd, v)
    BY <1>1 DEF Machine!Set, Set
  <2>6. Machine!GoTo(Pc + 1)
    BY <2>2
  <2>7. Machine!RegisterArith
    BY <1>1, <2>3, <2>4, <2>5, <2>6, SameClasses DEF Machine!RegisterArith, Pc
  <2> QED BY <1>6, <1>7, <2>7 DEF GoodStep, Machine!Next
<1> QED BY <1>8, <1>9

\* The place of an access and the overflow of its sum, as check_num_OF_add finds it.
LEMMA PlaceIs ==
  ASSUME MachineOK, PC \in Address
  PROVE  /\ Place(Here) \in Int
         /\ check_num_OF_add(reg[Here.rs], SignExtend(Here.imm)) <=> ~Fits(Place(Here))
<1> DEFINE i == Here
           a == reg[i.rs]
           e == SignExtend(i.imm)
           M == WordSize \div 2
<1>1. a \in Word /\ e \in Word /\ M \in Nat
  BY HereIs, Immediate, Room
<1>2. Signed(a) \in -M .. M - 1 /\ Signed(e) \in -M .. M - 1
  BY <1>1, SignedIs
<1>3. Place(i) = Signed(a) + Signed(e)
  BY DEF Place, SignC
<1>4. check_num_OF_add(a, e) <=> (Signed(a) + Signed(e) < -M \/ Signed(a) + Signed(e) >= M)
  BY <1>1, AddExact
<1>5. Fits(Place(i)) <=> (-M <= Place(i) /\ Place(i) < M)
  BY DEF Fits
<1> DEFINE x == Signed(a)
           y == Signed(e)
           z == Place(i)
<1> HIDE DEF M, x, y, z
<1>6. (x + y < -M \/ x + y >= M) <=> ~(-M <= z /\ z < M)
  BY <1>1, <1>2, <1>3 DEF x, y, z
<1>7. z \in Int
  BY <1>1, <1>2, <1>3 DEF x, y, z
<1> QED BY <1>4, <1>5, <1>6, <1>7 DEF x, y, z

\* Immediate operations report overflows of numbers and writes to $0.
LEMMA ImmediateArithErrors ==
  ASSUME MachineOK, ImmediateArith
  PROVE  NewErrors = ErrorsDue
<1> DEFINE i == Here
           a == reg[i.rs]
           overflow == CASE i.op = "ADDI"  -> check_num_OF_add(a, SignExtend(i.imm))
                         [] i.op = "ADDIU" -> check_num_OF_addu(a, i.imm)
                         [] OTHER          -> FALSE
           f == Flag(overflow, NUM_OF)
           g == Flag(i.rt = 0, WT_REG_0)
<1>1. Ready /\ i.op \in IArith /\ Turn(f \o g, PC + 1)
  BY FetchedReady DEF ImmediateArith
<1>2. a \in Word /\ i.imm \in Word
  BY <1>1, HereIs DEF Ready
<1>3. overflow <=> Overflow(i)
  <2>1. CASE i.op = "ADDI"
    <3>1. overflow <=> check_num_OF_add(a, SignExtend(i.imm))
      BY <2>1
    <3>2. Overflow(i) <=> ~Fits(Place(i))
      BY <2>1 DEF Overflow, Loads, Stores
    <3> QED BY <1>1, <3>1, <3>2, PlaceIs DEF Ready
  <2>2. CASE i.op = "ADDIU"
    <3>1. overflow <=> check_num_OF_addu(a, i.imm)
      BY <2>2
    <3>2. Overflow(i) <=> a + i.imm >= WordSize
      BY <2>2 DEF Overflow, Loads, Stores
    <3> QED BY <1>2, <3>1, <3>2, UnsignedExact
  <2>3. CASE i.op \notin {"ADDI", "ADDIU"}
    <3>1. ~overflow
      BY <2>3
    <3>2. ~Overflow(i)
      BY <1>1, <2>3 DEF Overflow, Loads, Stores, IArith
    <3> QED BY <3>1, <3>2
  <2> QED BY <2>1, <2>2, <2>3
<1>4. f \in {<<>>, <<NUM_OF>>} /\ (f = <<>> <=> ~Overflow(i))
  BY <1>3 DEF Flag
<1>5. g \in {<<>>, <<WT_REG_0>>} /\ (g = <<>> <=> i.rt # 0)
  BY DEF Flag
<1>6. ErrorsDue = {e \in {NUM_OF} : Overflow(i)} \cup {e \in {WT_REG_0} : i.rt = 0}
  <2>1. ~Outside(i) /\ ~Askew(i) /\ (WritesZero(i) <=> i.rt = 0)
    BY <1>1, Classes DEF Outside, Askew, WritesZero
  <2>2. PC \in Address /\ check_PC = 0
    BY <1>1 DEF Ready
  <2> QED BY <2>1, <2>2 DEF ErrorsDue
<1> HIDE DEF f, g, i
<1>7. NewErrors = (IF f = <<>> THEN {} ELSE {NUM_OF}) \cup (IF g = <<>> THEN {} ELSE {WT_REG_0})
  BY <1>1, <1>4, <1>5, TurnReports, ErrorNames DEF Ready
<1> QED BY <1>4, <1>5, <1>6, <1>7

\* Immediate operations: the result goes to rt.
LEMMA ImmediateArithSteps ==
  ASSUME MachineOK, ImmediateArith
  PROVE  GoodStep
<1> DEFINE i == Here
           e == SignExtend(i.imm)
           v == ImmediateALU(i.op, reg[i.rs], e)
           overflow == CASE i.op = "ADDI"  -> check_num_OF_add(reg[i.rs], SignExtend(i.imm))
                         [] i.op = "ADDIU" -> check_num_OF_addu(reg[i.rs], i.imm)
                         [] OTHER          -> FALSE
           f == Flag(overflow, NUM_OF)
           g == Flag(i.rt = 0, WT_REG_0)
<1>1. /\ Ready /\ i.op \in IArith /\ Turn(f \o g, PC + 1) /\ Set(i.rt, v)
      /\ UNCHANGED <<mem, halt>>
  BY FetchedReady DEF ImmediateArith
<1>2. reg[i.rs] \in Word /\ e \in Word /\ i.rt \in Reg /\ PC + 1 \in Word
  BY <1>1, HereIs, Immediate DEF Ready
<1>3. v \in Word
  BY <1>1, <1>2, ImmediateResult
<1>4. f \o g \in Seq(Errors)
  <2>1. f \in {<<>>, <<NUM_OF>>} /\ g \in {<<>>, <<WT_REG_0>>}
    BY DEF Flag
  <2> HIDE DEF f, g
  <2> QED BY <2>1, FlagSet, ErrorNames
<1>5. code' = code /\ check_PC' = check_PC /\ PC' = PC + 1
  BY <1>1 DEF Turn
<1> HIDE DEF f, g
<1>6. MachineOK'
  <2>1. reg' \in [Reg -> Word] /\ reg'[0] = 0
    BY <1>1, <1>2, <1>3, SetTyped DEF Ready
  <2>2. mem' \in [DataWord -> Word] /\ halt' \in BOOLEAN
    BY <1>1 DEF Ready, MachineOK, TypeOK
  <2> QED BY <1>1, <1>2, <1>4, <2>1, <2>2, TurnTyped DEF Ready
<1>7. NewErrors = ErrorsDue
  BY ImmediateArithErrors
<1>8. i # NOP
  BY <1>1, Classes
<1>9. ~halt' /\ Due(code, PC') = Due(code, PC + 1)
  BY <1>1, <1>5 DEF Ready
<1>10. Machine!GoTo(Pc + 1)
  BY <1>1, <1>5, <1>8, <1>9, MachineGoes, PcIs
<1>11. Machine!ALU(i.op, reg[i.rs], e) = v
  BY <1>1, SameALU, Classes DEF ALU
<1>12. Machine!Here = i /\ \A ops : Machine!Running(ops) <=> i.op \in ops
  BY <1>1, <1>8, MachineRuns
<1>13. Machine!Set(i.rt, v)
  BY <1>1 DEF Machine!Set, Set
<1>14. Machine!SignExtend(i.imm) = e
  BY SameSigned
<1> HIDE DEF v, e
<1>15. Machine!ImmediateArith
  BY <1>1, <1>10, <1>11, <1>12, <1>13, <1>14, SameClasses DEF Machine!ImmediateArith, Pc
<1> QED BY <1>6, <1>7, <1>15 DEF GoodStep, Machine!Next

\* The checks of an access find what they should, and let through only aligned
\* addresses inside memory.
LEMMA AccessIs ==
  ASSUME Ready, Here.op \in Loads \cup Stores
  PROVE  /\ OutOfRange(Here) <=> Outside(Here)
         /\ Misaligned(Here) <=> Askew(Here)
         /\ AddressOverflow(Here) <=> Overflow(Here)
         /\ ALU(Here.op, reg[Here.rs], SignExtend(Here.imm)) = AddressOf(Here)
         /\ ~OutOfRange(Here) /\ ~Misaligned(Here) =>
              /\ AddressOf(Here) \in Nat /\ AddressOf(Here) \div 4 \in DataWord
              /\ AddressOf(Here) % (Further(Here.op) + 1) = 0
<1> DEFINE i == Here
           a == reg[i.rs]
           e == SignExtend(i.imm)
           x == Place(i)
           size == 4 * DataWords
           n == Further(i.op) + 1
           W == WordSize
<1>1. a \in Word /\ i.imm \in 0 .. HalfSize - 1 /\ e \in Word
  BY HereIs, Immediate DEF Ready
<1>2. x = Signed(a) + Signed(e) /\ SignC(i) = Signed(e)
  BY DEF Place, SignC
<1>3. x \in Int
  BY PlaceIs DEF Ready
<1>4. Width(i) = n /\ n \in {1, 2, 4}
  BY DEF Width, Further, Loads, Stores
<1>5. size \in Nat /\ size + HalfSize <= WordSize \div 2 /\ size = 4 * DataWords /\ DataWords \in Nat
      /\ W = 2 * (W \div 2) /\ W \div 2 \in Nat /\ HalfSize \in Nat
  <2>1. HalfSize \in Nat
    BY Sizes
  <2> QED BY <2>1, Room
<1>6. OutOfRange(i) <=> (x < 0 \/ x + n > size)
  BY <1>1, <1>2, <1>5, RangeExact DEF OutOfRange
<1>7. Outside(i) <=> (x < 0 \/ x + n > size)
  BY <1>4 DEF Outside
<1>8. Misaligned(i) <=> x % n # 0
  BY <1>1, <1>2, AlignmentExact DEF Misaligned
<1>9. Askew(i) <=> x % n # 0
  <2>1. i.op # "JR"
    BY Classes
  <2> QED BY <1>4, <2>1 DEF Askew
<1>10. AddressOverflow(i) <=> Overflow(i)
  <2>1. Overflow(i) <=> ~Fits(x)
    BY DEF Overflow, Loads, Stores
  <2> QED BY <2>1, PlaceIs DEF AddressOverflow, Ready
<1>11. ALU(i.op, a, e) = AddressOf(i)
  <2>1. ALU(i.op, a, e) = (a + e) % W
    BY Classes DEF ALU, ImmediateALU, Loads, Stores
  <2>2. AddressOf(i) = (a + Signed(e)) % W
    BY <1>2 DEF AddressOf
  <2> QED BY <1>1, <2>1, <2>2, AddressIs
<1>12. ASSUME ~(x < 0 \/ x + n > size), x % n = 0
       PROVE  /\ AddressOf(i) \in Nat /\ AddressOf(i) \div 4 \in DataWord
              /\ AddressOf(i) % n = 0
  <2>1. x \in 0 .. W - 1 /\ x \div 4 \in 0 .. DataWords - 1
    <3> HIDE DEF x, size, n, W
    <3> QED BY <1>3, <1>4, <1>5, <1>12 DEF W
  <2>2. AddressOf(i) = (a + Signed(e)) % W
    BY <1>2 DEF AddressOf
  <2>3. AddressOf(i) = x
    BY <1>1, <1>2, <2>1, <2>2, AddressIs
  <2> QED BY <1>12, <2>1, <2>3 DEF DataWord
<1> HIDE DEF x, n, size
<1> QED BY <1>6, <1>7, <1>8, <1>9, <1>10, <1>11, <1>12 DEF n

\* The errors of an access that stops the machine.
LEMMA AccessFaultSteps ==
  ASSUME MachineOK, AccessFault
  PROVE  GoodStep
<1> DEFINE i == Here
           e == IF OutOfRange(i) THEN MEM_OF ELSE DATA_MIS
           f == Flag(AddressOverflow(i), NUM_OF)
           g == <<e>>
<1>1. /\ Ready /\ i.op \in Loads \cup Stores /\ Turn(f \o g, PC + 1)
      /\ OutOfRange(i) \/ Misaligned(i)
      /\ halt' = TRUE /\ UNCHANGED <<reg, mem>>
  BY FetchedReady DEF AccessFault
<1>2. /\ OutOfRange(i) <=> Outside(i)
      /\ Misaligned(i) <=> Askew(i)
      /\ AddressOverflow(i) <=> Overflow(i)
  BY <1>1, AccessIs
<1>3. e \in Errors /\ e \in Fatal /\ g \in {<<>>, <<e>>} /\ g # <<>>
  BY ErrorNames
<1>4. f \in {<<>>, <<NUM_OF>>} /\ (f = <<>> <=> ~Overflow(i))
  BY <1>2 DEF Flag
<1>5. ErrorsDue = {x \in {NUM_OF} : Overflow(i)} \cup {e}
  <2>1. PC \in Address /\ check_PC = 0
    BY <1>1 DEF Ready
  <2> QED BY <1>1, <1>2, <2>1 DEF ErrorsDue
<1>6. PC + 1 \in Word /\ code' = code
  BY <1>1, HereIs DEF Ready, Turn
<1> HIDE DEF e, f, g, i
<1>7. /\ f \o g \in Seq(Errors)
      /\ NewErrors = (IF f = <<>> THEN {} ELSE {NUM_OF}) \cup (IF g = <<>> THEN {} ELSE {e})
  BY <1>1, <1>3, <1>4, TurnReports DEF Ready
<1>8. MachineOK'
  <2>1. reg' \in [Reg -> Word] /\ reg'[0] = 0 /\ mem' \in [DataWord -> Word] /\ halt' \in BOOLEAN
    BY <1>1 DEF Ready, MachineOK, TypeOK
  <2> QED BY <1>1, <1>6, <1>7, <2>1, TurnTyped DEF Ready
<1>9. NewErrors = ErrorsDue
  BY <1>3, <1>4, <1>5, <1>7
<1>10. Trap
  <2>1. e \in NewErrors
    BY <1>3, <1>7
  <2> QED BY <1>1, <1>3, <1>6, <2>1 DEF Trap
<1> QED BY <1>8, <1>9, <1>10 DEF GoodStep

\* Loads: the bytes that the load names, from the word that holds them.
LEMMA LoadSteps ==
  ASSUME MachineOK, Load
  PROVE  GoodStep
<1> DEFINE i == Here
           a == AddressOf(i)
           w == mem[a \div 4]
           v == ExecLoad(i.op, w, a)
           f == Flag(AddressOverflow(i), NUM_OF)
           g == Flag(i.rt = 0, WT_REG_0)
<1>1. /\ Ready /\ i.op \in Loads /\ Turn(f \o g, PC + 1) /\ Set(i.rt, v)
      /\ ~OutOfRange(i) /\ ~Misaligned(i)
      /\ UNCHANGED <<mem, halt>>
  BY FetchedReady DEF Load
<1>2. /\ ~Outside(i) /\ ~Askew(i) /\ (AddressOverflow(i) <=> Overflow(i))
      /\ ALU(i.op, reg[i.rs], SignExtend(i.imm)) = a
      /\ a \in Nat /\ a \div 4 \in DataWord /\ a % (Further(i.op) + 1) = 0
  BY <1>1, AccessIs
<1>3. i.rt \in Reg /\ PC + 1 \in Word /\ w \in Word
  BY <1>1, <1>2, HereIs DEF Ready, MachineOK, TypeOK
<1>4. v = Loaded(i.op, w, a % 4) /\ v \in Word
  <2> HIDE DEF a, w
  <2> QED BY <1>1, <1>2, <1>3, LoadsAgree
<1>5. f \in {<<>>, <<NUM_OF>>} /\ (f = <<>> <=> ~Overflow(i))
  BY <1>2 DEF Flag
<1>6. g \in {<<>>, <<WT_REG_0>>} /\ (g = <<>> <=> i.rt # 0)
  BY DEF Flag
<1>7. ErrorsDue = {e \in {NUM_OF} : Overflow(i)} \cup {e \in {WT_REG_0} : i.rt = 0}
  <2>1. WritesZero(i) <=> i.rt = 0
    BY <1>1, Classes DEF WritesZero
  <2>2. PC \in Address /\ check_PC = 0
    BY <1>1 DEF Ready
  <2> QED BY <1>2, <2>1, <2>2 DEF ErrorsDue
<1>8. code' = code /\ check_PC' = check_PC /\ PC' = PC + 1
  BY <1>1 DEF Turn
<1> HIDE DEF f, g, v
<1>9. /\ f \o g \in Seq(Errors)
      /\ NewErrors = (IF f = <<>> THEN {} ELSE {NUM_OF}) \cup (IF g = <<>> THEN {} ELSE {WT_REG_0})
  BY <1>1, <1>5, <1>6, TurnReports, ErrorNames DEF Ready
<1>10. MachineOK'
  <2>1. reg' \in [Reg -> Word] /\ reg'[0] = 0
    BY <1>1, <1>3, <1>4, SetTyped DEF Ready
  <2>2. mem' \in [DataWord -> Word] /\ halt' \in BOOLEAN
    BY <1>1 DEF Ready, MachineOK, TypeOK
  <2> QED BY <1>1, <1>3, <1>9, <2>1, <2>2, TurnTyped DEF Ready
<1>11. NewErrors = ErrorsDue
  <2> HIDE DEF i
  <2> QED BY <1>5, <1>6, <1>7, <1>9
<1>12. i # NOP
  BY <1>1, Classes
<1>13. ~halt' /\ Due(code, PC') = Due(code, PC + 1)
  BY <1>1, <1>8 DEF Ready
<1>14. Machine!GoTo(Pc + 1)
  BY <1>1, <1>8, <1>12, <1>13, MachineGoes, PcIs
<1>15. /\ Machine!Here = i /\ Machine!AddressOf(i) = a
       /\ \A ops : Machine!Running(ops) <=> i.op \in ops
  BY <1>1, <1>2, <1>12, MachineRuns
<1>16. Machine!Accessible(a) /\ Machine!Set(i.rt, v)
  BY <1>1, <1>2 DEF Machine!Accessible, Machine!DataWord, DataWord, Machine!Set, Set
<1>17. Machine!Loaded(i.op, w, a % 4) = v
  BY <1>4, SameBytes
<1> HIDE DEF a
<1>18. Machine!Load
  BY <1>1, <1>14, <1>15, <1>16, <1>17, SameClasses DEF Machine!Load, Pc
<1> QED BY <1>10, <1>11, <1>18 DEF GoodStep, Machine!Next

\* Stores: the bytes that the store names, into the word that holds them.
LEMMA StoreSteps ==
  ASSUME MachineOK, Store
  PROVE  GoodStep
<1> DEFINE i == Here
           a == AddressOf(i)
           u == reg[i.rt]
           f == Flag(AddressOverflow(i), NUM_OF)
<1>1. /\ Ready /\ i.op \in Stores /\ Turn(f, PC + 1)
      /\ mem' = [mem EXCEPT ![a \div 4] = ExecStore(i.op, @, a, u)]
      /\ ~OutOfRange(i) /\ ~Misaligned(i)
      /\ UNCHANGED <<reg, halt>>
  BY FetchedReady DEF Store
<1>2. /\ ~Outside(i) /\ ~Askew(i) /\ (AddressOverflow(i) <=> Overflow(i))
      /\ ALU(i.op, reg[i.rs], SignExtend(i.imm)) = a
      /\ a \in Nat /\ a \div 4 \in DataWord /\ a % (Further(i.op) + 1) = 0
  BY <1>1, AccessIs
<1>3. u \in Word /\ PC + 1 \in Word /\ mem[a \div 4] \in Word
  BY <1>1, <1>2, HereIs DEF Ready, MachineOK, TypeOK
<1>4. ExecStore(i.op, mem[a \div 4], a, u) = Merged(i.op, mem[a \div 4], a % 4, u)
      /\ ExecStore(i.op, mem[a \div 4], a, u) \in Word
  <2> DEFINE w == mem[a \div 4]
  <2>1. w \in Word
    BY <1>3
  <2> HIDE DEF a, w, u
  <2>2. ExecStore(i.op, w, a, u) = Merged(i.op, w, a % 4, u) /\ ExecStore(i.op, w, a, u) \in Word
    BY <1>1, <1>2, <1>3, <2>1, StoresAgree
  <2> QED BY <2>2 DEF w
<1>5. f \in {<<>>, <<NUM_OF>>} /\ (f = <<>> <=> ~Overflow(i))
  BY <1>2 DEF Flag
<1>6. ErrorsDue = {e \in {NUM_OF} : Overflow(i)}
  <2>1. ~WritesZero(i)
    BY <1>1, Classes DEF WritesZero
  <2>2. PC \in Address /\ check_PC = 0
    BY <1>1 DEF Ready
  <2> QED BY <1>2, <2>1, <2>2 DEF ErrorsDue
<1>7. code' = code /\ check_PC' = check_PC /\ PC' = PC + 1
  BY <1>1 DEF Turn
<1> HIDE DEF f
<1>8. /\ f \in Seq(Errors)
      /\ NewErrors = (IF f = <<>> THEN {} ELSE {NUM_OF})
  BY <1>1, <1>5, TurnReportsOne DEF Ready
<1>9. MachineOK'
  <2>1. reg' \in [Reg -> Word] /\ reg'[0] = 0 /\ halt' \in BOOLEAN
    BY <1>1 DEF Ready, MachineOK, TypeOK
  <2>2. mem' \in [DataWord -> Word]
    <3>1. mem \in [DataWord -> Word]
      BY <1>1 DEF Ready, MachineOK, TypeOK
    <3> HIDE DEF a, u
    <3> QED BY <1>1, <1>4, <3>1
  <2> QED BY <1>1, <1>3, <1>8, <2>1, <2>2, TurnTyped DEF Ready
<1>10. NewErrors = ErrorsDue
  <2> HIDE DEF i
  <2> QED BY <1>5, <1>6, <1>8
<1>11. i # NOP
  BY <1>1, Classes
<1>12. ~halt' /\ Due(code, PC') = Due(code, PC + 1)
  BY <1>1, <1>7 DEF Ready
<1>13. Machine!GoTo(Pc + 1)
  BY <1>1, <1>7, <1>11, <1>12, MachineGoes, PcIs
<1>14. /\ Machine!Here = i /\ Machine!AddressOf(i) = a
       /\ \A ops : Machine!Running(ops) <=> i.op \in ops
  BY <1>1, <1>2, <1>11, MachineRuns
<1>15. Machine!Accessible(a)
  BY <1>1, <1>2 DEF Machine!Accessible, Machine!DataWord, DataWord
<1>16. mem' = [mem EXCEPT ![a \div 4] = Machine!Merged(i.op, @, a % 4, u)]
  BY <1>1, <1>4, SameBytes
<1> HIDE DEF a
<1>17. Machine!Store
  BY <1>1, <1>13, <1>14, <1>15, <1>16, SameClasses DEF Machine!Store, Pc
<1> QED BY <1>9, <1>10, <1>17 DEF GoodStep, Machine!Next

\* A branch never overflows, and a target that wraps is outside the code as the
\* negative one is.
LEMMA BranchTarget ==
  ASSUME Ready
  PROVE  LET t == PC + 1 + SignC(Here)
         IN  /\ ~check_num_OF_add(PC + 1, SignExtend(Here.imm))
             /\ t % WordSize \in Word
             /\ Due(code, t % WordSize) = Due(code, Target(PC, Here))
<1> DEFINE i == Here
           e == SignExtend(i.imm)
           s == Signed(e)
           t == PC + 1 + s
           W == WordSize
           M == WordSize \div 2
           G == HalfSize \div 2
           n == CodeWords
<1>1. /\ n \in Nat /\ W = 2 * M /\ M \in Nat \ {0} /\ W \in Nat \ {0}
      /\ HalfSize = 2 * G /\ G \in Nat \ {0} /\ n + HalfSize <= M
  BY Room
<1>2. PC \in 0 .. n - 1 /\ PC + 1 \in Word /\ PC \in Int
  BY <1>1, HereIs DEF Ready, Address
<1>3. e \in Word /\ s \in -G .. G - 1
  BY HereIs, Immediate DEF Ready
<1>4. Signed(PC + 1) = PC + 1
  <2>1. PC + 1 < M
    <3> HIDE DEF M, G, n
    <3> QED BY <1>1, <1>2
  <2> QED BY <2>1 DEF Signed
<1>5. ~check_num_OF_add(PC + 1, e)
  <2>1. check_num_OF_add(PC + 1, e) <=> (Signed(PC + 1) + s < -M \/ Signed(PC + 1) + s >= M)
    BY <1>2, <1>3, AddExact
  <2>2. ~(PC + 1 + s < -M) /\ ~(PC + 1 + s >= M)
    <3> HIDE DEF M, G, n, s
    <3> QED BY <1>1, <1>2, <1>3
  <2> QED BY <1>4, <2>1, <2>2
<1>6. t \in Int /\ -G <= t /\ t < n + G
  <2> HIDE DEF M, G, n, s
  <2> QED BY <1>1, <1>2, <1>3
<1>7. SignC(i) = s /\ Target(PC, i) = t
  BY DEF SignC, Target
<1>8. DOMAIN code = 0 .. n - 1
  BY DEF Ready, MachineOK, TypeOK, Address
<1> HIDE DEF t, M, G, n, W
<1>9. Due(code, t % W) = Due(code, t)
  <2>1. CASE t < 0
    <3>1. t = W * (-1) + (t + W) /\ t + W \in 0 .. W - 1 /\ -1 \in Int
      BY <1>1, <1>6, <2>1
    <3>2. t % W = t + W
      <4> DEFINE z == t + W
                 q == -1
      <4>1. q \in Int /\ z \in 0 .. W - 1 /\ t = W * q + z
        BY <3>1
      <4> HIDE DEF z, q
      <4>2. t % W = z
        BY <1>1, <4>1, Unique
      <4> QED BY <4>2 DEF z
    <3>3. t \notin 0 .. n - 1 /\ t + W \notin 0 .. n - 1 /\ t + W \in Int
      BY <1>1, <1>6, <2>1
    <3> QED BY <1>1, <1>6, <1>8, <3>2, <3>3, DueIs
  <2>2. CASE t >= 0
    <3>1. t = W * 0 + t /\ t \in 0 .. W - 1
      BY <1>1, <1>6, <2>2
    <3>2. t % W = t
      BY <1>1, <3>1, Unique
    <3> QED BY <3>2
  <2> QED BY <1>6, <2>1, <2>2
<1>10. t % W \in Word
  BY <1>6, Inside DEF W
<1> QED BY <1>5, <1>7, <1>9, <1>10 DEF t, W

\* Branches report nothing.
LEMMA BranchSteps ==
  ASSUME MachineOK, Branch
  PROVE  GoodStep
<1> DEFINE i == Here
           taken == (reg[i.rs] = reg[i.rt]) <=> (i.op = "BEQ")
           t == (PC + 1 + SignC(i)) % WordSize
           f == Flag(check_num_OF_add(PC + 1, SignExtend(i.imm)), NUM_OF)
           p == IF taken THEN t ELSE PC + 1
<1>1. /\ Ready /\ i.op \in Branches /\ Turn(f, p)
      /\ UNCHANGED <<reg, mem, halt>>
  BY FetchedReady DEF Branch
<1>2. /\ ~check_num_OF_add(PC + 1, SignExtend(i.imm))
      /\ t \in Word /\ Due(code, t) = Due(code, Target(PC, i)) /\ PC + 1 \in Word
  BY <1>1, BranchTarget, HereIs DEF Ready
<1>3. f = <<>>
  BY <1>2 DEF Flag
<1>4. ErrorsDue = {}
  <2>1. ~WritesZero(i) /\ ~Outside(i) /\ ~Askew(i)
    BY <1>1, Classes DEF WritesZero, Outside, Askew
  <2>2. ~Overflow(i)
    BY <1>1, Classes DEF Overflow, Branches, Loads, Stores
  <2>3. PC \in Address /\ check_PC = 0
    BY <1>1 DEF Ready
  <2> QED BY <2>1, <2>2, <2>3 DEF ErrorsDue
<1>5. code' = code /\ check_PC' = check_PC /\ PC' = p /\ p \in Word
  BY <1>1, <1>2 DEF Turn
<1> HIDE DEF f, t
<1>6. /\ f \in Seq(Errors)
      /\ NewErrors = (IF f = <<>> THEN {} ELSE {NUM_OF})
  <2>1. f \in {<<>>, <<NUM_OF>>}
    BY <1>3
  <2> QED BY <1>1, <2>1, TurnReportsOne DEF Ready
<1>7. MachineOK'
  <2>1. reg' \in [Reg -> Word] /\ reg'[0] = 0 /\ halt' \in BOOLEAN /\ mem' \in [DataWord -> Word]
    BY <1>1 DEF Ready, MachineOK, TypeOK
  <2> HIDE DEF p
  <2> QED BY <1>1, <1>5, <1>6, <2>1, TurnTyped DEF Ready
<1>8. NewErrors = ErrorsDue
  BY <1>3, <1>4, <1>6
<1>9. i # NOP
  BY <1>1, Classes
<1> DEFINE q == IF taken THEN Target(PC, i) ELSE PC + 1
<1>10. ~halt' /\ Due(code, PC') = Due(code, q)
  BY <1>1, <1>2, <1>5 DEF Ready
<1>11. Machine!GoTo(q)
  BY <1>1, <1>5, <1>9, <1>10, MachineGoes
<1>12. Pc = PC
  BY <1>1, <1>9, PcIs
<1>13. Machine!Here = i /\ \A ops : Machine!Running(ops) <=> i.op \in ops
  BY <1>1, <1>9, MachineRuns
<1>14. Machine!Target(PC, i) = Target(PC, i)
  BY SameTarget
<1>15. Machine!Branch
  BY <1>1, <1>11, <1>12, <1>13, <1>14, SameClasses DEF Machine!Branch, Pc
<1> QED BY <1>7, <1>8, <1>15 DEF GoodStep, Machine!Next

\* A quarter of a word is a word.
LEMMA QuarterWord == ASSUME NEW w \in Word PROVE w \div 4 \in Word
BY Sizes DEF Word

\* What ends a turn without errors and without touching memory.
LEMMA QuietTurn ==
  ASSUME Ready, NEW p \in Word, Turn(<<>>, p), UNCHANGED mem, halt' \in BOOLEAN,
         reg' \in [Reg -> Word], reg'[0] = 0,
         Here.op \in {"J", "JAL", "JR", "HALT"}, Here.op = "JR" => reg[Here.rs] % 4 = 0
  PROVE  MachineOK' /\ NewErrors = ErrorsDue
<1> DEFINE i == Here
<1>1. ErrorsDue = {}
  <2>1. ~WritesZero(i) /\ ~Outside(i) /\ ~Askew(i)
    BY Classes DEF WritesZero, Outside, Askew
  <2>2. ~Overflow(i)
    BY Classes DEF Overflow, Loads, Stores
  <2>3. PC \in Address /\ check_PC = 0
    BY DEF Ready
  <2> QED BY <2>1, <2>2, <2>3 DEF ErrorsDue
<1>2. <<>> \in Seq(Errors) /\ NewErrors = {}
  <2> DEFINE f == <<>>
  <2>1. f \in {<<>>, <<NUM_OF>>} /\ f = <<>>
    OBVIOUS
  <2> HIDE DEF f
  <2>2. f \in Seq(Errors) /\ NewErrors = IF f = <<>> THEN {} ELSE {NUM_OF}
    BY <2>1, TurnReportsOne DEF Ready
  <2> QED BY <2>1, <2>2
<1>3. MachineOK'
  <2>1. mem' \in [DataWord -> Word]
    BY DEF Ready, MachineOK, TypeOK
  <2> QED BY <1>2, <2>1, TurnTyped DEF Ready
<1> QED BY <1>1, <1>2, <1>3

\* J and JAL.
LEMMA JumpSteps ==
  ASSUME MachineOK, Jump
  PROVE  GoodStep
<1> DEFINE i == Here
           link == ShiftLeft(PC + 1, 2)
<1>1. /\ Ready /\ i.op \in {"J", "JAL"} /\ Turn(<<>>, i.imm)
      /\ IF i.op = "JAL" THEN Set(31, link) ELSE UNCHANGED reg
      /\ UNCHANGED <<mem, halt>>
  BY FetchedReady DEF Jump
<1>2. i.imm \in Word /\ PC + 1 \in Word /\ PC + 1 \in Int
  BY <1>1, HereIs DEF Ready, Word
<1>3. link = (4 * (PC + 1)) % WordSize /\ link \in Word
  <2>1. 2 ^ 2 = 4
    OBVIOUS
  <2>2. (PC + 1) * 4 = 4 * (PC + 1) /\ 4 * (PC + 1) \in Int
    BY <1>2
  <2>3. link = ((PC + 1) * 4) % WordSize
    BY <2>1 DEF ShiftLeft
  <2> QED BY <2>2, <2>3, Inside
<1> HIDE DEF link
<1>4. reg' \in [Reg -> Word] /\ reg'[0] = 0
  <2>1. CASE i.op = "JAL"
    BY <1>1, <1>3, <2>1, RegAssumption, SetTyped DEF Ready
  <2>2. CASE i.op # "JAL"
    BY <1>1, <2>2 DEF Ready, MachineOK, TypeOK
  <2> QED BY <2>1, <2>2
<1>5. ~halt' /\ halt' \in BOOLEAN
  BY <1>1 DEF Ready, MachineOK, TypeOK
<1>6. MachineOK' /\ NewErrors = ErrorsDue
  <2> DEFINE p == i.imm
  <2>1. p \in Word /\ Turn(<<>>, p) /\ UNCHANGED mem
        /\ i.op \in {"J", "JAL", "JR", "HALT"} /\ i.op # "JR"
    BY <1>1, <1>2
  <2> HIDE DEF p
  <2> QED BY <1>1, <1>4, <1>5, <2>1, QuietTurn
<1>7. code' = code /\ check_PC' = check_PC /\ PC' = i.imm
  BY <1>1 DEF Turn
<1>8. i # NOP
  BY <1>1, Classes
<1>9. Machine!GoTo(i.imm) /\ Pc = PC
  BY <1>1, <1>5, <1>7, <1>8, MachineGoes, PcIs
<1>10. Machine!Here = i /\ \A ops : Machine!Running(ops) <=> i.op \in ops
  BY <1>1, <1>8, MachineRuns
<1>11. i.op = "JAL" => Machine!Set(31, (4 * (PC + 1)) % Machine!WordSize)
  BY <1>1, <1>3, SameSizes DEF Machine!Set, Set
<1>12. Machine!Jump
  BY <1>1, <1>9, <1>10, <1>11 DEF Machine!Jump, Pc
<1> QED BY <1>6, <1>12 DEF GoodStep, Machine!Next

\* JR to an aligned address.
LEMMA JumpRegisterSteps ==
  ASSUME MachineOK, JumpRegister
  PROVE  GoodStep
<1> DEFINE i == Here
           p == reg[i.rs] \div 4
<1>1. /\ Ready /\ i.op = "JR" /\ Turn(<<>>, p) /\ reg[i.rs] % 4 = 0
      /\ UNCHANGED <<reg, mem, halt>>
  BY FetchedReady DEF JumpRegister
<1>2. p \in Word
  BY <1>1, HereIs, QuarterWord DEF Ready
<1> HIDE DEF p
<1>3. reg' \in [Reg -> Word] /\ reg'[0] = 0 /\ ~halt' /\ halt' \in BOOLEAN
  BY <1>1 DEF Ready, MachineOK, TypeOK
<1>4. MachineOK' /\ NewErrors = ErrorsDue
  BY <1>1, <1>2, <1>3, QuietTurn
<1>5. code' = code /\ check_PC' = check_PC /\ PC' = p
  BY <1>1 DEF Turn
<1>6. i # NOP
  BY <1>1, Classes
<1>7. Machine!GoTo(p)
  BY <1>1, <1>3, <1>5, <1>6, MachineGoes
<1>8. Machine!Here = i /\ \A ops : Machine!Running(ops) <=> i.op \in ops
  BY <1>1, <1>6, MachineRuns
<1>9. Machine!Jump
  BY <1>1, <1>7, <1>8 DEF Machine!Jump, p
<1> QED BY <1>4, <1>9 DEF GoodStep, Machine!Next

\* JR to a misaligned address: reported in the next cycle, which prints its snapshot.
LEMMA JumpFaultSteps ==
  ASSUME MachineOK, JumpFault
  PROVE  GoodStep
<1> DEFINE i == Here
           s == <<DATA_MIS>>
<1>1. /\ Ready /\ i.op = "JR" /\ reg[i.rs] % 4 # 0
      /\ log' = Reported(s, cycle + 1) /\ snapshots' = snapshots \o <<cycle, cycle + 1>>
      /\ PC' = reg[i.rs] \div 4 /\ cycle' = cycle + 2 /\ halt' = TRUE
      /\ UNCHANGED <<code, check_PC, reg, mem>>
  BY FetchedReady DEF JumpFault
<1>2. reg[i.rs] \div 4 \in Word
  BY <1>1, HereIs, QuarterWord DEF Ready
<1>3. s \in Seq(Errors) /\ Contents(s) = {DATA_MIS}
  <2>1. s \in Seq(Errors) /\ Len(s) = 1 /\ s[1] = DATA_MIS
    BY ErrorNames
  <2> HIDE DEF s
  <2> QED BY <2>1 DEF Contents
<1> HIDE DEF s
<1>4. log \in Seq(ReportedEntry) /\ cycle \in 0 .. MaxCycles /\ cycle + 1 \in 0 .. MaxCycles
  BY <1>1, Room DEF Ready, MachineOK, TypeOK, ReportedEntry, Errors
<1>5. log' \in Seq(ReportedEntry) /\ NewErrors = {DATA_MIS}
  BY <1>1, <1>3, <1>4, ReportTyped
<1>6. ErrorsDue = {DATA_MIS}
  <2>1. ~Outside(i) /\ Askew(i) /\ ~Overflow(i)
    BY <1>1, Classes DEF Outside, Askew, Overflow, Loads, Stores
  <2>2. PC \in Address /\ check_PC = 0
    BY <1>1 DEF Ready
  <2> QED BY <2>1, <2>2 DEF ErrorsDue
<1>7. MachineOK'
  <2>1. snapshots' \in Seq(0 .. MaxCycles)
    BY <1>1, <1>4 DEF Ready, MachineOK, TypeOK
  <2>2. cycle' \in 0 .. MaxCycles + 1
    BY <1>1, <1>4, Room
  <2> QED BY <1>1, <1>2, <1>5, <2>1, <2>2
          DEF Ready, MachineOK, TypeOK, ShiftsOK, ReportedEntry, Errors
<1>8. Trap
  BY <1>1, <1>5, ErrorNames DEF Trap
<1> QED BY <1>5, <1>6, <1>7, <1>8 DEF GoodStep

\* HALT.
LEMMA HaltSteps ==
  ASSUME MachineOK, Halt
  PROVE  GoodStep
<1> DEFINE i == Here
<1>1. /\ Ready /\ i.op = "HALT" /\ Turn(<<>>, PC + 1) /\ halt' = TRUE
      /\ UNCHANGED <<reg, mem>>
  BY FetchedReady DEF Halt
<1>2. PC + 1 \in Word
  BY <1>1, HereIs DEF Ready
<1>3. reg' \in [Reg -> Word] /\ reg'[0] = 0 /\ halt' \in BOOLEAN
  BY <1>1 DEF Ready, MachineOK, TypeOK
<1>4. MachineOK' /\ NewErrors = ErrorsDue
  <2> DEFINE p == PC + 1
  <2>1. p \in Word /\ Turn(<<>>, p) /\ UNCHANGED mem
        /\ i.op \in {"J", "JAL", "JR", "HALT"} /\ i.op # "JR"
    BY <1>1, <1>2
  <2> HIDE DEF p
  <2> QED BY <1>1, <1>3, <2>1, QuietTurn
<1>5. i # NOP
  BY <1>1, Classes
<1>6. \A ops : Machine!Running(ops) <=> i.op \in ops
  BY <1>1, <1>5, MachineRuns
<1>7. code' = code
  BY <1>1 DEF Turn
<1>8. Machine!Halt
  BY <1>1, <1>6, <1>7, SameSizes DEF Machine!Halt
<1> QED BY <1>4, <1>8 DEF GoodStep, Machine!Next

\* The loop leaves before it fetches: PC is not an instruction's address.
LEMMA BadPCSteps ==
  ASSUME MachineOK, BadPC
  PROVE  GoodStep
<1> DEFINE e == IF PC \notin Address THEN MEM_OF ELSE DATA_MIS
           s == <<e>>
<1>1. /\ ~halt /\ cycle < MaxCycles
      /\ PC \notin Address \/ check_PC # 0
      /\ log' = Reported(s, cycle) /\ snapshots' = Append(snapshots, cycle)
      /\ halt' = TRUE
      /\ UNCHANGED <<code, PC, check_PC, reg, mem, cycle>>
  BY DEF BadPC
<1>2. e \in Errors /\ e \in Fatal
  BY ErrorNames
<1>3. ErrorsDue = {e}
  BY <1>1 DEF ErrorsDue
<1> HIDE DEF e
<1>4. s \in Seq(Errors) /\ Contents(s) = {e}
  <2>1. s \in Seq(Errors) /\ Len(s) = 1 /\ s[1] = e
    BY <1>2
  <2> HIDE DEF s
  <2> QED BY <2>1 DEF Contents
<1> HIDE DEF s
<1>5. log \in Seq(ReportedEntry) /\ cycle \in 0 .. MaxCycles
  BY <1>1, Room DEF MachineOK, TypeOK, ReportedEntry, Errors
<1>6. log' \in Seq(ReportedEntry) /\ NewErrors = {e}
  BY <1>1, <1>4, <1>5, ReportTyped
<1>7. MachineOK'
  <2>1. snapshots' \in Seq(0 .. MaxCycles)
    BY <1>1, <1>5 DEF MachineOK, TypeOK
  <2> QED BY <1>1, <1>6, <2>1 DEF MachineOK, TypeOK, ShiftsOK, ReportedEntry, Errors
<1>8. Trap
  BY <1>1, <1>2, <1>6 DEF Trap
<1> QED BY <1>3, <1>6, <1>7, <1>8 DEF GoodStep

\* Every step of main's loop.
LEMMA NextSteps ==
  ASSUME MachineOK, Next
  PROVE  GoodStep
BY BadPCSteps, RegisterArithSteps, ImmediateArithSteps, AccessFaultSteps, LoadSteps,
   StoreSteps, BranchSteps, JumpSteps, JumpRegisterSteps, JumpFaultSteps, HaltSteps
   DEF Next

\* And a stutter.
LEMMA Stutters ==
  ASSUME MachineOK, UNCHANGED vars
  PROVE  MachineOK' /\ UNCHANGED Machine!vars
<1>1. MachineOK'
  BY DEF vars, MachineOK, TypeOK, ShiftsOK
<1>2. UNCHANGED Machine!vars
  BY DEF vars, Machine!vars
<1> QED BY <1>1, <1>2

\* Registers, memory and PC hold words, $0 holds zero, and the log, the snapshots
\* and the cycles stay within the bound.
THEOREM MachineTyped == Spec => []TypeOK
<1>1. MachineOK /\ [Next]_vars => MachineOK'
  BY NextSteps, Stutters DEF GoodStep
<1>2. MachineOK => TypeOK
  BY DEF MachineOK
<1> QED BY <1>1, <1>2, TypedInit, PTL DEF Spec

\* A turn reports just the errors that arithmetic on integers finds in its
\* instruction: simu_r's carry chains, the wrapped sums of addresses and the order
\* of the checks miss none and invent none, for words of any width.
THEOREM ErrorsAreExact == Spec => ErrorsExact
<1>1. MachineOK /\ [Next]_vars => MachineOK'
  BY NextSteps, Stutters DEF GoodStep
<1>2. MachineOK /\ [Next]_vars => [NewErrors = ErrorsDue]_vars
  BY NextSteps DEF GoodStep
<1> QED BY <1>1, <1>2, TypedInit, PTL DEF Spec, ErrorsExact

\* The machine starts as the instruction set says.
LEMMA MachineStarts == ASSUME Init, MachineOK PROVE Machine!Init
<1>1. code \in [Machine!Address -> Machine!Instr] /\ Machine!Address = Address
  BY SameInstr DEF MachineOK, TypeOK, Machine!Address, Address
<1>2. reg \in [Reg -> Machine!Word] /\ reg[0] = 0 /\ mem \in [Machine!DataWord -> Machine!Word]
  BY SameSizes DEF MachineOK, TypeOK, Machine!DataWord, DataWord
<1>3. \E start \in Address \cup {Stopped} : Pc = Due(code, start)
  <2>1. CodeWords \in Nat /\ DOMAIN code = 0 .. CodeWords - 1 /\ -1 \in Int /\ PC \in Int
    BY Room DEF MachineOK, TypeOK, Address, Word
  <2>2. Stopped \notin DOMAIN code /\ Stopped \in Int
    BY <2>1 DEF Stopped
  <2>3. Due(code, Stopped) = Stopped
    BY <2>1, <2>2, DueIs
  <2>4. CASE ~halt /\ check_PC = 0 /\ PC \in Address
    BY <2>4 DEF Pc
  <2>5. CASE ~halt /\ check_PC = 0 /\ PC \notin Address
    <3>1. PC \notin DOMAIN code
      BY <2>1, <2>5 DEF Address
    <3>2. Due(code, PC) = Stopped
      BY <2>1, <3>1, DueIs
    <3> QED BY <2>3, <2>5, <3>2 DEF Pc
  <2>6. CASE halt \/ check_PC # 0
    BY <2>3, <2>6 DEF Pc
  <2> QED BY <2>4, <2>5, <2>6
<1> QED BY <1>1, <1>2, <1>3, SameDue, SameSizes DEF Machine!Init, Pc

\* The single-cycle processor is the machine of the instruction set, up to the turn
\* that stops it: loads and stores move the bytes they name, shifts, sums and
\* branch targets are those of the definition, and errors that are only reported
\* change nothing; for all programs and sizes.
THEOREM RefinesISA == Spec => ImplementsISA
<1>1. MachineOK /\ [Next]_vars => MachineOK'
  BY NextSteps, Stutters DEF GoodStep
<1>2. MachineOK /\ [Next]_vars => [Trap \/ Machine!Next]_(Machine!vars)
  BY NextSteps, Stutters DEF GoodStep
<1>3. Init => Machine!Init
  BY TypedInit, MachineStarts
<1> QED BY <1>1, <1>2, <1>3, TypedInit, PTL DEF Spec, ImplementsISA
=============================================================================
