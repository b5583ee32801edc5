----------------------------- MODULE Processor ------------------------------
(***************************************************************************)
(* proj3: the processor on top of the memory hierarchy.  A turn of main's  *)
(* loop fetches the word at PC through the instruction side and executes   *)
(* it; loads and stores go through the data side.  The sides are IMemory   *)
(* and DMemory, each with its own page, frame, block and cache sizes.      *)
(*                                                                         *)
(* A word of a side is a function from lanes to bytes; the processor sees  *)
(* its value.  Project3.docx keeps addresses that are out of range or not  *)
(* aligned out of the programs: no action is enabled for them.             *)
(***************************************************************************)
EXTENDS Datapath

CONSTANTS
  DiskWords,                                          \* DISK_SIZE >> 2, of each side
  IFrames, IPageWords, IBlockWords, ISets, IWays,     \* the instruction side
  DFrames, DPageWords, DBlockWords, DSets, DWays,     \* the data side
  IImage, DImage,  \* the disks as the loader leaves them: Image[page][word]
  Decode(_),       \* the instruction a word encodes
  Starts           \* start addresses (of words) and initial $sp: <<PC, sp>>

IDiskPages == DiskWords \div IPageWords
DDiskPages == DiskWords \div DPageWords
Address    == 0 .. DiskWords - 1
Bytes      == [0 .. 3 -> 0 .. ByteSize - 1]

\* The accesses a program may make, as page and offset.
Fetches    == [page : 0 .. IDiskPages - 1, off : {4 * o : o \in 0 .. IPageWords - 1}]
DataReads  == [page : 0 .. DDiskPages - 1, off : 0 .. 4 * DPageWords - 1]
DataWrites ==
  {a \in [page : 0 .. DDiskPages - 1, off : 0 .. 4 * DPageWords - 1,
          op : Stores, word : Bytes] :
     (a.op = "SH" => a.off % 2 = 0) /\ (a.op = "SW" => a.off % 4 = 0)}

\* One-word blocks are the default; larger ones are filled from the wrong place
\* by some accesses (see AlignedFills in DMemory and IMemory).
ASSUME GeometryAssumption ==
  /\ IFrames \in Nat \ {0} /\ IPageWords \in Nat \ {0}
  /\ ISets \in Nat \ {0} /\ IWays \in Nat \ {0}
  /\ IBlockWords \in {1, 2} /\ IPageWords % IBlockWords = 0
  /\ DFrames \in Nat \ {0} /\ DPageWords \in Nat \ {0} /\ DBlockWords = 1
  /\ DSets \in Nat \ {0} /\ DWays \in Nat \ {0}
  /\ DiskWords \in Nat
  /\ IDiskPages >= 4 /\ DiskWords = IDiskPages * IPageWords
  /\ DDiskPages >= 4 /\ DiskWords = DDiskPages * DPageWords

\* The target of a branch that wraps is not on the disk: 256 words are few
\* among 2^32 addresses.
ASSUME RoomAssumption == DiskWords + HalfSize <= WordSize

ASSUME ImageAssumption ==
  /\ IImage \in [0 .. IDiskPages - 1 -> [0 .. IPageWords - 1 -> Bytes]]
  /\ DImage \in [0 .. DDiskPages - 1 -> [0 .. DPageWords - 1 -> Bytes]]
  /\ \A w \in Bytes : Decode(w) \in Instr
  /\ \A w \in Bytes : Decode(w).op = "SRA" => Decode(w).imm # 0
  /\ Starts \subseteq Address \X Word

VARIABLES
  PC, reg, halt,
  iside, instr, icounted,  \* the instruction side
  dside, data, dcounted    \* the data side

dvars == <<dside, data, dcounted>>
vars  == <<PC, reg, halt, iside, instr, icounted, dvars>>

IM == INSTANCE IMemory WITH
  DiskPages <- IDiskPages, Frames <- IFrames, PageWords <- IPageWords,
  BlockWords <- IBlockWords, Sets <- ISets, Ways <- IWays, Byte <- 0 .. ByteSize - 1,
  Image <- IImage, Fetches <- Fetches,
  side <- iside, instr <- instr, counted <- icounted

DM == INSTANCE DMemory WITH
  DiskPages <- DDiskPages, Frames <- DFrames, PageWords <- DPageWords,
  BlockWords <- DBlockWords, Sets <- DSets, Ways <- DWays, Byte <- 0 .. ByteSize - 1,
  Image <- DImage, Loads <- DataReads, Stores <- DataWrites,
  side <- dside, data <- data, counted <- dcounted

Init ==
  /\ \E start \in Starts :
       /\ PC = start[1]
       /\ reg = [r \in Reg |-> IF r = 29 THEN start[2] ELSE 0]
  /\ halt = FALSE
  /\ IM!Init
  /\ DM!Init
-----------------------------------------------------------------------------
\* Big-endian words and their values.
Value(w) == w[0] * ByteSize ^ 3 + w[1] * ByteSize ^ 2 + w[2] * ByteSize + w[3]
Split(v) == [k \in 0 .. 3 |-> ByteAt(v, k)]

InPage(a, pageWords) == [page |-> a \div (4 * pageWords), off |-> a % (4 * pageWords)]

\* read_Imemory(PC << 2), for one of the operations.
Fetched(ops) ==
  /\ ~halt
  /\ PC \in Address
  /\ IM!Fetch(InPage(4 * PC, IPageWords))
  /\ Decode(instr').op \in ops

Here == Decode(instr')

Set(r, value) == reg' = [x \in Reg |-> IF x = r /\ r # 0 THEN value ELSE reg[x]]

RegisterArith ==
  /\ Fetched(RArith)
  /\ LET i == Here
     IN  Set(i.rd, ExecR(i.op, IF i.op \in Shifts THEN i.imm ELSE reg[i.rs], reg[i.rt]))
  /\ PC' = PC + 1
  /\ UNCHANGED <<halt, dvars>>

ImmediateArith ==
  /\ Fetched(IArith)
  /\ Set(Here.rt, ImmediateALU(Here.op, reg[Here.rs], SignExtend(Here.imm)))
  /\ PC' = PC + 1
  /\ UNCHANGED <<halt, dvars>>

VAddr(i) == (reg[i.rs] + SignC(i)) % WordSize

Load ==
  /\ Fetched(Loads)
  /\ LET i == Here
         a == VAddr(i)
         r == InPage(a, DPageWords)
     IN  /\ r \in DataReads /\ a % (Further(i.op) + 1) = 0
         /\ DM!Read(r)
         /\ Set(i.rt, ExecLoad(i.op, Value(data'), a))
  /\ PC' = PC + 1
  /\ UNCHANGED halt

\* Slip: the register is stored without being moved to its place in the word.
Store_Unshifted ==
  /\ Fetched(Stores)
  /\ LET i == Here
         r == InPage(VAddr(i), DPageWords)
         w == [page |-> r.page, off |-> r.off, op |-> i.op, word |-> Split(reg[i.rt])]
     IN  w \in DataWrites /\ DM!Write(w)
  /\ PC' = PC + 1
  /\ UNCHANGED <<reg, halt>>

Store ==
  /\ Fetched(Stores)
  /\ LET i == Here
         r == InPage(VAddr(i), DPageWords)
         w == [page |-> r.page, off |-> r.off, op |-> i.op,
               word |-> Split(BitSave(i.op, r.off, reg[i.rt]))]
     IN  w \in DataWrites /\ DM!Write(w)
  /\ PC' = PC + 1
  /\ UNCHANGED <<reg, halt>>

Branch ==
  /\ Fetched(Branches)
  /\ PC' = IF (reg[Here.rs] = reg[Here.rt]) <=> (Here.op = "BEQ")
           THEN (PC + 1 + SignC(Here)) % WordSize ELSE PC + 1
  /\ UNCHANGED <<reg, halt, dvars>>

\* Slip: the PC is linked before it has moved on.
Jump_LinksItself ==
  /\ Fetched({"J", "JAL", "JR"})
  /\ PC' = IF Here.op = "JR" THEN reg[Here.rs] \div 4 ELSE Here.imm
  /\ IF Here.op = "JAL" THEN Set(31, ShiftLeft(PC, 2)) ELSE UNCHANGED reg
  /\ UNCHANGED <<halt, dvars>>

Jump ==
  /\ Fetched({"J", "JAL", "JR"})
  /\ PC' = IF Here.op = "JR" THEN reg[Here.rs] \div 4 ELSE Here.imm
  /\ IF Here.op = "JAL" THEN Set(31, ShiftLeft(PC + 1, 2)) ELSE UNCHANGED reg
  /\ UNCHANGED <<halt, dvars>>

Halt ==
  /\ Fetched({"HALT"})
  /\ halt' = TRUE
  /\ PC' = PC + 1
  /\ UNCHANGED <<reg, dvars>>

\* The loop has ended.
Ended == halt /\ UNCHANGED vars

Next == \/ RegisterArith \/ ImmediateArith \/ Load \/ Store
        \/ Branch \/ Jump \/ Halt \/ Ended

Spec == Init /\ [][Next]_vars

\* main's loop goes on until halt_flag is set.  (That a turn is always possible
\* is what the absence of deadlock shows; TLC is slow at ENABLED here.)
FairSpec == Spec /\ ([]<>halt \/ []<><<Next>>_vars)
-----------------------------------------------------------------------------
(* Properties.                                                             *)

TypeOK ==
  /\ PC \in Nat /\ reg \in [Reg -> Word] /\ reg[0] = 0 /\ halt \in BOOLEAN
  /\ IM!TypeOK /\ DM!TypeOK

\* Every turn executes the word the loader put at PC, whatever pages, blocks and
\* translations it has to go through.
ExecutesImage ==
  [][instr' = IImage[PC \div IPageWords][PC % IPageWords]]_vars

Code == [p \in Address |-> Decode(IImage[p \div IPageWords][p % IPageWords])]

Machine == INSTANCE ISA WITH
  CodeWords <- DiskWords,
  DataWords <- DiskWords,
  code <- Code,
  pc   <- IF halt THEN Stopped ELSE Due(Code, PC),
  mem  <- [w \in Address |-> Value(DM!WordSeen(dside, w \div DPageWords, w % DPageWords))]

\* The processor is the machine of the instruction set: faults, misses and
\* write-backs do not show.
ImplementsISA == Machine!Spec

\* A program that ends on that machine ends here: no turn is refused or repeated.
Halts == <>halt
=============================================================================
