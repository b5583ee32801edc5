-------------------------- MODULE ProcessorProofs ---------------------------
(***************************************************************************)
(* The processor of proj3 drives its two sides as IMemory and DMemory      *)
(* expect, so whatever is proved of a side holds while a program runs: it  *)
(* executes the loaded code and works on one flat memory, for all          *)
(* geometries, images and programs.                                        *)
(*                                                                         *)
(* And it is the machine of the instruction set.  The words of a side are  *)
(* lanes of bytes, so first come the values of words and what storing some *)
(* lanes does to them (StoredValue); then what a fetch, a load and a store *)
(* of a side mean for the value of the word the program names (FetchGives, *)
(* ReadGives, WriteGives); last, for each action, that it is a step of the *)
(* machine (GoodStep), from ProcessorOK: the invariants of both sides, and *)
(* that the code is seen as loaded.                                        *)
(*                                                                         *)
(* IP and DP bring in the theorems about the sides.  They define again     *)
(* what IM and DM define; the first lemmas say that it is the same.        *)
(***************************************************************************)
EXTENDS Processor, DatapathProofs, TLAPS

IP == INSTANCE IMemoryProofs WITH
  DiskPages <- IDiskPages, Frames <- IFrames, PageWords <- IPageWords,
  BlockWords <- IBlockWords, Sets <- ISets, Ways <- IWays, Byte <- 0 .. ByteSize - 1,
  Image <- IImage, Fetches <- Fetches,
  side <- iside, instr <- instr, counted <- icounted

DP == INSTANCE DMemoryProofs WITH
  DiskPages <- DDiskPages, Frames <- DFrames, PageWords <- DPageWords,
  BlockWords <- DBlockWords, Sets <- DSets, Ways <- DWays, Byte <- 0 .. ByteSize - 1,
  Image <- DImage, Loads <- DataReads, Stores <- DataWrites,
  side <- dside, data <- data, counted <- dcounted
-----------------------------------------------------------------------------
(* The instruction side of IM is that of IP.                               *)

\* The initial side is the same in IM and IP.
LEMMA IInitSide ==
  ASSUME NEW image PROVE IM!InitSide(image) = IP!InitSide(image)
BY DEF IM!InitSide, IP!InitSide, IM!Frame, IP!Frame, IM!PageWord, IP!PageWord,
  IM!ZeroWord, IP!ZeroWord, IM!Page, IP!Page, IM!TLBIndex, IP!TLBIndex,
  IM!TLBEntries, IP!TLBEntries, IM!SetIndex, IP!SetIndex, IM!Way, IP!Way,
  IM!BlockWord, IP!BlockWord, IM!Lane, IP!Lane

\* The first element of a set is the same in IM and IP.
LEMMA IFirst ==
  ASSUME NEW S PROVE IM!First(S) = IP!First(S)
BY DEF IM!First, IP!First

\* The ways that hit are the same in IM and IP.
LEMMA IHits ==
  ASSUME NEW s, NEW f, NEW o PROVE IM!Hits(s, f, o) = IP!Hits(s, f, o)
BY DEF IM!Hits, IP!Hits, IM!Way, IP!Way, IM!Index, IP!Index, IM!Tag, IP!Tag, IM!Block,
  IP!Block

\* The set of an address is the same in IM and IP.
LEMMA IIndex ==
  ASSUME NEW f, NEW o PROVE IM!Index(f, o) = IP!Index(f, o)
BY DEF IM!Index, IP!Index, IM!Block, IP!Block

\* The matching TLB entries are the same in IM and IP.
LEMMA ITLBHits ==
  ASSUME NEW s, NEW v PROVE IM!TLBHits(s, v) = IP!TLBHits(s, v)
BY DEF IM!TLBHits, IP!TLBHits, IM!TLBIndex, IP!TLBIndex, IM!TLBEntries, IP!TLBEntries

\* The frame a TLB hit gives is the same in IM and IP.
LEMMA IFrameOf ==
  ASSUME NEW s, NEW v PROVE IM!FrameOf(s, v) = IP!FrameOf(s, v)
BY IFirst, ITLBHits
DEF IM!FrameOf, IP!FrameOf

\* A list with one frame moved to the end is the same in IM and IP.
LEMMA IMoveToEnd ==
  ASSUME NEW q, NEW f PROVE IM!MoveToEnd(q, f) = IP!MoveToEnd(q, f)
BY DEF IM!MoveToEnd, IP!MoveToEnd, IM!First, IP!First, IM!Frame, IP!Frame

\* Moving a frame to the end of the LRU list is the same in IM and IP.
LEMMA ITouch ==
  ASSUME NEW s, NEW f PROVE IM!Touch(s, f) = IP!Touch(s, f)
BY IMoveToEnd
DEF IM!Touch, IP!Touch

\* Dropping the cached blocks of a frame is the same in IM and IP.
LEMMA IFlush ==
  ASSUME NEW s, NEW f PROVE IM!Flush(s, f) = IP!Flush(s, f)
BY DEF IM!Flush, IP!Flush, IM!Newest, IP!Newest, IM!DirtyHits, IP!DirtyHits, IM!Hits,
  IP!Hits, IM!Index, IP!Index, IM!Tag, IP!Tag, IM!Block, IP!Block, IM!Way, IP!Way,
  IM!First, IP!First, IM!PageWord, IP!PageWord, IM!SetIndex, IP!SetIndex, IM!Caches,
  IP!Caches, IM!Emptied, IP!Emptied, IM!BlockWord, IP!BlockWord, IM!ZeroWord,
  IP!ZeroWord, IM!Lane, IP!Lane

\* Taking a page out of the tables is the same in IM and IP.
LEMMA IUnmap ==
  ASSUME NEW s, NEW f PROVE IM!Unmap(s, f) = IP!Unmap(s, f)
BY DEF IM!Unmap, IP!Unmap, IM!TLBIndex, IP!TLBIndex, IM!TLBEntries, IP!TLBEntries,
  IM!First, IP!First

\* Handling a page fault is the same in IM and IP.
LEMMA IPageFault ==
  ASSUME NEW s, NEW v PROVE IM!PageFault(s, v) = IP!PageFault(s, v)
BY IFlush, ITouch, IUnmap
DEF IM!PageFault, IP!PageFault, IM!Save, IP!Save, IM!LoadPage, IP!LoadPage

\* Filling a TLB entry is the same in IM and IP.
LEMMA ITLBFill ==
  ASSUME NEW s, NEW v PROVE IM!TLBFill(s, v) = IP!TLBFill(s, v)
BY DEF IM!TLBFill, IP!TLBFill, IM!Victim, IP!Victim, IM!TLBIndex, IP!TLBIndex,
  IM!TLBEntries, IP!TLBEntries, IM!TLBRefs, IP!TLBRefs, IM!First, IP!First

\* Translating an address is the same in IM and IP.
LEMMA ITranslate ==
  ASSUME NEW s, NEW v PROVE IM!Translate(s, v) = IP!Translate(s, v)
BY ITLBHits, ITLBFill, IPageFault
DEF IM!Translate, IP!Translate

\* The way a fill replaces is the same in IM and IP.
LEMMA IVictimWay ==
  ASSUME NEW s, NEW c PROVE IM!VictimWay(s, c) = IP!VictimWay(s, c)
BY DEF IM!VictimWay, IP!VictimWay, IM!CacheRefs, IP!CacheRefs, IM!Victim, IP!Victim,
  IM!Way, IP!Way, IM!First, IP!First

\* Updating the reference counts is the same in IM and IP.
LEMMA IAge ==
  ASSUME NEW s, NEW c PROVE IM!Age(s, c) = IP!Age(s, c)
BY DEF IM!Age, IP!Age, IM!Way, IP!Way

\* Copying a dirty victim to its frame is the same in IM and IP.
LEMMA IWriteBack ==
  ASSUME NEW s, NEW c, NEW y PROVE IM!WriteBack(s, c, y) = IP!WriteBack(s, c, y)
BY DEF IM!WriteBack, IP!WriteBack, IM!StartWord, IP!StartWord, IM!PageWord,
  IP!PageWord, IM!BlockStart, IP!BlockStart

\* Filling a line is the same in IM and IP.
LEMMA IInstall ==
  ASSUME NEW s, NEW f, NEW g, NEW a, NEW c, NEW y PROVE IM!Install(s, f, g, a, c, y) = IP!Install(s, f, g, a, c, y)
BY DEF IM!Install, IP!Install, IM!Tag, IP!Tag, IM!Block, IP!Block, IM!BlockStart,
  IP!BlockStart, IM!StartWord, IP!StartWord, IM!BlockWord, IP!BlockWord

\* Reading a block through the cache is the same in IM and IP.
LEMMA ICacheRead ==
  ASSUME NEW s, NEW a PROVE IM!CacheRead(s, a) = IP!CacheRead(s, a)
BY IHits, IIndex, IFrameOf, IFirst, ITouch, IVictimWay, IAge, IWriteBack, IInstall
DEF IM!CacheRead, IP!CacheRead

\* The word a block gives is the same in IM and IP.
LEMMA IWordRead ==
  ASSUME NEW s, NEW a PROVE IM!WordRead(s, a) = IP!WordRead(s, a)
BY ITranslate, IFrameOf, IHits, ICacheRead, IIndex, IFirst
DEF IM!WordRead, IP!WordRead, IM!StartWord, IP!StartWord, IM!BlockStart,
  IP!BlockStart

\* Counting hits and misses is the same in IM and IP.
LEMMA ICounted ==
  ASSUME NEW s, NEW a PROVE IM!Counted(s, a) = IP!Counted(s, a)
BY ITranslate, ITLBHits, IHits, IFrameOf
DEF IM!Counted, IP!Counted

\* A fetch is the same in IM and IP.
LEMMA IFetch ==
  ASSUME NEW a PROVE IM!Fetch(a) <=> IP!Fetch(a)
BY ITranslate, ICacheRead, IWordRead, ICounted DEF IM!Fetch, IP!Fetch

-----------------------------------------------------------------------------
(* The data side of DM is that of DP.                                      *)

\* The initial side is the same in DM and DP.
LEMMA DInitSide ==
  ASSUME NEW image PROVE DM!InitSide(image) = DP!InitSide(image)
BY DEF DM!InitSide, DP!InitSide, DM!Frame, DP!Frame, DM!PageWord, DP!PageWord,
  DM!ZeroWord, DP!ZeroWord, DM!Page, DP!Page, DM!TLBIndex, DP!TLBIndex,
  DM!TLBEntries, DP!TLBEntries, DM!SetIndex, DP!SetIndex, DM!Way, DP!Way,
  DM!BlockWord, DP!BlockWord, DM!Lane, DP!Lane

\* The first element of a set is the same in DM and DP.
LEMMA DFirst ==
  ASSUME NEW S PROVE DM!First(S) = DP!First(S)
BY DEF DM!First, DP!First

\* The ways that hit are the same in DM and DP.
LEMMA DHits ==
  ASSUME NEW s, NEW f, NEW o PROVE DM!Hits(s, f, o) = DP!Hits(s, f, o)
BY DEF DM!Hits, DP!Hits, DM!Way, DP!Way, DM!Index, DP!Index, DM!Tag, DP!Tag, DM!Block,
  DP!Block

\* The set of an address is the same in DM and DP.
LEMMA DIndex ==
  ASSUME NEW f, NEW o PROVE DM!Index(f, o) = DP!Index(f, o)
BY DEF DM!Index, DP!Index, DM!Block, DP!Block

\* The matching TLB entries are the same in DM and DP.
LEMMA DTLBHits ==
  ASSUME NEW s, NEW v PROVE DM!TLBHits(s, v) = DP!TLBHits(s, v)
BY DEF DM!TLBHits, DP!TLBHits, DM!TLBIndex, DP!TLBIndex, DM!TLBEntries, DP!TLBEntries

\* The frame a TLB hit gives is the same in DM and DP.
LEMMA DFrameOf ==
  ASSUME NEW s, NEW v PROVE DM!FrameOf(s, v) = DP!FrameOf(s, v)
BY DFirst, DTLBHits
DEF DM!FrameOf, DP!FrameOf

\* A list with one frame moved to the end is the same in DM and DP.
LEMMA DMoveToEnd ==
  ASSUME NEW q, NEW f PROVE DM!MoveToEnd(q, f) = DP!MoveToEnd(q, f)
BY DEF DM!MoveToEnd, DP!MoveToEnd, DM!First, DP!First, DM!Frame, DP!Frame

\* Moving a frame to the end of the LRU list is the same in DM and DP.
LEMMA DTouch ==
  ASSUME NEW s, NEW f PROVE DM!Touch(s, f) = DP!Touch(s, f)
BY DMoveToEnd
DEF DM!Touch, DP!Touch

\* Dropping the cached blocks of a frame is the same in DM and DP.
LEMMA DFlush ==
  ASSUME NEW s, NEW f PROVE DM!Flush(s, f) = DP!Flush(s, f)
BY DEF DM!Flush, DP!Flush, DM!Newest, DP!Newest, DM!DirtyHits, DP!DirtyHits, DM!Hits,
  DP!Hits, DM!Index, DP!Index, DM!Tag, DP!Tag, DM!Block, DP!Block, DM!Way, DP!Way,
  DM!First, DP!First, DM!PageWord, DP!PageWord, DM!SetIndex, DP!SetIndex, DM!Caches,
  DP!Caches, DM!Emptied, DP!Emptied, DM!BlockWord, DP!BlockWord, DM!ZeroWord,
  DP!ZeroWord, DM!Lane, DP!Lane

\* Taking a page out of the tables is the same in DM and DP.
LEMMA DUnmap ==
  ASSUME NEW s, NEW f PROVE DM!Unmap(s, f) = DP!Unmap(s, f)
BY DEF DM!Unmap, DP!Unmap, DM!TLBIndex, DP!TLBIndex, DM!TLBEntries, DP!TLBEntries,
  DM!First, DP!First

\* Handling a page fault is the same in DM and DP.
LEMMA DPageFault ==
  ASSUME NEW s, NEW v PROVE DM!PageFault(s, v) = DP!PageFault(s, v)
BY DFlush, DTouch, DUnmap
DEF DM!PageFault, DP!PageFault, DM!Save, DP!Save, DM!LoadPage, DP!LoadPage

\* Filling a TLB entry is the same in DM and DP.
LEMMA DTLBFill ==
  ASSUME NEW s, NEW v PROVE DM!TLBFill(s, v) = DP!TLBFill(s, v)
BY DEF DM!TLBFill, DP!TLBFill, DM!Victim, DP!Victim, DM!TLBIndex, DP!TLBIndex,
  DM!TLBEntries, DP!TLBEntries, DM!TLBRefs, DP!TLBRefs, DM!First, DP!First

\* Translating an address is the same in DM and DP.
LEMMA DTranslate ==
  ASSUME NEW s, NEW v PROVE DM!Translate(s, v) = DP!Translate(s, v)
BY DTLBHits, DTLBFill, DPageFault
DEF DM!Translate, DP!Translate

\* The way a fill replaces is the same in DM and DP.
LEMMA DVictimWay ==
  ASSUME NEW s, NEW c PROVE DM!VictimWay(s, c) = DP!VictimWay(s, c)
BY DEF DM!VictimWay, DP!VictimWay, DM!CacheRefs, DP!CacheRefs, DM!Victim, DP!Victim,
  DM!Way, DP!Way, DM!First, DP!First

\* Updating the reference counts is the same in DM and DP.
LEMMA DAge ==
  ASSUME NEW s, NEW c PROVE DM!Age(s, c) = DP!Age(s, c)
BY DEF DM!Age, DP!Age, DM!Way, DP!Way

\* Copying a dirty victim to its frame is the same in DM and DP.
LEMMA DWriteBack ==
  ASSUME NEW s, NEW c, NEW y PROVE DM!WriteBack(s, c, y) = DP!WriteBack(s, c, y)
BY DEF DM!WriteBack, DP!WriteBack, DM!StartWord, DP!StartWord, DM!PageWord,
  DP!PageWord, DM!BlockStart, DP!BlockStart

\* Filling a line is the same in DM and DP.
LEMMA DInstall ==
  ASSUME NEW s, NEW f, NEW g, NEW a, NEW c, NEW y PROVE DM!Install(s, f, g, a, c, y) = DP!Install(s, f, g, a, c, y)
BY DEF DM!Install, DP!Install, DM!Tag, DP!Tag, DM!Block, DP!Block, DM!BlockStart,
  DP!BlockStart, DM!StartWord, DP!StartWord, DM!BlockWord, DP!BlockWord

\* Reading a block through the cache is the same in DM and DP.
LEMMA DCacheRead ==
  ASSUME NEW s, NEW a PROVE DM!CacheRead(s, a) = DP!CacheRead(s, a)
BY DHits, DIndex, DFrameOf, DFirst, DTouch, DVictimWay, DAge, DWriteBack, DInstall
DEF DM!CacheRead, DP!CacheRead

\* Storing bytes in a word is the same in DM and DP.
LEMMA DDeposit ==
  ASSUME NEW s, NEW f, NEW a PROVE DM!Deposit(s, f, a) = DP!Deposit(s, f, a)
BY DEF DM!Deposit, DP!Deposit, DM!Combine, DP!Combine, DM!Lanes, DP!Lanes, DM!Lane,
  DP!Lane, DM!PageWord, DP!PageWord

\* Storing into a block is the same in DM and DP.
LEMMA DMerge ==
  ASSUME NEW s, NEW c, NEW y, NEW a PROVE DM!Merge(s, c, y, a) = DP!Merge(s, c, y, a)
BY DEF DM!Merge, DP!Merge, DM!Combine, DP!Combine, DM!Lanes, DP!Lanes, DM!Lane,
  DP!Lane, DM!BlockWord, DP!BlockWord

\* Writing through the cache is the same in DM and DP.
LEMMA DCacheWrite ==
  ASSUME NEW s, NEW a PROVE DM!CacheWrite(s, a) = DP!CacheWrite(s, a)
BY DHits, DIndex, DFrameOf, DFirst, DTouch, DVictimWay, DAge, DWriteBack, DInstall,
   DDeposit, DMerge
DEF DM!CacheWrite, DP!CacheWrite

\* The word a block gives is the same in DM and DP.
LEMMA DWordRead ==
  ASSUME NEW s, NEW a PROVE DM!WordRead(s, a) = DP!WordRead(s, a)
BY DTranslate, DFrameOf, DHits, DCacheRead, DIndex, DFirst
DEF DM!WordRead, DP!WordRead, DM!StartWord, DP!StartWord, DM!BlockStart,
  DP!BlockStart

\* Counting hits and misses is the same in DM and DP.
LEMMA DCounted ==
  ASSUME NEW s, NEW a PROVE DM!Counted(s, a) = DP!Counted(s, a)
BY DTranslate, DTLBHits, DHits, DFrameOf
DEF DM!Counted, DP!Counted

\* A load is the same in DM and DP.
LEMMA DRead ==
  ASSUME NEW a PROVE DM!Read(a) <=> DP!Read(a)
BY DTranslate, DCacheRead, DWordRead, DCounted DEF DM!Read, DP!Read

\* A store is the same in DM and DP.
LEMMA DWrite ==
  ASSUME NEW a PROVE DM!Write(a) <=> DP!Write(a)
BY DTranslate, DCacheWrite, DCounted DEF DM!Write, DP!Write

-----------------------------------------------------------------------------
(* What the sides assume of their sizes, images and accesses.              *)

\* A side has a natural number of pages.
LEMMA Pages == IDiskPages \in Nat /\ DDiskPages \in Nat
BY GeometryAssumption DEF IDiskPages, DDiskPages

\* The sizes of the instruction side are those IMemory asks for.
LEMMA ISizes == IP!SizesAssumption
BY GeometryAssumption, Pages DEF IP!SizesAssumption

\* The sizes of the data side are those DMemory asks for.
LEMMA DSizes == DP!SizesAssumption
<1>1. DPageWords % 1 = 0
  BY GeometryAssumption
<1> QED BY <1>1, GeometryAssumption, Pages DEF DP!SizesAssumption

\* Both sides hold bytes.
LEMMA ZeroByte == IP!ByteAssumption /\ DP!ByteAssumption
BY Sizes DEF IP!ByteAssumption, DP!ByteAssumption

\* Where the block of a fetch starts, for blocks of one and two words.
LEMMA FetchStart ==
  ASSUME NEW o \in 0 .. IPageWords - 1
  PROVE  /\ IP!StartWord(4 * o) = o - (o % IBlockWords)
         /\ o - (o % IBlockWords) + IBlockWords <= IPageWords
         /\ (4 * o) \div 4 = o
<1>1. o \in Nat /\ IPageWords \in Nat /\ o < IPageWords /\ IPageWords % IBlockWords = 0
  BY GeometryAssumption
<1>2. (4 * o) \div 4 = o
  BY <1>1
<1>3. IP!StartWord(4 * o) = (4 * o - (o % IBlockWords)) \div 4
  BY <1>2 DEF IP!StartWord, IP!BlockStart
<1>4. CASE IBlockWords = 1
  <2>1. o % 1 = 0
    BY <1>1
  <2> QED BY <1>1, <1>2, <1>3, <1>4, <2>1
<1>5. CASE IBlockWords = 2
  <2>1. o % 2 \in 0 .. 1
    BY <1>1
  <2>2. (4 * o - (o % 2)) \div 4 = o - (o % 2)
    BY <1>1, <2>1
  <2>3. o - (o % 2) + 2 <= IPageWords
    BY <1>1, <1>5, <2>1
  <2> QED BY <1>2, <1>3, <1>5, <2>2, <2>3
<1> QED BY <1>4, <1>5, GeometryAssumption

\* Every fetch is a word of the disk, and its block lies inside one page.
LEMMA IProgram == IP!FetchAssumption /\ IP!AlignedFills
<1>1. IImage \in [IP!Page -> [IP!PageWord -> IP!Word]]
  BY ImageAssumption DEF IP!Page, IP!PageWord, IP!Word, IP!Lane, Bytes
<1>2. Fetches \subseteq [page : IP!Page, off : {4 * o : o \in IP!PageWord}]
  BY DEF Fetches, IP!Page, IP!PageWord
<1>3. ASSUME NEW a \in Fetches
      PROVE  IP!StartWord(a.off) + IBlockWords <= IPageWords /\ IP!Aligned(a.off)
  <2>1. PICK o \in 0 .. IPageWords - 1 : a.off = 4 * o
    BY DEF Fetches
  <2>2. IP!StartWord(4 * o) + IBlockWords <= IPageWords
    BY FetchStart
  <2>3. IP!Aligned(4 * o)
    <3>1. IP!StartWord(4 * o) = o - (o % IBlockWords) /\ (4 * o) \div 4 = o
      BY FetchStart
    <3> QED BY <3>1 DEF IP!Aligned
  <2> QED BY <2>1, <2>2, <2>3
<1> QED BY <1>1, <1>2, <1>3 DEF IP!FetchAssumption, IP!AlignedFills

\* Data is held in blocks of one word.
LEMMA DataStart ==
  ASSUME NEW off \in 0 .. 4 * DPageWords - 1
  PROVE  DP!StartWord(off) + DBlockWords <= DPageWords
<1>1. DPageWords \in Nat \ {0} /\ DBlockWords = 1
  BY GeometryAssumption
<1>2. off \div 4 \in 0 .. DPageWords - 1
  BY <1>1
<1>3. (off \div 4) % 1 = 0
  BY <1>2
<1>4. DP!StartWord(off) = off \div 4
  BY <1>1, <1>3 DEF DP!StartWord, DP!BlockStart
<1> QED BY <1>1, <1>2, <1>4

\* Every access is an aligned one to the disk, in a block inside one page.
LEMMA DProgram == DP!ProgramAssumption /\ DP!AlignedFills
<1>1. DImage \in [DP!Page -> [DP!PageWord -> DP!Word]]
  BY ImageAssumption DEF DP!Page, DP!PageWord, DP!Word, DP!Lane, Bytes
<1>2. DataReads \subseteq DP!Access
  BY DEF DataReads, DP!Access, DP!Page, DP!Offset
<1>3. DataWrites \subseteq DP!StoreOp
  BY DEF DataWrites, DP!StoreOp, DP!Page, DP!Offset, DP!Word, DP!Lane, Bytes, Stores
<1>4. \A a \in DataWrites : (a.op = "SH" => a.off % 2 = 0) /\ (a.op = "SW" => a.off % 4 = 0)
  BY DEF DataWrites
<1>5. \A a \in DataReads \cup DataWrites : DP!StartWord(a.off) + DBlockWords <= DPageWords
  BY DataStart DEF DataReads, DataWrites
<1>6. DP!ProgramAssumption
  BY <1>1, <1>2, <1>3, <1>4, <1>5 DEF DP!ProgramAssumption
<1>7. DP!AlignedFills
  BY <1>6, DSizes, ZeroByte, GeometryAssumption, DP!DefaultGeometry
<1> QED BY <1>6, <1>7
-----------------------------------------------------------------------------
(* The program counter as page and offset.                                 *)

\* Four times PC lies in the page and at the word of PC.
LEMMA FetchPlace ==
  ASSUME PC \in Address
  PROVE  LET a == InPage(4 * PC, IPageWords)
         IN  /\ a \in Fetches
             /\ a.page = PC \div IPageWords
             /\ a.off \div 4 = PC % IPageWords
<1> DEFINE k == IPageWords
           q == PC \div k
           r == PC % k
           x == (4 * PC) \div (4 * k)
           y == (4 * PC) % (4 * k)
<1>1. k \in Nat \ {0} /\ 4 * k \in Nat \ {0} /\ PC \in Nat /\ 4 * PC \in Nat
      /\ PC < IDiskPages * k /\ IDiskPages \in Nat
  BY GeometryAssumption, Pages DEF Address
<1>2. q \in Nat /\ r \in 0 .. k - 1 /\ PC = k * q + r
  BY <1>1, ISizes, ZeroByte, IProgram, IP!DivMod
<1>3. x \in Nat /\ y \in 0 .. 4 * k - 1 /\ 4 * PC = (4 * k) * x + y
  <2> DEFINE a == 4 * PC
             b == 4 * k
  <2>1. a \in Nat /\ b \in Nat \ {0}
    BY <1>1
  <2> HIDE DEF a, b
  <2>2. a \div b \in Nat /\ a % b \in 0 .. b - 1 /\ a = b * (a \div b) + (a % b)
    BY <2>1, ISizes, ZeroByte, IProgram, IP!DivMod
  <2> QED BY <2>2 DEF a, b, x, y
<1> HIDE DEF k, q, r, x, y
<1>4. 4 * PC = (4 * k) * q + 4 * r /\ 4 * r \in 0 .. 4 * k - 1
  BY <1>1, <1>2
<1>5. x = q /\ y = 4 * r
  BY <1>1, <1>2, <1>3, <1>4, ISizes, ZeroByte, IProgram, IP!DivModUnique
<1>6. q \in 0 .. IDiskPages - 1
  <2>1. ~ (q >= IDiskPages)
    <3>1. SUFFICES ASSUME q >= IDiskPages PROVE FALSE
      OBVIOUS
    <3>2. CASE q = IDiskPages
      BY <1>1, <1>2, <3>2
    <3>3. CASE q > IDiskPages
      <4>1. k * IDiskPages + k <= k * q
        BY <1>1, <1>2, <3>3, ISizes, ZeroByte, IProgram, IP!MulMonotone
      <4> QED BY <1>1, <1>2, <4>1
    <3> QED BY <1>1, <1>2, <3>1, <3>2, <3>3
  <2> QED BY <1>1, <1>2, <2>1
<1>7. InPage(4 * PC, IPageWords) = [page |-> q, off |-> 4 * r]
  BY <1>5 DEF InPage, x, y, k
<1>8. (4 * r) \div 4 = r
  BY <1>2
<1> QED BY <1>2, <1>6, <1>7, <1>8 DEF Fetches, k, q, r
-----------------------------------------------------------------------------
(* Every turn is one fetch, and at most one access to data.                *)

\* A turn that fetches makes one fetch of the instruction side.
LEMMA TurnFetches ==
  ASSUME NEW ops, Fetched(ops)
  PROVE  /\ PC \in Address
         /\ InPage(4 * PC, IPageWords) \in Fetches
         /\ IP!Fetch(InPage(4 * PC, IPageWords))
<1>1. PC \in Address /\ IM!Fetch(InPage(4 * PC, IPageWords))
  BY DEF Fetched
<1> QED BY <1>1, FetchPlace, IFetch

\* Every step fetches once, or changes nothing.
LEMMA NextFetches ==
  ASSUME [Next]_vars
  PROVE  \/ /\ PC \in Address
            /\ InPage(4 * PC, IPageWords) \in Fetches
            /\ IP!Fetch(InPage(4 * PC, IPageWords))
         \/ UNCHANGED vars
<1>1. CASE \E ops : Fetched(ops)
  BY <1>1, TurnFetches
<1>2. CASE UNCHANGED vars
  BY <1>2
<1> QED BY <1>1, <1>2 DEF Next, RegisterArith, ImmediateArith, Load, Store, Branch,
             Jump, Halt, Ended

\* Every step reads or writes data at most once.
LEMMA NextAccesses ==
  ASSUME [Next]_vars
  PROVE  DP!Next \/ UNCHANGED dvars
<1>1. CASE Load
  <2>1. PICK a \in DataReads : DM!Read(a)
    BY <1>1 DEF Load
  <2> QED BY <2>1, DRead DEF DP!Next
<1>2. CASE Store
  <2>1. PICK a \in DataWrites : DM!Write(a)
    BY <1>2 DEF Store
  <2> QED BY <2>1, DWrite DEF DP!Next
<1>3. CASE ~Load /\ ~Store
  BY <1>3 DEF Next, RegisterArith, ImmediateArith, Branch, Jump, Halt, Ended, vars, dvars
<1> QED BY <1>1, <1>2, <1>3

\* Both sides start as their modules say.
LEMMA SidesStart ==
  ASSUME Init
  PROVE  IP!Init /\ DP!Init
<1>1. IM!ZeroWord = IP!ZeroWord /\ DM!ZeroWord = DP!ZeroWord
  BY DEF IM!ZeroWord, IP!ZeroWord, DM!ZeroWord, DP!ZeroWord, IM!Lane, IP!Lane,
         DM!Lane, DP!Lane
<1> QED BY <1>1, IInitSide, DInitSide DEF Init, IM!Init, DM!Init, IP!Init, DP!Init

\* Whatever a program does, its turns are steps that IMemory and DMemory allow:
\* addresses are on the disk, stores aligned, one access at a time.
THEOREM DrivesSides == Spec => IP!Spec /\ DP!Spec
<1>1. [Next]_vars => [IP!Next]_(IP!vars)
  BY NextFetches DEF IP!Next, IP!vars, vars
<1>2. [Next]_vars => [DP!Next]_(DP!vars)
  BY NextAccesses DEF DP!vars, dvars
<1> QED BY SidesStart, <1>1, <1>2, PTL DEF Spec, IP!Spec, DP!Spec

\* A running program sees its code as loaded and its data as one flat memory,
\* and keeps the tables of both sides in order.
THEOREM SeesFlatMemories ==
  Spec => /\ IP!FetchesImage /\ []IP!CopiesOfImage
          /\ DP!ImplementsFlatMemory /\ []DP!TranslationCoherent /\ []DP!LinesCurrent
<1>1. IP!Spec => IP!FetchesImage /\ []IP!CopiesOfImage
  BY ISizes, ZeroByte, IProgram, IP!ServesTheImage, IP!OnlyCopies
<1>2. DP!Spec => DP!ImplementsFlatMemory /\ []DP!TranslationCoherent /\ []DP!LinesCurrent
  BY DSizes, ZeroByte, DProgram, DP!ActsAsFlatMemory, DP!TranslationsAgree,
     DP!CachedBlocksCurrent
<1> QED BY DrivesSides, <1>1, <1>2

\* While programs run, both sides give up the page used least recently.
THEOREM ReplacesLeastRecentlyUsed ==
  Spec => IP!FetchesPageLRU /\ DP!ImplementsLRUPaging
<1>1. IP!Spec => IP!FetchesPageLRU
  BY ISizes, ZeroByte, IProgram, IP!ReplacesLeastRecentlyUsed
<1>2. DP!Spec => DP!ImplementsLRUPaging
  BY DSizes, ZeroByte, DProgram, DP!ReplacesLeastRecentlyUsed
<1> QED BY DrivesSides, <1>1, <1>2
-----------------------------------------------------------------------------
(* The code a program executes.                                            *)

CodeSeen ==
  \A v \in 0 .. IDiskPages - 1, o \in 0 .. IPageWords - 1 :
    IP!WordSeen(iside, v, o) = IImage[v][o]

\* While the side shows the loaded code, a fetch gives the word at PC and keeps it so.
LEMMA FetchGives ==
  ASSUME IP!Inv, CodeSeen, PC \in Address, IP!Fetch(InPage(4 * PC, IPageWords))
  PROVE  IP!Inv' /\ CodeSeen' /\ instr' = IImage[PC \div IPageWords][PC % IPageWords]
<1> DEFINE a == InPage(4 * PC, IPageWords)
<1>1. a \in Fetches /\ a.page = PC \div IPageWords /\ a.off \div 4 = PC % IPageWords
  BY FetchPlace
<1>2. a.page \in 0 .. IDiskPages - 1 /\ PC % IPageWords \in 0 .. IPageWords - 1
  <2>1. IPageWords \in Nat \ {0} /\ PC \in Nat
    BY GeometryAssumption DEF Address
  <2>2. a.page \in 0 .. IDiskPages - 1
    BY <1>1 DEF Fetches
  <2> QED BY <2>1, <2>2
<1> HIDE DEF a
<1>3. /\ IP!Inv' /\ IP!SameWords(iside, iside')
      /\ instr' = IP!WordSeen(iside, a.page, a.off \div 4)
  <2>1. IP!Fetch(a)
    BY DEF a
  <2> QED BY <1>1, <2>1, ISizes, ZeroByte, IProgram, IP!FetchStep
<1>4. CodeSeen'
  BY <1>3 DEF CodeSeen, IP!SameWords, IP!Page, IP!PageWord
<1>5. instr' = IImage[a.page][PC % IPageWords]
  BY <1>1, <1>2, <1>3 DEF CodeSeen
<1> QED BY <1>1, <1>3, <1>4, <1>5

\* So does every step.
LEMMA FetchesCode ==
  ASSUME IP!Inv, CodeSeen, [Next]_vars
  PROVE  CodeSeen' /\ [instr' = IImage[PC \div IPageWords][PC % IPageWords]]_vars
<1>1. CASE UNCHANGED vars
  BY <1>1 DEF vars, CodeSeen
<1>2. CASE PC \in Address /\ IP!Fetch(InPage(4 * PC, IPageWords))
  BY <1>2, FetchGives
<1> QED BY <1>1, <1>2, NextFetches

\* Every turn executes the word the loader put at PC, for any program: faults,
\* evictions and fills do not change what it is.
THEOREM RunsTheLoadedCode == Spec => ExecutesImage
<1>1. Init => CodeSeen
  <2>1. SUFFICES ASSUME Init PROVE CodeSeen
    OBVIOUS
  <2>2. iside = IP!InitSide(IImage)
    BY <2>1, SidesStart DEF IP!Init
  <2>3. IImage \in [IP!Page -> [IP!PageWord -> IP!Word]]
    BY IProgram DEF IP!FetchAssumption
  <2>4. \A v \in IP!Page, o \in IP!PageWord : IP!WordSeen(iside, v, o) = IImage[v][o]
    BY <2>2, <2>3, ISizes, ZeroByte, IProgram, IP!InitOK
  <2> QED BY <2>4 DEF CodeSeen, IP!Page, IP!PageWord
<1>2. Spec => []IP!Inv
  <2>1. IP!Spec => []IP!Inv
    BY ISizes, ZeroByte, IProgram, IP!Invariance
  <2> QED BY <2>1, DrivesSides
<1>3. IP!Inv /\ CodeSeen /\ [Next]_vars
        => CodeSeen' /\ [instr' = IImage[PC \div IPageWords][PC % IPageWords]]_vars
  BY FetchesCode
<1> QED BY <1>1, <1>2, <1>3, PTL DEF Spec, ExecutesImage
-----------------------------------------------------------------------------
(* Words as lanes of bytes, and their values.                              *)

\* The value of a word, one byte after the other.
LEMMA ValueSteps ==
  ASSUME NEW w \in Bytes
  PROVE  LET S  == ByteSize
             q1 == S * w[0] + w[1]
             q2 == S * q1 + w[2]
         IN  /\ \A k \in 0 .. 3 : w[k] \in 0 .. S - 1
             /\ q1 \in 0 .. (S * S) - 1 /\ q2 \in Nat
             /\ Value(w) = S * q2 + w[3]
             /\ Value(w) = (S * S) * q1 + (S * w[2] + w[3])
             /\ Value(w) \in Word
<1> DEFINE S  == ByteSize
           H  == S * S
           q1 == S * w[0] + w[1]
           q2 == S * q1 + w[2]
           r  == S * w[2] + w[3]
<1>1. S \in Nat \ {0} /\ H \in Nat \ {0}
  BY Sizes
<1>2. \A k \in 0 .. 3 : w[k] \in 0 .. S - 1
  BY DEF Bytes
<1>3. Value(w) = w[0] * (S * H) + w[1] * H + w[2] * S + w[3]
  <2>1. ByteSize ^ 3 = S * H /\ ByteSize ^ 2 = H
    BY Sizes DEF HalfSize
  <2> HIDE DEF S, H
  <2> QED BY <2>1 DEF Value, S
<1>4. WordSize = H * H
  BY Sizes
<1>5. w[0] \in 0 .. S - 1 /\ w[1] \in 0 .. S - 1 /\ w[2] \in 0 .. S - 1 /\ w[3] \in 0 .. S - 1
  BY <1>2
<1> DEFINE a == w[0]
           b == w[1]
           c == w[2]
           d == w[3]
<1> HIDE DEF S, a, b, c, d
<1>6. ASSUME NEW x \in 0 .. S - 1, NEW y \in 0 .. S - 1
      PROVE  S * x + y \in 0 .. H - 1
  <2>1. S * x <= S * (S - 1)
    BY <1>1, IP!MulMonotone, ISizes, ZeroByte, IProgram
  <2> QED BY <1>1, <2>1
<1>7. q1 \in 0 .. H - 1 /\ r \in 0 .. H - 1
  BY <1>5, <1>6 DEF a, b, c, d
<1>8. q2 \in Nat
  BY <1>1, <1>5, <1>7
<1>9. Value(w) = S * q2 + d
  BY <1>1, <1>3, <1>5 DEF a, b, c, d
<1>10. Value(w) = H * q1 + r
  BY <1>1, <1>3, <1>5 DEF a, b, c, d
<1> HIDE DEF q1, r, H, q2
<1>11. H * q1 + r \in 0 .. (H * H) - 1
  <2>1. H * q1 <= H * (H - 1)
    BY <1>1, <1>7, IP!MulMonotone, ISizes, ZeroByte, IProgram
  <2>2. H * (H - 1) = H * H - H /\ H * H \in Nat
    BY <1>1
  <2>3. H * q1 \in Nat
    BY <1>1, <1>7
  <2> QED BY <1>1, <1>7, <2>1, <2>2, <2>3
<1>12. Value(w) \in Word
  BY <1>4, <1>10, <1>11 DEF Word
<1> QED BY <1>2, <1>7, <1>8, <1>9, <1>10, <1>12 DEF q1, q2, r, H, S, d

\* Unique, for a number that is known to be d * q + r.
LEMMA Divides ==
  ASSUME NEW d \in Nat \ {0}, NEW q \in Int, NEW r \in 0 .. d - 1, NEW x, x = d * q + r
  PROVE  x \div d = q /\ x % d = r
BY Unique

\* Its bytes and half-words are its lanes.
LEMMA LanesAre ==
  ASSUME NEW w \in Bytes
  PROVE  /\ \A k \in 0 .. 3 : ByteAt(Value(w), k) = w[k]
         /\ HalfAt(Value(w), 0) = ByteSize * w[0] + w[1]
         /\ HalfAt(Value(w), 2) = ByteSize * w[2] + w[3]
<1> DEFINE S  == ByteSize
           H  == S * S
           v  == Value(w)
           q1 == S * w[0] + w[1]
           q2 == S * q1 + w[2]
           r  == S * w[2] + w[3]
<1>0. S \in Nat \ {0} /\ H \in Nat \ {0}
  BY Sizes
<1>1. S ^ 0 = 1 /\ S ^ 1 = S /\ S ^ 2 = H /\ S ^ 3 = S * H /\ HalfSize = H
  BY Sizes DEF HalfSize
<1>2. /\ \A k \in 0 .. 3 : w[k] \in 0 .. S - 1
      /\ q1 \in 0 .. H - 1 /\ q2 \in Nat /\ v \in Nat
  BY ValueSteps, Sizes DEF Word
<1>20. v = S * q2 + w[3]
  BY ValueSteps
<1>21. v = H * q1 + r
  BY ValueSteps
<1>22. q2 = S * q1 + w[2] /\ q1 = S * w[0] + w[1]
  OBVIOUS
<1>3. r \in 0 .. H - 1
  <2> DEFINE x == [k \in 0 .. 3 |-> IF k \in {0, 2} THEN w[2] ELSE w[3]]
  <2>1. x \in Bytes /\ x[0] = w[2] /\ x[1] = w[3]
    BY DEF Bytes
  <2> HIDE DEF x
  <2> QED BY <2>1, ValueSteps
<1>4. w[0] \in 0 .. S - 1 /\ w[1] \in 0 .. S - 1 /\ w[2] \in 0 .. S - 1 /\ w[3] \in 0 .. S - 1
  BY <1>2
<1>5. v \div S = q2 /\ v % S = w[3]
  <2> HIDE DEF q2, S, v, H, q1
  <2> DEFINE y == w[3]
  <2>1. q2 \in Int /\ y \in 0 .. S - 1 /\ v = S * q2 + y
    BY <1>2, <1>4, <1>20
  <2> HIDE DEF y
  <2>2. v \div S = q2 /\ v % S = y
    BY <1>0, <2>1, Divides, Zenon
  <2> QED BY <2>2 DEF y
<1>6. q2 \div S = q1 /\ q2 % S = w[2]
  <2> HIDE DEF q1, S, H, q2
  <2> DEFINE y == w[2]
  <2>1. q1 \in Int /\ y \in 0 .. S - 1 /\ q2 = S * q1 + y
    BY <1>2, <1>4, <1>22
  <2> HIDE DEF y
  <2>2. q2 \div S = q1 /\ q2 % S = y
    BY <1>0, <2>1, Divides, Zenon
  <2> QED BY <2>2 DEF y
<1>7. q1 \div S = w[0] /\ q1 % S = w[1]
  <2> HIDE DEF S, H, q1, q2
  <2> DEFINE x == w[0]
             y == w[1]
  <2>1. x \in Int /\ y \in 0 .. S - 1 /\ q1 = S * x + y
    BY <1>4, <1>22
  <2> HIDE DEF x, y
  <2>2. q1 \div S = x /\ q1 % S = y
    BY <1>0, <2>1, Divides, Zenon
  <2> QED BY <2>2 DEF x, y
<1>8. v \div H = q1 /\ v % H = r
  <2> HIDE DEF H, q1, v, r, S, q2
  <2>1. q1 \in Int
    BY <1>2
  <2> QED BY <1>0, <1>3, <1>21, <2>1, Divides, Zenon
<1>9. v \div (S * H) = w[0]
  <2>1. v \div (S * H) = (v \div S) \div H
    <3> HIDE DEF S, H, v
    <3> QED BY <1>0, <1>2, TwoSteps
  <2>2. q2 \div (S * S) = (q2 \div S) \div S
    <3> HIDE DEF S, q2
    <3> QED BY <1>0, <1>2, TwoSteps
  <2> HIDE DEF q1, q2, v
  <2> QED BY <1>5, <1>6, <1>7, <2>1, <2>2
<1>10. w[0] % S = w[0] /\ q1 % H = q1
  <2> DEFINE x == w[0]
             z == 0
  <2>1. x \in 0 .. S - 1 /\ q1 \in 0 .. H - 1 /\ S \in Nat \ {0} /\ H \in Nat \ {0} /\ z \in Int
        /\ x = S * z + x /\ q1 = H * z + q1
    BY <1>0, <1>2, <1>4
  <2> HIDE DEF x, q1, S, H, z
  <2>3. x % S = x /\ q1 % H = q1
    BY <2>1, Divides
  <2> QED BY <2>3 DEF x
<1>11. /\ ByteAt(v, 0) = (v \div (S * H)) % S /\ ByteAt(v, 1) = (v \div H) % S
       /\ ByteAt(v, 2) = (v \div S) % S /\ ByteAt(v, 3) = v % S
  <2>1. 3 - 0 = 3 /\ 3 - 1 = 2 /\ 3 - 2 = 1 /\ 3 - 3 = 0 /\ v \div 1 = v
    BY <1>2
  <2> HIDE DEF H, v
  <2> QED BY <1>1, <2>1 DEF ByteAt
<1>12. HalfAt(v, 0) = (v \div H) % H /\ HalfAt(v, 2) = v % H
  <2>1. 2 - 0 = 2 /\ 2 - 2 = 0 /\ v \div 1 = v
    BY <1>2
  <2> HIDE DEF H, v
  <2> QED BY <1>1, <2>1 DEF HalfAt
<1> HIDE DEF H, q1, q2, v, r, S
<1>13. ByteAt(v, 0) = w[0] /\ ByteAt(v, 1) = w[1] /\ ByteAt(v, 2) = w[2] /\ ByteAt(v, 3) = w[3]
  BY <1>5, <1>6, <1>7, <1>8, <1>9, <1>10, <1>11
<1>14. HalfAt(v, 0) = q1 /\ HalfAt(v, 2) = r
  BY <1>8, <1>10, <1>12
<1> QED BY <1>13, <1>14 DEF v, q1, r, S

\* A word split into bytes keeps its value.
LEMMA SplitIs ==
  ASSUME NEW v \in Word
  PROVE  Split(v) \in Bytes /\ Value(Split(v)) = v
<1> DEFINE S  == ByteSize
           H  == S * S
           q2 == v \div S
           q1 == v \div H
           q0 == v \div (S * H)
<1>0. S \in Nat \ {0} /\ H \in Nat \ {0} /\ v \in Nat
  BY Sizes DEF Word
<1>1. /\ v < H * H
      /\ S ^ 0 = 1 /\ S ^ 1 = S /\ S ^ 2 = H /\ S ^ 3 = S * H
  BY Sizes DEF HalfSize, Word
<1>2. /\ Split(v)[0] = q0 % S /\ Split(v)[1] = q1 % S
      /\ Split(v)[2] = q2 % S /\ Split(v)[3] = v % S
  <2>1. 3 - 0 = 3 /\ 3 - 1 = 2 /\ 3 - 2 = 1 /\ 3 - 3 = 0 /\ v \div 1 = v
    BY <1>0
  <2> HIDE DEF H
  <2> QED BY <1>1, <2>1 DEF Split, ByteAt
<1>3. q1 = q2 \div S
  <2> HIDE DEF S
  <2> QED BY <1>0, TwoSteps
<1>4. q0 = q1 \div S
  <2>1. v \div (H * S) = (v \div H) \div S
    <3> HIDE DEF S, H
    <3> QED BY <1>0, TwoSteps, Zenon
  <2>2. H * S = S * H
    BY <1>0
  <2> HIDE DEF H, S
  <2> QED BY <2>1, <2>2
<1>5. q2 \in Nat /\ v % S \in 0 .. S - 1 /\ v = S * q2 + (v % S)
  <2> HIDE DEF S, H
  <2>1. v \in Int /\ v >= 0
    BY <1>0
  <2>2. /\ v \div S \in Int /\ v % S \in 0 .. S - 1 /\ v = S * (v \div S) + (v % S)
        /\ v >= 0 => v \div S >= 0
    BY <1>0, <2>1, DivMod, Zenon
  <2> QED BY <2>1, <2>2
<1>6. q1 \in Nat /\ q2 % S \in 0 .. S - 1 /\ q2 = S * q1 + (q2 % S)
  <2> HIDE DEF S, q2, q1, H
  <2>1. q2 \in Int /\ q2 >= 0
    BY <1>5
  <2>2. /\ q2 \div S \in Int /\ q2 % S \in 0 .. S - 1 /\ q2 = S * (q2 \div S) + (q2 % S)
        /\ q2 >= 0 => q2 \div S >= 0
    BY <1>0, <2>1, DivMod, Zenon
  <2> QED BY <1>3, <2>1, <2>2
<1>7. q0 \in Nat /\ q1 % S \in 0 .. S - 1 /\ q1 = S * q0 + (q1 % S)
  <2> HIDE DEF S, q1, q0, H, q2
  <2>1. q1 \in Int /\ q1 >= 0
    BY <1>6
  <2>2. /\ q1 \div S \in Int /\ q1 % S \in 0 .. S - 1 /\ q1 = S * (q1 \div S) + (q1 % S)
        /\ q1 >= 0 => q1 \div S >= 0
    BY <1>0, <2>1, DivMod, Zenon
  <2> QED BY <1>4, <2>1, <2>2
<1> DEFINE a == q0 % S
           b == q1 % S
           c == q2 % S
           d == v % S
<1>8. q0 < S
  <2> HIDE DEF q0, q1, q2, b, c, d
  <2>1. v = (S * H) * q0 + (H * b + (S * c + d))
    <3> HIDE DEF S
    <3>1. q1 = S * q0 + b /\ q2 = S * q1 + c /\ v = S * q2 + d
          /\ b \in Int /\ c \in Int /\ d \in Int
      BY <1>5, <1>6, <1>7 DEF b, c, d
    <3> QED BY <1>0, <1>7, <3>1
  <2>2. H * b \in Nat /\ S * c \in Nat /\ d \in Nat /\ (S * H) * q0 \in Nat /\ S * H \in Nat
    <3> HIDE DEF S, H
    <3> QED BY <1>0, <1>5, <1>6, <1>7 DEF b, c, d
  <2>3. SUFFICES ASSUME q0 >= S PROVE FALSE
    BY <1>0, <1>7
  <2>4. (S * H) * S <= (S * H) * q0
    <3> DEFINE k == S * H
    <3>1. k \in Nat /\ S \in Nat /\ q0 \in Nat
      BY <1>0, <1>7, <2>2
    <3> HIDE DEF k, S, H
    <3>2. q0 = S => k * S <= k * q0
      BY <3>1
    <3>3. q0 > S => k * S <= k * q0
      <4>1. q0 > S => k * S + k <= k * q0
        BY <3>1, IP!MulMonotone, ISizes, ZeroByte, IProgram
      <4> QED BY <3>1, <4>1
    <3>4. k * S <= k * q0
      BY <2>3, <3>1, <3>2, <3>3
    <3> QED BY <3>4 DEF k
  <2>5. (S * H) * S = H * H
    BY <1>0
  <2> HIDE DEF S, H
  <2> QED BY <1>0, <1>1, <2>1, <2>2, <2>4, <2>5
<1>9. a = q0
  <2> HIDE DEF S, q0
  <2>1. q0 = S * 0 + q0 /\ q0 \in 0 .. S - 1
    BY <1>0, <1>7, <1>8
  <2> QED BY <1>0, <2>1, Divides
<1>10. a \in 0 .. S - 1 /\ b \in 0 .. S - 1 /\ c \in 0 .. S - 1 /\ d \in 0 .. S - 1
  BY <1>0, <1>5, <1>6, <1>7, <1>8, <1>9
<1>11. Split(v) \in Bytes
  <2> HIDE DEF S, a, b, c, d
  <2>1. \A k \in 0 .. 3 : Split(v)[k] \in 0 .. S - 1
    BY <1>2, <1>10 DEF a, b, c, d
  <2> QED BY <2>1 DEF Split, Bytes, S
<1>12. Value(Split(v)) = S * (S * (S * a + b) + c) + d
  <2> DEFINE w == Split(v)
  <2>1. w[0] = a /\ w[1] = b /\ w[2] = c /\ w[3] = d
    BY <1>2
  <2> HIDE DEF w, a, b, c, d
  <2>2. Value(w) = S * (S * (S * w[0] + w[1]) + w[2]) + w[3]
    BY <1>11, ValueSteps DEF w
  <2> QED BY <2>1, <2>2 DEF w
<1> HIDE DEF S, a, q0, q1, q2, b, c, d
<1>13. q1 = S * a + b /\ q2 = S * q1 + c /\ v = S * q2 + d
  BY <1>5, <1>6, <1>7, <1>9 DEF b, c, d
<1> QED BY <1>11, <1>12, <1>13

\* A word that is not changed by taking it modulo the word size.
LEMMA WordMod ==
  ASSUME NEW w \in Word PROVE w % WordSize = w
<1> DEFINE W == WordSize
           z == 0
<1>1. W \in Nat \ {0} /\ w \in 0 .. W - 1 /\ z \in Int /\ w = W * z + w
  BY Sizes DEF Word
<1> HIDE DEF W, z
<1>2. w % W = w
  BY <1>1, Divides
<1> QED BY <1>2 DEF W

\* A small number moved to its place in the word.
LEMMA Moved ==
  ASSUME NEW n \in 0 .. Bits, NEW m \in Nat \ {0}, (2 ^ n) * m <= WordSize, NEW u \in 0 .. m - 1
  PROVE  /\ ShiftLeft(u, n) = u * 2 ^ n /\ ShiftLeft(u, n) \in Word
         /\ ShiftLeft(u, n) \div 2 ^ n = u
<1> DEFINE P == 2 ^ n
           W == WordSize
           x == u * P
           z == 0
<1>1. P \in Nat \ {0} /\ W \in Nat \ {0} /\ P * m <= W
  BY PowPositive, Sizes
<1> HIDE DEF P, W
<1>2. x \in Nat
  BY <1>1
<1>3. x + P <= P * m
  <2>1. P * u + P <= P * m
    BY <1>1, IP!MulMonotone, ISizes, ZeroByte, IProgram
  <2> QED BY <1>1, <2>1
<1>4. P * m \in Nat
  BY <1>1
<1> DEFINE y == P * m
<1> HIDE DEF y
<1>5. x < W
  <2>1. x + P <= y /\ y \in Nat /\ y <= W
    BY <1>1, <1>3, <1>4 DEF y
  <2> HIDE DEF x
  <2> QED BY <1>1, <1>2, <2>1
<1>6. x \in Word
  <2> HIDE DEF x
  <2> QED BY <1>1, <1>2, <1>5 DEF Word, W
<1>7. x \div P = u
  <2>1. x = P * u + z /\ z \in 0 .. P - 1 /\ u \in Int
    BY <1>1
  <2> HIDE DEF x, z
  <2> QED BY <1>1, <2>1, Divides, Zenon
<1>8. ShiftLeft(u, n) = x
  BY <1>6, WordMod DEF ShiftLeft, P
<1> QED BY <1>6, <1>7, <1>8 DEF P

\* Powers of the byte size.
LEMMA BytePowers ==
  LET S == ByteSize
  IN  /\ S \in Nat \ {0} /\ S * S \in Nat \ {0} /\ S * (S * S) \in Nat \ {0}
      /\ S ^ 0 = 1 /\ S ^ 1 = S /\ S ^ 2 = S * S /\ S ^ 3 = S * (S * S)
      /\ HalfSize = S * S /\ WordSize = S * (S * (S * S)) /\ WordSize = (S * S) * (S * S)
BY Sizes DEF HalfSize

\* What bit_save makes of the operand of SB: one byte, in the lane it addresses.
LEMMA SavedByte ==
  ASSUME NEW off \in Nat, NEW k \in 0 .. 3, off % 4 = k, NEW v \in Word
  PROVE  LET w == Split(BitSave("SB", off, v))
         IN  w \in Bytes /\ w[k] = v % ByteSize
<1> DEFINE S == ByteSize
           n == 3 * ByteBits - ByteBits * k
           u == v % S
           x == ShiftLeft(u, n)
<1>1. n \in 0 .. Bits /\ 2 ^ n = S ^ (3 - k) /\ 2 ^ n \in Nat \ {0}
      /\ n + ByteBits \in 0 .. Bits /\ 2 ^ (n + ByteBits) = 2 ^ n * S
  BY BytePlace
<1>2. S \in Nat \ {0} /\ v \in Nat
  BY Sizes DEF Word
<1>3. u \in 0 .. S - 1
  <2> HIDE DEF S
  <2> QED BY <1>2
<1>4. (2 ^ n) * S <= WordSize
  <2>1. Bits \in 0 .. Bits
    BY Widths
  <2>2. 2 ^ (n + ByteBits) <= 2 ^ Bits
    <3> DEFINE j == n + ByteBits
    <3>1. j \in 0 .. Bits /\ j <= Bits
      BY <1>1, Widths
    <3> HIDE DEF j
    <3>2. 2 ^ j <= 2 ^ Bits
      BY <2>1, <3>1, PowOrder
    <3> QED BY <3>2 DEF j
  <2> QED BY <1>1, <2>2, Sizes
<1>5. And(v, Mask(ByteBits)) = u
  BY MaskLow, Widths, Sizes
<1>6. BitSave("SB", off, v) = x
  BY <1>5 DEF BitSave
<1>7. x \in Word /\ x \div 2 ^ n = u
  <2> HIDE DEF n, S, u
  <2> QED BY <1>1, <1>2, <1>3, <1>4, Moved
<1>8. Split(x) \in Bytes
  BY <1>7, SplitIs
<1>9. Split(x)[k] = u
  <2>1. Split(x)[k] = (x \div S ^ (3 - k)) % S
    BY DEF Split, ByteAt
  <2>2. Split(x)[k] = u % S
    BY <1>1, <1>7, <2>1
  <2>3. u % S = u
    <3> HIDE DEF S, u
    <3> QED BY <1>2, <1>3
  <2> QED BY <2>2, <2>3
<1> QED BY <1>6, <1>8, <1>9

\* And of the operand of SH: two bytes.
LEMMA SavedHalf ==
  ASSUME NEW off \in Nat, NEW k \in {0, 2}, off % 4 = k, NEW v \in Word
  PROVE  LET w == Split(BitSave("SH", off, v))
         IN  /\ w \in Bytes
             /\ ByteSize * w[k] + w[k + 1] = v % HalfSize
<1> DEFINE S == ByteSize
           H == S * S
           n == 2 * ByteBits - ByteBits * k
           u == v % H
           x == ShiftLeft(u, n)
           P == 2 ^ n
<1>0. S \in Nat \ {0} /\ H \in Nat \ {0} /\ HalfSize = H /\ v \in Nat
  BY BytePowers, Sizes DEF Word
<1>1. n \in 0 .. Bits /\ P = S ^ (2 - k) /\ P \in Nat \ {0}
  <2> DEFINE j == k + 1
             m == 3 * ByteBits - ByteBits * j
  <2>1. j \in 0 .. 3 /\ m = n /\ 3 - j = 2 - k
    BY Widths
  <2>2. m \in 0 .. Bits /\ 2 ^ m = S ^ (3 - j) /\ 2 ^ m \in Nat \ {0}
    <3> HIDE DEF j
    <3> QED BY <2>1, BytePlace
  <2> HIDE DEF j, m, n
  <2> QED BY <2>1, <2>2
<1>2. u \in 0 .. H - 1
  <2> HIDE DEF H
  <2> QED BY <1>0
<1>3. P * H <= WordSize /\ S ^ (3 - k) = P * S
  <2>1. CASE k = 0
    <3>1. 3 - k = 3 /\ 2 - k = 2
      BY <2>1
    <3> HIDE DEF P
    <3>2. P = H /\ S ^ (3 - k) = S * H
      BY <1>1, <3>1, BytePowers
    <3>3. WordSize = H * H
      BY BytePowers
    <3> HIDE DEF S
    <3> QED BY <1>0, <3>2, <3>3
  <2>2. CASE k = 2
    <3>1. 3 - k = 1 /\ 2 - k = 0
      BY <2>2
    <3> HIDE DEF P
    <3>2. P = 1 /\ S ^ (3 - k) = S
      BY <1>1, <3>1, BytePowers
    <3>3. WordSize = H * H
      BY BytePowers
    <3> HIDE DEF S, H
    <3> QED BY <1>0, <3>2, <3>3
  <2> QED BY <2>1, <2>2
<1>4. And(v, Mask(2 * ByteBits)) = u
  <2>1. 2 * ByteBits \in 0 .. Bits
    BY Widths
  <2> QED BY <1>0, <2>1, MaskLow, Sizes
<1>5. BitSave("SH", off, v) = x
  BY <1>4 DEF BitSave
<1>6. x \in Word /\ x \div P = u
  <2> HIDE DEF n, H, u
  <2> QED BY <1>0, <1>1, <1>2, <1>3, Moved
<1>7. Split(x) \in Bytes
  BY <1>6, SplitIs
<1> DEFINE w == Split(x)
           a == u \div S
           b == u % S
<1>8. w[k] = (x \div S ^ (3 - k)) % S /\ w[k + 1] = (x \div S ^ (3 - (k + 1))) % S
  BY DEF Split, ByteAt
<1>9. 3 - (k + 1) = 2 - k
  OBVIOUS
<1>10. w[k + 1] = b
  BY <1>1, <1>6, <1>8, <1>9
<1>11. x \div (P * S) = (x \div P) \div S
  <2>1. x \in Nat
    BY <1>6, Sizes DEF Word
  <2> HIDE DEF x, P, S
  <2> QED BY <1>0, <1>1, <2>1, TwoSteps, Zenon
<1>12. w[k] = a % S
  BY <1>3, <1>6, <1>8, <1>11
<1>13. a \in 0 .. S - 1 /\ b \in 0 .. S - 1 /\ u = S * a + b
  <2>1. u \in Int /\ u >= 0 /\ u < S * S
    <3> HIDE DEF u
    <3>1. u \in 0 .. H - 1
      BY <1>2
    <3> QED BY <1>0, <3>1
  <2> HIDE DEF H, S, u
  <2>2. /\ u \div S \in Int /\ u % S \in 0 .. S - 1 /\ u = S * (u \div S) + (u % S)
        /\ u >= 0 => u \div S >= 0
    BY <1>0, <2>1, DivMod, Zenon
  <2> HIDE DEF a, b
  <2>3. a \in Nat /\ b \in 0 .. S - 1 /\ u = S * a + b
    BY <2>1, <2>2 DEF a, b
  <2>4. a >= S => S * S <= S * a
    <3>1. a > S => S * S + S <= S * a
      BY <1>0, <2>3, IP!MulMonotone, ISizes, ZeroByte, IProgram
    <3>2. a = S => S * S <= S * a
      BY <1>0
    <3> QED BY <1>0, <2>3, <3>1, <3>2
  <2>5. ~(a >= S)
    BY <1>0, <2>1, <2>3, <2>4
  <2> QED BY <1>0, <2>3, <2>5
<1>14. a % S = a
  <2> HIDE DEF a, S
  <2> QED BY <1>0, <1>13
<1> HIDE DEF w, a, b, x, S
<1>15. S * w[k] + w[k + 1] = u
  BY <1>10, <1>12, <1>13, <1>14
<1> QED BY <1>0, <1>5, <1>7, <1>15 DEF w, S

\* The value of a word as a sum.
LEMMA ValueSum ==
  ASSUME NEW w \in Bytes
  PROVE  LET P(k) == ByteSize ^ (3 - k)
         IN  Value(w) = w[0] * P(0) + w[1] * P(1) + w[2] * P(2) + w[3] * P(3)
<1>1. 3 - 0 = 3 /\ 3 - 1 = 2 /\ 3 - 2 = 1 /\ 3 - 3 = 0
  OBVIOUS
<1>2. w[3] \in Int /\ ByteSize ^ 0 = 1 /\ ByteSize ^ 1 = ByteSize
  BY BytePowers DEF Bytes
<1> QED BY <1>1, <1>2 DEF Value

\* Two neighbouring bytes of a sum replaced.
LEMMA Neighbours ==
  ASSUME NEW s \in Nat, NEW p \in Nat, NEW q \in Nat, q = s * p,
         NEW x \in Nat, NEW z \in Nat, NEW y \in Nat, NEW t \in Nat
  PROVE  x * q + z * p = (y * q + t * p) + ((s * x + z) - (s * y + t)) * p
<1>1. x * q = (s * x) * p /\ y * q = (s * y) * p
  OBVIOUS
<1> DEFINE a == s * x
           b == s * y
<1>2. a \in Nat /\ b \in Nat
  OBVIOUS
<1> HIDE DEF a, b
<1>3. a * p + z * p = (b * p + t * p) + ((a + z) - (b + t)) * p
  BY <1>2
<1>4. x * q = a * p /\ y * q = b * p
  BY <1>1 DEF a, b
<1>5. x * q + z * p = (y * q + t * p) + ((a + z) - (b + t)) * p
  BY <1>3, <1>4
<1> QED BY <1>5 DEF a, b

\* What a store leaves in the word that the data side holds is what the
\* instruction set says of its value.
LEMMA StoredValue ==
  ASSUME NEW op \in Stores, NEW old \in Bytes, NEW v \in Word,
         NEW off \in Nat, off % (Further(op) + 1) = 0,
         NEW a, a.op = op, a.off = off, a.word = Split(BitSave(op, off, v))
  PROVE  /\ a.word \in Bytes /\ DP!Combine(old, a) \in Bytes
         /\ Value(DP!Combine(old, a)) = Merged(op, Value(old), off % 4, v)
<1> DEFINE k == off % 4
           new == DP!Combine(old, a)
           w == a.word
           S == ByteSize
           P0 == S ^ 3
           P1 == S ^ 2
           P2 == S ^ 1
           P3 == S ^ 0
<1>1. k \in 0 .. 3 /\ (op = "SH" => k \in {0, 2}) /\ (op = "SW" => k = 0)
  BY DEF Further
<1>2. S \in Nat \ {0} /\ P0 \in Nat /\ P1 \in Nat /\ P2 \in Nat /\ P3 \in Nat
      /\ P0 = S * P1 /\ P2 = S * P3
  BY BytePowers
<1>3. \A y \in Bytes :
        /\ Value(y) = y[0] * P0 + y[1] * P1 + y[2] * P2 + y[3] * P3
        /\ y[0] \in Nat /\ y[1] \in Nat /\ y[2] \in Nat /\ y[3] \in Nat
  <2>1. 3 - 0 = 3 /\ 3 - 1 = 2 /\ 3 - 2 = 1 /\ 3 - 3 = 0
    OBVIOUS
  <2> TAKE y \in Bytes
  <2>2. Value(y) = y[0] * S ^ (3 - 0) + y[1] * S ^ (3 - 1) + y[2] * S ^ (3 - 2) + y[3] * S ^ (3 - 3)
    BY ValueSum
  <2>3. y[0] \in Nat /\ y[1] \in Nat /\ y[2] \in Nat /\ y[3] \in Nat
    BY Sizes DEF Bytes
  <2> QED BY <2>1, <2>2, <2>3
<1>4. \A j \in 0 .. 3 : ByteAt(Value(old), j) = old[j]
  BY LanesAre
<1>5. HalfAt(Value(old), 0) = S * old[0] + old[1] /\ HalfAt(Value(old), 2) = S * old[2] + old[3]
  BY LanesAre
<1>6. CASE op = "SB"
  <2>1. w \in Bytes /\ w[k] = v % S
    BY <1>1, <1>6, SavedByte
  <2>2. new = [j \in 0 .. 3 |-> IF j = k THEN w[j] ELSE old[j]]
    BY <1>6 DEF DP!Combine, DP!Lanes, DP!Lane
  <2>3. new \in Bytes
    BY <2>1, <2>2 DEF Bytes
  <2>4. Merged(op, Value(old), k, v) = Value(old) + (w[k] - old[k]) * S ^ (3 - k)
    BY <1>1, <1>4, <1>6, <2>1 DEF Merged
  <2>5. Value(new) = Value(old) + (w[k] - old[k]) * S ^ (3 - k)
    <3> DEFINE n0 == new[0]
               n1 == new[1]
               n2 == new[2]
               n3 == new[3]
               o0 == old[0]
               o1 == old[1]
               o2 == old[2]
               o3 == old[3]
               x == w[k]
               y == old[k]
               p == S ^ (3 - k)
    <3>1. Value(new) = n0 * P0 + n1 * P1 + n2 * P2 + n3 * P3
      BY <1>3, <2>3
    <3>2. Value(old) = o0 * P0 + o1 * P1 + o2 * P2 + o3 * P3
      BY <1>3
    <3>3. o0 \in Nat /\ o1 \in Nat /\ o2 \in Nat /\ o3 \in Nat
      BY <1>3
    <3>4. x \in Nat
      BY <1>1, <2>1, Sizes DEF Bytes
    <3>5. \/ p = P0 /\ n0 = x /\ y = o0 /\ n1 = o1 /\ n2 = o2 /\ n3 = o3
          \/ p = P1 /\ n1 = x /\ y = o1 /\ n0 = o0 /\ n2 = o2 /\ n3 = o3
          \/ p = P2 /\ n2 = x /\ y = o2 /\ n0 = o0 /\ n1 = o1 /\ n3 = o3
          \/ p = P3 /\ n3 = x /\ y = o3 /\ n0 = o0 /\ n1 = o1 /\ n2 = o2
      <4>1. /\ k = 0 => 3 - k = 3
            /\ k = 1 => 3 - k = 2
            /\ k = 2 => 3 - k = 1
            /\ k = 3 => 3 - k = 0
        OBVIOUS
      <4> HIDE DEF new, k
      <4> QED BY <1>1, <2>2, <4>1
    <3> HIDE DEF n0, n1, n2, n3, o0, o1, o2, o3, x, y, p, P0, P1, P2, P3, S, new, w, k
    <3>6. n0 * P0 + n1 * P1 + n2 * P2 + n3 * P3
            = (o0 * P0 + o1 * P1 + o2 * P2 + o3 * P3) + (x - y) * p
      BY <1>2, <3>3, <3>4, <3>5
    <3>7. Value(new) = Value(old) + (x - y) * p
      BY <3>1, <3>2, <3>6
    <3> QED BY <3>7 DEF x, y, p
  <2> QED BY <2>1, <2>3, <2>4, <2>5
<1>7. CASE op = "SH"
  <2>1. w \in Bytes /\ S * w[k] + w[k + 1] = v % HalfSize
    BY <1>1, <1>7, SavedHalf
  <2>2. new = [j \in 0 .. 3 |-> IF j \in {k, k + 1} THEN w[j] ELSE old[j]]
    BY <1>7 DEF DP!Combine, DP!Lanes, DP!Lane
  <2>3. new \in Bytes
    BY <2>1, <2>2 DEF Bytes
  <2>4. Merged(op, Value(old), k, v)
          = Value(old) + ((S * w[k] + w[k + 1]) - (S * old[k] + old[k + 1])) * S ^ (2 - k)
    <3>1. HalfAt(Value(old), k) = S * old[k] + old[k + 1]
      <4> HIDE DEF k
      <4>1. CASE k = 0
        BY <1>5, <4>1
      <4>2. CASE k = 2
        BY <1>5, <4>2
      <4> QED BY <1>1, <1>7, <4>1, <4>2
    <3> QED BY <1>7, <2>1, <3>1 DEF Merged
  <2>5. Value(new)
          = Value(old) + ((S * w[k] + w[k + 1]) - (S * old[k] + old[k + 1])) * S ^ (2 - k)
    <3> DEFINE n0 == new[0]
               n1 == new[1]
               n2 == new[2]
               n3 == new[3]
               o0 == old[0]
               o1 == old[1]
               o2 == old[2]
               o3 == old[3]
               x == w[k]
               z == w[k + 1]
               y == old[k]
               t == old[k + 1]
               p == S ^ (2 - k)
    <3>1. Value(new) = n0 * P0 + n1 * P1 + n2 * P2 + n3 * P3
      BY <1>3, <2>3
    <3>2. Value(old) = o0 * P0 + o1 * P1 + o2 * P2 + o3 * P3
      BY <1>3
    <3>3. o0 \in Nat /\ o1 \in Nat /\ o2 \in Nat /\ o3 \in Nat
      BY <1>3
    <3>4. x \in Nat /\ z \in Nat
      <4> HIDE DEF k, w
      <4>1. k \in 0 .. 3 /\ k + 1 \in 0 .. 3
        BY <1>1, <1>7
      <4> QED BY <2>1, <4>1, Sizes DEF Bytes
    <3>5. \/ p = P1 /\ n0 = x /\ n1 = z /\ y = o0 /\ t = o1 /\ n2 = o2 /\ n3 = o3
          \/ p = P3 /\ n2 = x /\ n3 = z /\ y = o2 /\ t = o3 /\ n0 = o0 /\ n1 = o1
      <4>1. /\ k = 0 => 2 - k = 2
            /\ k = 2 => 2 - k = 0
        OBVIOUS
      <4> HIDE DEF new, k
      <4> QED BY <1>1, <1>7, <2>2, <4>1
    <3> HIDE DEF n0, n1, n2, n3, o0, o1, o2, o3, x, y, z, t, p, P0, P1, P2, P3, S, new, w, k
    <3>6. n0 * P0 + n1 * P1 + n2 * P2 + n3 * P3
            = (o0 * P0 + o1 * P1 + o2 * P2 + o3 * P3) + ((S * x + z) - (S * y + t)) * p
      <4>1. CASE p = P1 /\ n0 = x /\ n1 = z /\ y = o0 /\ t = o1 /\ n2 = o2 /\ n3 = o3
        <5>1. x * P0 + z * P1 = (o0 * P0 + o1 * P1) + ((S * x + z) - (S * o0 + o1)) * P1
          BY <1>2, <3>3, <3>4, Neighbours
        <5> DEFINE d == ((S * x + z) - (S * o0 + o1)) * P1
        <5>2. d \in Int
          BY <1>2, <3>3, <3>4
        <5> HIDE DEF d
        <5>3. n0 * P0 + n1 * P1 + n2 * P2 + n3 * P3 = (o0 * P0 + o1 * P1 + o2 * P2 + o3 * P3) + d
          BY <1>2, <3>3, <3>4, <4>1, <5>1, <5>2 DEF d
        <5> QED BY <4>1, <5>3 DEF d
      <4>2. CASE p = P3 /\ n2 = x /\ n3 = z /\ y = o2 /\ t = o3 /\ n0 = o0 /\ n1 = o1
        <5>1. x * P2 + z * P3 = (o2 * P2 + o3 * P3) + ((S * x + z) - (S * o2 + o3)) * P3
          BY <1>2, <3>3, <3>4, Neighbours
        <5> DEFINE d == ((S * x + z) - (S * o2 + o3)) * P3
        <5>2. d \in Int
          BY <1>2, <3>3, <3>4
        <5> HIDE DEF d
        <5>3. n0 * P0 + n1 * P1 + n2 * P2 + n3 * P3 = (o0 * P0 + o1 * P1 + o2 * P2 + o3 * P3) + d
          BY <1>2, <3>3, <3>4, <4>2, <5>1, <5>2 DEF d
        <5> QED BY <4>2, <5>3 DEF d
      <4> QED BY <3>5, <4>1, <4>2
    <3>7. Value(new) = Value(old) + ((S * x + z) - (S * y + t)) * p
      BY <3>1, <3>2, <3>6
    <3> QED BY <3>7 DEF x, y, z, t, p
  <2> QED BY <2>1, <2>3, <2>4, <2>5
<1>8. CASE op = "SW"
  <2>1. w = Split(v)
    BY <1>8 DEF BitSave
  <2>2. w \in Bytes /\ Value(w) = v
    BY <2>1, SplitIs
  <2>3. new = w
    <3>1. new = [j \in 0 .. 3 |-> w[j]]
      BY <1>8 DEF DP!Combine, DP!Lanes, DP!Lane
    <3> QED BY <2>2, <3>1 DEF Bytes
  <2> QED BY <1>8, <2>2, <2>3 DEF Merged
<1> QED BY <1>6, <1>7, <1>8 DEF Stores

-----------------------------------------------------------------------------
(* Machine defines again what Instructions does; it is the same.           *)

\* Sizes.
LEMMA SameSizes ==
  /\ Machine!Bits = Bits /\ Machine!ByteSize = ByteSize /\ Machine!HalfSize = HalfSize
  /\ Machine!WordSize = WordSize /\ Machine!Word = Word /\ Machine!Stopped = Stopped
  /\ Machine!NOP = NOP
BY DEF Machine!Bits, Bits, Machine!ByteSize, ByteSize, Machine!HalfSize, HalfSize,
       Machine!WordSize, WordSize, Machine!Word, Word, Machine!Stopped, Stopped,
       Machine!NOP, NOP

\* Classes of instructions.
LEMMA SameClasses ==
  /\ Machine!Shifts = Shifts /\ Machine!RArith = RArith /\ Machine!RType = RType
  /\ Machine!IArith = IArith /\ Machine!Loads = Loads /\ Machine!Stores = Stores
  /\ Machine!Branches = Branches /\ Machine!Op = Op
BY DEF Machine!Shifts, Shifts, Machine!RArith, RArith, Machine!RType, RType,
       Machine!IArith, IArith, Machine!Loads, Loads, Machine!Stores, Stores,
       Machine!Branches, Branches, Machine!Op, Op

\* Instructions.
LEMMA SameInstr == Machine!Instr = Instr
BY SameSizes, SameClasses DEF Machine!Instr, Instr

\* The next instruction.
LEMMA SameDue == ASSUME NEW c, NEW p PROVE Machine!Due(c, p) = Due(c, p)
BY SameSizes DEF Machine!Due, Due, Machine!Min, Min

\* Signed numbers.
LEMMA SameSigned ==
  ASSUME NEW w
  PROVE  Machine!Signed(w) = Signed(w) /\ Machine!SignExtend(w) = SignExtend(w)
BY SameSizes DEF Machine!Signed, Signed, Machine!SignExtend, SignExtend

\* Branches.
LEMMA SameTarget == ASSUME NEW p, NEW i PROVE Machine!Target(p, i) = Target(p, i)
<1>1. Machine!SignExtend(i.imm) = SignExtend(i.imm)
  BY SameSigned
<1>2. Machine!Signed(SignExtend(i.imm)) = Signed(SignExtend(i.imm))
  BY SameSigned
<1> QED BY <1>1, <1>2 DEF Machine!Target, Target

\* Bit operations.
LEMMA SameAnd == ASSUME NEW a, NEW b PROVE Machine!And(a, b) = And(a, b)
<1>1. \A w, k : Machine!Bit(w, k) = Bit(w, k)
  BY DEF Machine!Bit, Bit
<1> QED BY <1>1, SameSizes DEF Machine!And, And

\* The other bit operations and comparisons.
LEMMA SameBits ==
  ASSUME NEW a, NEW b
  PROVE  /\ Machine!Or(a, b) = Or(a, b) /\ Machine!Xor(a, b) = Xor(a, b)
         /\ Machine!Not(a) = Not(a) /\ Machine!Less(a, b) = Less(a, b)
         /\ Machine!ShiftRightArith(a, b) = ShiftRightArith(a, b)
<1>1. Machine!And(a, b) = And(a, b) /\ Machine!Signed(a) = Signed(a)
  BY SameAnd, SameSigned
<1> QED BY <1>1, SameSizes DEF Machine!Or, Or, Machine!Xor, Xor, Machine!Not, Not,
           Machine!Less, Less, Machine!ShiftRightArith, ShiftRightArith

\* exec_r.
LEMMA SameRegisterALU ==
  ASSUME NEW op, NEW a, NEW b
  PROVE  Machine!RegisterALU(op, a, b) = RegisterALU(op, a, b)
<1>1. /\ Machine!And(a, b) = And(a, b) /\ Machine!Or(a, b) = Or(a, b)
      /\ Machine!Xor(a, b) = Xor(a, b) /\ Machine!Less(a, b) = Less(a, b)
      /\ Machine!ShiftRightArith(b, a) = ShiftRightArith(b, a)
      /\ Machine!WordSize = WordSize
  BY SameAnd, SameBits, SameSizes
<1>2. /\ Machine!Not(Or(a, b)) = Not(Or(a, b)) /\ Machine!Not(And(a, b)) = Not(And(a, b))
  BY SameBits
<1>3. Machine!Signed(a) = Signed(a) /\ Machine!Signed(b) = Signed(b)
  BY SameSigned
<1>4. Machine!Less(Signed(a), Signed(b)) = Less(Signed(a), Signed(b))
  BY SameBits
<1> QED BY <1>1, <1>2, <1>3, <1>4 DEF Machine!RegisterALU, RegisterALU

\* The immediate operations.
LEMMA SameImmediateALU ==
  ASSUME NEW op, NEW a, NEW b
  PROVE  Machine!ImmediateALU(op, a, b) = ImmediateALU(op, a, b)
<1> DEFINE c == b % HalfSize
<1>1. /\ Machine!And(a, c) = And(a, c) /\ Machine!Or(a, c) = Or(a, c)
      /\ Machine!WordSize = WordSize /\ Machine!HalfSize = HalfSize
      /\ Machine!Loads = Loads /\ Machine!Stores = Stores
  BY SameAnd, SameBits, SameSizes, SameClasses
<1>2. Machine!Not(Or(a, c)) = Not(Or(a, c))
  BY SameBits
<1>3. Machine!Signed(a) = Signed(a) /\ Machine!Signed(b) = Signed(b)
  BY SameSigned
<1>4. Machine!Less(Signed(a), Signed(b)) = Less(Signed(a), Signed(b))
  BY SameBits
<1> QED BY <1>1, <1>2, <1>3, <1>4 DEF Machine!ImmediateALU, ImmediateALU

\* The ALU.
LEMMA SameALU ==
  ASSUME NEW op, NEW a, NEW b
  PROVE  Machine!ALU(op, a, b) = ALU(op, a, b)
BY SameRegisterALU, SameImmediateALU, SameClasses DEF Machine!ALU, ALU

\* Loads and stores.
LEMMA SameBytes ==
  ASSUME NEW op, NEW w, NEW k, NEW v
  PROVE  /\ Machine!Loaded(op, w, k) = Loaded(op, w, k)
         /\ Machine!Merged(op, w, k, v) = Merged(op, w, k, v)
<1>1. /\ Machine!ByteAt(w, k) = ByteAt(w, k) /\ Machine!HalfAt(w, k) = HalfAt(w, k)
      /\ Machine!ByteSize = ByteSize /\ Machine!HalfSize = HalfSize
  BY SameSizes DEF Machine!ByteAt, ByteAt, Machine!HalfAt, HalfAt
<1>2. \A x, size : Machine!Extend(x, size) = Extend(x, size)
  BY SameSizes DEF Machine!Extend, Extend
<1> QED BY <1>1, <1>2, ZenonT(30) DEF Machine!Loaded, Loaded, Machine!Merged, Merged
-----------------------------------------------------------------------------
(* The state of a running program.                                         *)

\* The data words as numbers: what mem is for Machine.
Data == [w \in Address |-> Value(DM!WordSeen(dside, w \div DPageWords, w % DPageWords))]

\* The instruction at PC.
Instruction == Code[PC]

\* The machine's pc.
Pc == IF halt THEN Stopped ELSE Due(Code, PC)

ProcessorOK ==
  /\ PC \in Nat /\ reg \in [Reg -> Word] /\ reg[0] = 0 /\ halt \in BOOLEAN
  /\ IP!Inv /\ DP!Inv /\ CodeSeen

\* The processor is about to execute an instruction.
Ready == ProcessorOK /\ ~halt /\ PC \in Address

\* The word the program sees is the same in DM and DP.
LEMMA DWordSeen ==
  ASSUME NEW s, NEW v, NEW o PROVE DM!WordSeen(s, v, o) = DP!WordSeen(s, v, o)
BY DHits, DIndex, DFirst DEF DM!WordSeen, DP!WordSeen

\* What IP and DP say of the types of the sides, IM and DM say too.
LEMMA SidesTyped ==
  ASSUME IP!Inv, DP!Inv
  PROVE  IM!TypeOK /\ DM!TypeOK
<1>1. IP!TypeOK /\ DP!TypeOK
  BY DEF IP!Inv, DP!Inv, IP!TypeOK, DP!TypeOK, IP!SideOK, DP!SideOK, IP!Core, DP!Core
<1>2. IM!Side = IP!Side /\ IM!Word = IP!Word
  BY DEF IM!Side, IP!Side, IM!Word, IP!Word, IM!Page, IP!Page, IM!PageWord, IP!PageWord,
         IM!Frame, IP!Frame, IM!MemPage, IP!MemPage, IM!PTEntry, IP!PTEntry, IM!TLBIndex,
         IP!TLBIndex, IM!TLBEntries, IP!TLBEntries, IM!TLBEntry, IP!TLBEntry,
         IM!SetIndex, IP!SetIndex, IM!Way, IP!Way, IM!Line, IP!Line, IM!Offset, IP!Offset,
         IM!BlockWord, IP!BlockWord, IM!Lane, IP!Lane
<1>3. DM!Side = DP!Side /\ DM!Word = DP!Word
  BY DEF DM!Side, DP!Side, DM!Word, DP!Word, DM!Page, DP!Page, DM!PageWord, DP!PageWord,
         DM!Frame, DP!Frame, DM!MemPage, DP!MemPage, DM!PTEntry, DP!PTEntry, DM!TLBIndex,
         DP!TLBIndex, DM!TLBEntries, DP!TLBEntries, DM!TLBEntry, DP!TLBEntry,
         DM!SetIndex, DP!SetIndex, DM!Way, DP!Way, DM!Line, DP!Line, DM!Offset, DP!Offset,
         DM!BlockWord, DP!BlockWord, DM!Lane, DP!Lane
<1> QED BY <1>1, <1>2, <1>3 DEF IM!TypeOK, IP!TypeOK, DM!TypeOK, DP!TypeOK

\* Code is instructions.
LEMMA CodeTyped ==
  /\ Code \in [Address -> Instr]
  /\ \A p \in Address : Code[p].op = "SRA" => Code[p].imm # 0
<1>1. ASSUME NEW p \in Address PROVE IImage[p \div IPageWords][p % IPageWords] \in Bytes
  <2> DEFINE k == IPageWords
             n == IDiskPages
             q == p \div k
             r == p % k
  <2>1. k \in Nat \ {0} /\ p \in Nat /\ n \in Nat /\ p < n * k
    BY GeometryAssumption, Pages DEF Address
  <2> HIDE DEF n, k
  <2>2. q \in Nat /\ r \in 0 .. k - 1 /\ p = k * q + r
    BY <2>1, ISizes, ZeroByte, IProgram, IP!DivMod
  <2> HIDE DEF q, r
  <2>3. q \in 0 .. n - 1
    <3>1. n <= q => k * n <= k * q
      <4>1. n < q => k * n + k <= k * q
        BY <2>1, <2>2, ISizes, ZeroByte, IProgram, IP!MulMonotone
      <4> QED BY <2>1, <2>2, <4>1
    <3> QED BY <2>1, <2>2, <3>1
  <2> QED BY <2>2, <2>3, ImageAssumption DEF q, r, k, n
<1> QED BY <1>1, ImageAssumption DEF Code

\* The parts of the instruction at PC.
LEMMA InstructionIs ==
  ASSUME Ready
  PROVE  LET i == Instruction
         IN  /\ i.rs \in Reg /\ i.rt \in Reg /\ i.rd \in Reg
             /\ reg[i.rs] \in Word /\ reg[i.rt] \in Word
             /\ i.imm \in 0 .. HalfSize - 1 /\ i.imm \in Word
             /\ i.op \in Shifts => i.imm < Bits
             /\ i.op = "SRA" => i.imm # 0
<1> DEFINE i == Instruction
<1>1. i \in Instr /\ (i.op = "SRA" => i.imm # 0)
  BY CodeTyped DEF Ready, Instruction
<1>2. /\ i.rs \in Reg /\ i.rt \in Reg /\ i.rd \in Reg
      /\ i.imm \in 0 .. HalfSize - 1
      /\ i.op \in Shifts => i.imm < Bits
  BY <1>1 DEF Instr
<1>3. i.imm \in Word
  BY <1>2, Immediate
<1> QED BY <1>1, <1>2, <1>3 DEF Ready, ProcessorOK

\* A turn executes the instruction at PC.
LEMMA TurnIs ==
  ASSUME ProcessorOK, NEW ops, Fetched(ops)
  PROVE  /\ Ready /\ Here = Instruction /\ Instruction.op \in ops
         /\ IP!Inv' /\ CodeSeen'
<1>1. /\ ~halt /\ PC \in Address /\ Here.op \in ops
      /\ IP!Fetch(InPage(4 * PC, IPageWords))
  BY TurnFetches DEF Fetched, Here
<1>2. /\ IP!Inv' /\ CodeSeen'
      /\ instr' = IImage[PC \div IPageWords][PC % IPageWords]
  BY <1>1, FetchGives DEF ProcessorOK
<1>3. Here = Instruction
  BY <1>1, <1>2 DEF Here, Instruction, Code
<1> QED BY <1>1, <1>2, <1>3 DEF Ready

-----------------------------------------------------------------------------
(* Data as Machine sees them.                                              *)

\* The page and the place of a word of data.
LEMMA WordPlace ==
  ASSUME NEW w \in Address
  PROVE  /\ w \div DPageWords \in 0 .. DDiskPages - 1
         /\ w % DPageWords \in 0 .. DPageWords - 1
         /\ w = DPageWords * (w \div DPageWords) + (w % DPageWords)
<1> DEFINE k == DPageWords
           n == DDiskPages
           q == w \div k
           r == w % k
<1>1. k \in Nat \ {0} /\ w \in Nat /\ n \in Nat /\ w < n * k
  BY GeometryAssumption, Pages DEF Address
<1> HIDE DEF n, k
<1>2. q \in Nat /\ r \in 0 .. k - 1 /\ w = k * q + r
  BY <1>1, ISizes, ZeroByte, IProgram, IP!DivMod
<1> HIDE DEF q, r
<1>3. q \in 0 .. n - 1
  <2>1. n <= q => k * n <= k * q
    <3>1. n < q => k * n + k <= k * q
      BY <1>1, <1>2, ISizes, ZeroByte, IProgram, IP!MulMonotone
    <3> QED BY <1>1, <1>2, <3>1
  <2> QED BY <1>1, <1>2, <2>1
<1> QED BY <1>2, <1>3 DEF q, r, k, n

\* An address whose page is on the disk is a byte of a word of it.
LEMMA BytePosition ==
  ASSUME NEW a \in Nat, InPage(a, DPageWords).page \in 0 .. DDiskPages - 1
  PROVE  LET r == InPage(a, DPageWords)
             w == a \div 4
         IN  /\ w \in Address /\ w \div DPageWords = r.page /\ w % DPageWords = r.off \div 4
             /\ r.off \in 0 .. 4 * DPageWords - 1 /\ r.off % 4 = a % 4
<1> DEFINE k == DPageWords
           n == DDiskPages
           f == 4
           w == a \div f
           q == a \div (f * k)
           o == a % (f * k)
           r == InPage(a, k)
<1>1. k \in Nat \ {0} /\ n \in Nat /\ DiskWords = n * k /\ f \in Nat \ {0} /\ a \in Int /\ a >= 0
      /\ f * k \in Nat \ {0}
  BY GeometryAssumption, Pages
<1>2. r.page = q /\ r.off = o /\ q \in 0 .. n - 1
  BY DEF InPage
<1>3. q = w \div k /\ o = (a % f) + f * (w % k)
  <2> HIDE DEF k, f
  <2> QED BY <1>1, TwoSteps, Zenon
<1>4. w \in Nat /\ a % f \in 0 .. f - 1
  BY <1>1
<1>5. w \div k \in Int /\ w % k \in 0 .. k - 1 /\ w = k * (w \div k) + (w % k)
  <2>1. w \in Int
    BY <1>4
  <2> HIDE DEF w, k
  <2> QED BY <1>1, <2>1, DivMod, Zenon
<1> DEFINE x == w % k
           m == a % f
<1>6. x \in 0 .. k - 1 /\ m \in 0 .. 3 /\ o = m + 4 * x /\ w = k * q + x
  <2> HIDE DEF o, q, w
  <2> QED BY <1>3, <1>4, <1>5
<1> HIDE DEF x, m, o, q, w, k, n
<1>7. o \div 4 = x /\ o % 4 = m /\ o \in 0 .. 4 * k - 1
  BY <1>1, <1>6
<1>8. w < n * k
  <2>1. k * q + k <= k * n
    BY <1>1, <1>2, ISizes, ZeroByte, IProgram, IP!MulMonotone
  <2>2. k * n = n * k /\ k * q \in Nat /\ k * n \in Nat
    BY <1>1, <1>2
  <2> DEFINE y == k * q
             z == k * n
  <2> HIDE DEF y, z
  <2>3. w = y + x /\ y + k <= z /\ y \in Nat /\ z \in Nat /\ z = n * k
    BY <1>6, <2>1, <2>2 DEF y, z
  <2>4. w < z
    BY <1>1, <1>6, <2>3
  <2> QED BY <2>3, <2>4
<1>9. w \in Address
  BY <1>1, <1>4, <1>8 DEF Address
<1> QED BY <1>2, <1>3, <1>7, <1>9 DEF x, m, w, k, n

\* While DP's invariant holds, what a program sees is words.
LEMMA SeenWord ==
  ASSUME DP!Inv, NEW w \in Address
  PROVE  /\ DP!WordSeen(dside, w \div DPageWords, w % DPageWords) \in Bytes
         /\ Data[w] = Value(DP!WordSeen(dside, w \div DPageWords, w % DPageWords))
         /\ Data[w] \in Word
<1>1. w \div DPageWords \in DP!Page /\ w % DPageWords \in DP!PageWord
  BY WordPlace DEF DP!Page, DP!PageWord
<1>2. DP!Core(dside)
  BY DEF DP!Inv, DP!SideOK
<1>3. DP!WordSeen(dside, w \div DPageWords, w % DPageWords) \in DP!Word
  BY <1>1, <1>2, DSizes, ZeroByte, DProgram, DP!SeenTyped
<1>4. DP!Word = Bytes
  BY DEF DP!Word, DP!Lane, Bytes
<1>5. Data[w] = Value(DP!WordSeen(dside, w \div DPageWords, w % DPageWords))
  BY DWordSeen DEF Data
<1> QED BY <1>3, <1>4, <1>5, ValueSteps

\* Data are kept while the side is.
LEMMA DataKept ==
  ASSUME DP!Inv, UNCHANGED dvars
  PROVE  DP!Inv' /\ Data' = Data
BY DEF dvars, DP!Inv, Data

\* A load finds the value of the word at its address, and changes no data.
LEMMA ReadGives ==
  ASSUME DP!Inv, NEW a \in Nat, InPage(a, DPageWords) \in DataReads,
         DM!Read(InPage(a, DPageWords))
  PROVE  /\ DP!Inv' /\ Data' = Data
         /\ a \div 4 \in Address /\ Value(data') = Data[a \div 4]
<1> DEFINE r == InPage(a, DPageWords)
           w == a \div 4
<1>1. r.page \in 0 .. DDiskPages - 1
  BY DEF DataReads
<1>2. w \in Address /\ w \div DPageWords = r.page /\ w % DPageWords = r.off \div 4
  BY <1>1, BytePosition
<1>3. /\ DP!Inv' /\ DP!SameWords(dside, dside')
      /\ data' = DP!WordSeen(dside, r.page, r.off \div 4)
  <2>1. DP!Read(r)
    BY DRead
  <2> HIDE DEF r
  <2> QED BY <2>1, DSizes, ZeroByte, DProgram, DP!ReadStep DEF r
<1> HIDE DEF r, w
<1>4. Value(data') = Data[w]
  BY <1>2, <1>3, SeenWord
<1>5. Data' = Data
  <2>1. \A x \in Address :
          DM!WordSeen(dside', x \div DPageWords, x % DPageWords)
            = DM!WordSeen(dside, x \div DPageWords, x % DPageWords)
    BY <1>3, WordPlace, DWordSeen DEF DP!SameWords, DP!Page, DP!PageWord
  <2> QED BY <2>1 DEF Data
<1> QED BY <1>2, <1>3, <1>4, <1>5 DEF w

\* A store changes the word at its address, as the instruction set says, and no other.
LEMMA WriteGives ==
  ASSUME DP!Inv, NEW op \in Stores, NEW v \in Word,
         NEW a \in Nat, a % (Further(op) + 1) = 0,
         NEW s, s = [page |-> InPage(a, DPageWords).page, off |-> InPage(a, DPageWords).off,
                     op |-> op, word |-> Split(BitSave(op, InPage(a, DPageWords).off, v))],
         s \in DataWrites, DM!Write(s)
  PROVE  /\ DP!Inv' /\ a \div 4 \in Address
         /\ Data' = [Data EXCEPT ![a \div 4] = Merged(op, @, a % 4, v)]
<1> DEFINE r == InPage(a, DPageWords)
           w == a \div 4
<1>1. r.page \in 0 .. DDiskPages - 1 /\ s.page = r.page /\ s.off = r.off /\ s.op = op
      /\ s.word = Split(BitSave(op, s.off, v))
  BY DEF DataWrites
<1>2. /\ w \in Address /\ w \div DPageWords = r.page /\ w % DPageWords = r.off \div 4
      /\ r.off \in 0 .. 4 * DPageWords - 1 /\ r.off % 4 = a % 4
  BY <1>1, BytePosition
<1>3. DP!Inv' /\ DP!Stored(dside, dside', s)
  <2>1. DP!Write(s)
    BY DWrite
  <2> QED BY <2>1, DSizes, ZeroByte, DProgram, DP!WriteStep
<1> HIDE DEF r, w
<1>4. s.off \in Nat /\ s.off % (Further(op) + 1) = 0
  <2>1. s.off \in Nat
    BY <1>1, <1>2, GeometryAssumption
  <2>2. s.off % 4 = a % 4 /\ Further(op) + 1 \in {1, 2, 4}
    BY <1>1, <1>2 DEF Further, Stores
  <2> QED BY <2>1, <2>2
<1> DEFINE old == DP!WordSeen(dside, w \div DPageWords, w % DPageWords)
<1>5. old \in Bytes /\ Data[w] = Value(old)
  BY <1>2, SeenWord
<1>6. Value(DP!Combine(old, s)) = Merged(op, Data[w], a % 4, v)
  <2> HIDE DEF old
  <2>1. Value(DP!Combine(old, s)) = Merged(op, Value(old), s.off % 4, v)
    BY <1>1, <1>4, <1>5, StoredValue
  <2> QED BY <1>1, <1>2, <1>5, <2>1
<1> HIDE DEF old
<1>7. ASSUME NEW x \in Address
      PROVE  DM!WordSeen(dside', x \div DPageWords, x % DPageWords)
               = IF x = w THEN DP!Combine(old, s)
                 ELSE DM!WordSeen(dside, x \div DPageWords, x % DPageWords)
  <2> DEFINE p == x \div DPageWords
             o == x % DPageWords
  <2>1. p \in DP!Page /\ o \in DP!PageWord
    BY WordPlace DEF DP!Page, DP!PageWord
  <2>2. x = w <=> (p = s.page /\ o = s.off \div 4)
    <3>1. x = DPageWords * p + o
      BY WordPlace
    <3>2. w = DPageWords * (w \div DPageWords) + (w % DPageWords)
      BY <1>2, WordPlace
    <3>3. (x = w) => (p = w \div DPageWords /\ o = w % DPageWords)
      OBVIOUS
    <3> HIDE DEF p, o
    <3>4. (p = w \div DPageWords /\ o = w % DPageWords) => x = w
      BY <3>1, <3>2
    <3> QED BY <1>1, <1>2, <3>3, <3>4
  <2>3. DP!WordSeen(dside', p, o) = IF p = s.page /\ o = s.off \div 4
                                    THEN DP!Combine(DP!WordSeen(dside, p, o), s)
                                    ELSE DP!WordSeen(dside, p, o)
    <3> HIDE DEF p, o
    <3> QED BY <1>3, <2>1 DEF DP!Stored
  <2>4. x = w => DP!WordSeen(dside, p, o) = old
    BY DEF old
  <2> QED BY <2>2, <2>3, <2>4, DWordSeen
<1>8. Data' = [x \in Address |-> IF x = w THEN Value(DP!Combine(old, s)) ELSE Data[x]]
  BY <1>7 DEF Data
<1>9. Data' = [Data EXCEPT ![w] = Merged(op, @, a % 4, v)]
  BY <1>2, <1>6, <1>8 DEF Data
<1> QED BY <1>2, <1>3, <1>9 DEF w

-----------------------------------------------------------------------------
(* Turns as steps of Machine.                                              *)

\* Code from PC on.
LEMMA PcIs ==
  ASSUME Ready
  PROVE  /\ Instruction # NOP => Pc = PC
         /\ Instruction = NOP => Pc = Due(Code, PC + 1)
<1>1. DiskWords \in Nat /\ DOMAIN Code = 0 .. DiskWords - 1 /\ PC \in Int /\ PC \in DOMAIN Code
  BY GeometryAssumption, CodeTyped DEF Ready, ProcessorOK, Address
<1>2. /\ Code[PC] # NOP => Due(Code, PC) = PC
      /\ Code[PC] = NOP => Due(Code, PC) = Due(Code, PC + 1)
  BY <1>1, DueIs
<1> QED BY <1>2 DEF Ready, Pc, Instruction

\* The machine is at the same instruction.
LEMMA MachineRuns ==
  ASSUME Ready, Instruction # NOP
  PROVE  /\ Machine!Here = Instruction
         /\ \A ops : Machine!Running(ops) <=> Instruction.op \in ops
         /\ \A i : Machine!AddressOf(i) = ALU(i.op, reg[i.rs], SignExtend(i.imm))
<1>1. Pc = PC /\ PC # Stopped
  <2>1. PC # Stopped
    BY DEF Ready, ProcessorOK, Stopped
  <2> QED BY <2>1, PcIs
<1>2. Machine!Here = Instruction
  BY <1>1, SameDue, SameSizes DEF Machine!Here, Instruction, Pc
<1>3. \A ops : Machine!Running(ops) <=> Instruction.op \in ops
  BY <1>1, <1>2, SameDue, SameSizes DEF Machine!Running, Pc
<1>4. \A i : Machine!AddressOf(i) = ALU(i.op, reg[i.rs], SignExtend(i.imm))
  BY SameALU, SameSigned DEF Machine!AddressOf
<1> QED BY <1>2, <1>3, <1>4

\* A turn moves the machine to where it moves PC.
LEMMA MachineGoes ==
  ASSUME ~halt', NEW p, Due(Code, PC') = Due(Code, p)
  PROVE  Machine!GoTo(p) /\ Pc' = Due(Code, p)
<1>1. Pc' = Due(Code, p)
  BY DEF Pc, Due, Code
<1> QED BY <1>1, SameDue, SameSizes DEF Machine!GoTo, Pc, Code

\* A NOP is stepped over: only PC moves on.
LEMMA StepsOver ==
  ASSUME Ready, Instruction = NOP, ~halt', PC' = PC + 1, reg' = reg, Data' = Data
  PROVE  UNCHANGED Machine!vars
<1>1. Due(Code, PC') = Due(Code, PC + 1)
  OBVIOUS
<1>2. Pc' = Due(Code, PC + 1) /\ Pc = Due(Code, PC + 1)
  BY <1>1, MachineGoes, PcIs
<1>3. Pc' = Pc /\ Data' = Data /\ reg' = reg
  BY <1>2
<1> QED BY <1>3, SameDue, SameSizes DEF Machine!vars, Pc, Data, Code

\* What every turn does.
GoodStep == ProcessorOK' /\ (Machine!Next \/ UNCHANGED Machine!vars)

\* Classes of instructions are apart.
LEMMA Classes ==
  /\ RArith \cap (IArith \cup Loads \cup Stores \cup Branches \cup {"J", "JAL", "JR", "HALT"}) = {}
  /\ IArith \cap (Loads \cup Stores \cup Branches \cup {"J", "JAL", "JR", "HALT"}) = {}
  /\ (Loads \cup Stores) \cap (Branches \cup {"J", "JAL", "JR", "HALT"}) = {}
  /\ Branches \cap {"J", "JAL", "JR", "HALT"} = {} /\ Loads \cap Stores = {}
  /\ Shifts \subseteq RArith /\ NOP.op \in Shifts /\ NOP.rd = 0
BY DEF RArith, Shifts, IArith, Loads, Stores, Branches, NOP

\* Registers stay words, and $0 stays zero.
LEMMA SetTyped ==
  ASSUME ProcessorOK, NEW r \in Reg, NEW value \in Word, Set(r, value)
  PROVE  reg' \in [Reg -> Word] /\ reg'[0] = 0
BY RegAssumption DEF ProcessorOK, Set

\* Register operations.
LEMMA RegisterArithSteps ==
  ASSUME ProcessorOK, RegisterArith
  PROVE  GoodStep
<1> DEFINE i == Instruction
           a == IF i.op \in Shifts THEN i.imm ELSE reg[i.rs]
           b == reg[i.rt]
           v == ExecR(i.op, a, b)
<1>1. /\ Ready /\ i.op \in RArith /\ Set(i.rd, v) /\ PC' = PC + 1
      /\ halt' = halt /\ UNCHANGED dvars /\ IP!Inv' /\ CodeSeen'
  <2>1. /\ Fetched(RArith) /\ PC' = PC + 1 /\ halt' = halt /\ UNCHANGED dvars
        /\ Set(Here.rd, ExecR(Here.op, IF Here.op \in Shifts THEN Here.imm ELSE reg[Here.rs],
                              reg[Here.rt]))
    BY DEF RegisterArith
  <2>2. Ready /\ Here = Instruction /\ i.op \in RArith /\ IP!Inv' /\ CodeSeen'
    BY <2>1, TurnIs
  <2> QED BY <2>1, <2>2
<1>2. v \in Word /\ v = RegisterALU(i.op, a, b) /\ i.rd \in Reg
  <2>1. /\ a \in Word /\ b \in Word /\ (i.op \in Shifts => a < Bits)
        /\ (i.op = "SRA" => a # 0) /\ i.rd \in Reg
    BY <1>1, InstructionIs DEF Shifts
  <2> HIDE DEF a, b
  <2> QED BY <1>1, <2>1, RegisterResult
<1> HIDE DEF v
<1>3. DP!Inv' /\ Data' = Data
  BY <1>1, DataKept DEF ProcessorOK
<1>4. ProcessorOK'
  <2>1. reg' \in [Reg -> Word] /\ reg'[0] = 0
    BY <1>1, <1>2, SetTyped
  <2> QED BY <1>1, <1>3, <2>1 DEF ProcessorOK
<1>5. ~halt' /\ Due(Code, PC') = Due(Code, PC + 1)
  BY <1>1 DEF Ready
<1>6. CASE i = NOP
  <2>1. i.rd = 0
    BY <1>6, Classes
  <2>2. reg' = reg
    BY <1>1, <2>1 DEF Set, Ready, ProcessorOK
  <2> QED BY <1>1, <1>3, <1>4, <1>5, <1>6, <2>2, StepsOver DEF GoodStep
<1>7. CASE i # NOP
  <2>1. Machine!GoTo(PC + 1) /\ Pc = PC
    BY <1>1, <1>5, <1>7, MachineGoes, PcIs
  <2>2. Machine!ALU(i.op, a, b) = v
    BY <1>1, <1>2, SameALU DEF ALU
  <2>3. Machine!Here = i /\ \A ops : Machine!Running(ops) <=> i.op \in ops
    BY <1>1, <1>7, MachineRuns
  <2>4. Machine!Set(i.rd, v)
    BY <1>1 DEF Machine!Set, Set
  <2>5. Machine!GoTo(Pc + 1)
    BY <2>1
  <2>6. Machine!RegisterArith
    BY <1>1, <1>3, <2>2, <2>3, <2>4, <2>5, SameClasses DEF Machine!RegisterArith, Pc, Data
  <2> QED BY <1>4, <2>6 DEF GoodStep, Machine!Next
<1> QED BY <1>6, <1>7

\* Immediate operations.
LEMMA ImmediateArithSteps ==
  ASSUME ProcessorOK, ImmediateArith
  PROVE  GoodStep
<1> DEFINE i == Instruction
           e == SignExtend(i.imm)
           v == ImmediateALU(i.op, reg[i.rs], e)
<1>1. /\ Ready /\ i.op \in IArith /\ Set(i.rt, v) /\ PC' = PC + 1
      /\ halt' = halt /\ UNCHANGED dvars /\ IP!Inv' /\ CodeSeen'
  <2>1. /\ Fetched(IArith) /\ PC' = PC + 1 /\ halt' = halt /\ UNCHANGED dvars
        /\ Set(Here.rt, ImmediateALU(Here.op, reg[Here.rs], SignExtend(Here.imm)))
    BY DEF ImmediateArith
  <2>2. Ready /\ Here = Instruction /\ i.op \in IArith /\ IP!Inv' /\ CodeSeen'
    BY <2>1, TurnIs
  <2> QED BY <2>1, <2>2
<1>2. v \in Word /\ i.rt \in Reg
  BY <1>1, InstructionIs, Immediate, ImmediateResult
<1> HIDE DEF v, e
<1>3. DP!Inv' /\ Data' = Data
  BY <1>1, DataKept DEF ProcessorOK
<1>4. ProcessorOK'
  <2>1. reg' \in [Reg -> Word] /\ reg'[0] = 0
    BY <1>1, <1>2, SetTyped
  <2> QED BY <1>1, <1>3, <2>1 DEF ProcessorOK
<1>5. ~halt' /\ Due(Code, PC') = Due(Code, PC + 1)
  BY <1>1 DEF Ready
<1>6. i # NOP
  BY <1>1, Classes
<1>7. Machine!GoTo(Pc + 1)
  BY <1>1, <1>5, <1>6, MachineGoes, PcIs
<1>8. Machine!ALU(i.op, reg[i.rs], e) = v
  BY <1>1, SameALU, Classes DEF ALU, v
<1>9. Machine!Here = i /\ \A ops : Machine!Running(ops) <=> i.op \in ops
  BY <1>1, <1>6, MachineRuns
<1>10. Machine!Set(i.rt, v) /\ Machine!SignExtend(i.imm) = e
  BY <1>1, SameSigned DEF Machine!Set, Set, e
<1>11. Machine!ImmediateArith
  BY <1>1, <1>3, <1>7, <1>8, <1>9, <1>10, SameClasses DEF Machine!ImmediateArith, Pc, Data
<1> QED BY <1>4, <1>11 DEF GoodStep, Machine!Next

\* The address of an access.
LEMMA VAddrIs ==
  ASSUME Ready, Instruction.op \in Loads \cup Stores
  PROVE  /\ VAddr(Instruction) \in Nat
         /\ ALU(Instruction.op, reg[Instruction.rs], SignExtend(Instruction.imm))
              = VAddr(Instruction)
<1> DEFINE i == Instruction
           a == reg[i.rs]
           e == SignExtend(i.imm)
<1>1. a \in Word /\ e \in Word /\ Signed(e) \in Int
  <2>1. e \in Word
    BY InstructionIs, Immediate
  <2> QED BY <2>1, InstructionIs, SignedIs
<1>2. ALU(i.op, a, e) = (a + e) % WordSize
  BY Classes DEF ALU, ImmediateALU, Loads, Stores
<1>3. VAddr(i) = (a + Signed(e)) % WordSize
  BY DEF VAddr, SignC
<1>4. ALU(i.op, a, e) = VAddr(i)
  BY <1>1, <1>2, <1>3, AddressIs
<1>5. VAddr(i) \in Word
  <2>1. a + Signed(e) \in Int
    BY <1>1, Sizes DEF Word
  <2> QED BY <1>3, <2>1, Inside
<1> QED BY <1>4, <1>5, Sizes DEF Word

\* Loads.
LEMMA LoadSteps ==
  ASSUME ProcessorOK, Load
  PROVE  GoodStep
<1> DEFINE i == Instruction
           a == VAddr(i)
           r == InPage(a, DPageWords)
           w == Data[a \div 4]
           v == ExecLoad(i.op, Value(data'), a)
<1>1. /\ Ready /\ i.op \in Loads /\ PC' = PC + 1 /\ halt' = halt /\ IP!Inv' /\ CodeSeen'
      /\ r \in DataReads /\ a % (Further(i.op) + 1) = 0 /\ DM!Read(r) /\ Set(i.rt, v)
  <2>1. Fetched(Loads)
    BY DEF Load
  <2>2. Ready /\ Here = Instruction /\ i.op \in Loads /\ IP!Inv' /\ CodeSeen'
    BY <2>1, TurnIs
  <2> QED BY <2>2 DEF Load
<1>2. a \in Nat /\ ALU(i.op, reg[i.rs], SignExtend(i.imm)) = a
  BY <1>1, VAddrIs
<1>3. DP!Inv' /\ Data' = Data /\ a \div 4 \in Address /\ Value(data') = w
  <2> HIDE DEF a
  <2> QED BY <1>1, <1>2, ReadGives DEF ProcessorOK
<1>4. w \in Word
  BY <1>3, SeenWord DEF ProcessorOK
<1>5. v = Loaded(i.op, w, a % 4) /\ v \in Word
  <2>1. v = ExecLoad(i.op, w, a)
    BY <1>3
  <2> HIDE DEF v, w, a
  <2> QED BY <1>1, <1>2, <1>4, <2>1, LoadsAgree
<1> HIDE DEF v, a, r
<1>6. ProcessorOK'
  <2>1. i.rt \in Reg
    BY <1>1, InstructionIs
  <2>2. reg' \in [Reg -> Word] /\ reg'[0] = 0
    BY <1>1, <1>5, <2>1, SetTyped
  <2> QED BY <1>1, <1>3, <2>2 DEF ProcessorOK
<1>7. ~halt' /\ Due(Code, PC') = Due(Code, PC + 1)
  BY <1>1 DEF Ready
<1>8. i # NOP
  BY <1>1, Classes
<1>9. Machine!GoTo(Pc + 1)
  BY <1>1, <1>7, <1>8, MachineGoes, PcIs
<1>10. /\ Machine!Here = i /\ Machine!AddressOf(i) = a
       /\ \A ops : Machine!Running(ops) <=> i.op \in ops
  BY <1>1, <1>2, <1>8, MachineRuns
<1>11. Machine!Accessible(a) /\ Machine!Set(i.rt, v)
  BY <1>1, <1>3 DEF Machine!Accessible, Machine!DataWord, Address, Machine!Set, Set
<1>12. Machine!Loaded(i.op, w, a % 4) = v
  BY <1>5, SameBytes
<1>13. Machine!Load
  BY <1>1, <1>3, <1>9, <1>10, <1>11, <1>12, SameClasses DEF Machine!Load, Pc, Data
<1> QED BY <1>6, <1>13 DEF GoodStep, Machine!Next

\* Stores.
LEMMA StoreSteps ==
  ASSUME ProcessorOK, Store
  PROVE  GoodStep
<1> DEFINE i == Instruction
           a == VAddr(i)
           r == InPage(a, DPageWords)
           u == reg[i.rt]
           s == [page |-> r.page, off |-> r.off, op |-> i.op,
                 word |-> Split(BitSave(i.op, r.off, u))]
<1>1. /\ Ready /\ i.op \in Stores /\ PC' = PC + 1 /\ halt' = halt /\ reg' = reg
      /\ IP!Inv' /\ CodeSeen'
      /\ s \in DataWrites /\ DM!Write(s)
  <2>1. Fetched(Stores)
    BY DEF Store
  <2>2. Ready /\ Here = Instruction /\ i.op \in Stores /\ IP!Inv' /\ CodeSeen'
    BY <2>1, TurnIs
  <2> QED BY <2>2 DEF Store
<1>2. a \in Nat /\ ALU(i.op, reg[i.rs], SignExtend(i.imm)) = a /\ u \in Word
  BY <1>1, VAddrIs, InstructionIs
<1>3. a % (Further(i.op) + 1) = 0
  <2>1. /\ s.off = r.off /\ s.op = i.op /\ s.page = r.page
    OBVIOUS
  <2>2. /\ s.page \in 0 .. DDiskPages - 1
        /\ (s.op = "SH" => s.off % 2 = 0) /\ (s.op = "SW" => s.off % 4 = 0)
    BY <1>1 DEF DataWrites
  <2>3. r.off \in 0 .. 4 * DPageWords - 1 /\ r.off % 4 = a % 4
    BY <1>2, <2>1, <2>2, BytePosition
  <2>4. r.off \in Nat
    BY <2>3, GeometryAssumption
  <2> HIDE DEF s, a, r
  <2> QED BY <1>1, <1>2, <2>1, <2>2, <2>3, <2>4 DEF Further, Stores
<1> HIDE DEF u
<1>4. /\ DP!Inv' /\ a \div 4 \in Address
      /\ Data' = [Data EXCEPT ![a \div 4] = Merged(i.op, @, a % 4, u)]
  <2> DEFINE t == s
  <2>1. /\ t = [page |-> InPage(a, DPageWords).page, off |-> InPage(a, DPageWords).off,
                op |-> i.op, word |-> Split(BitSave(i.op, InPage(a, DPageWords).off, u))]
        /\ t \in DataWrites /\ DM!Write(t)
    BY <1>1
  <2> HIDE DEF t, a, r
  <2> QED BY <1>1, <1>2, <1>3, <2>1, WriteGives DEF ProcessorOK
<1> HIDE DEF a, r
<1>5. ProcessorOK'
  BY <1>1, <1>4 DEF ProcessorOK, Ready
<1>6. ~halt' /\ Due(Code, PC') = Due(Code, PC + 1)
  BY <1>1 DEF Ready
<1>7. i # NOP
  BY <1>1, Classes
<1>8. Machine!GoTo(Pc + 1)
  BY <1>1, <1>6, <1>7, MachineGoes, PcIs
<1>9. /\ Machine!Here = i /\ Machine!AddressOf(i) = a
      /\ \A ops : Machine!Running(ops) <=> i.op \in ops
  BY <1>1, <1>2, <1>7, MachineRuns
<1>10. Machine!Accessible(a)
  BY <1>4 DEF Machine!Accessible, Machine!DataWord, Address
<1>11. Data' = [Data EXCEPT ![a \div 4] = Machine!Merged(i.op, @, a % 4, u)]
  BY <1>4, SameBytes
<1>12. Machine!Store
  BY <1>1, <1>8, <1>9, <1>10, <1>11, SameClasses DEF Machine!Store, Pc, Data, u
<1> QED BY <1>5, <1>12 DEF GoodStep, Machine!Next


\* The target of a branch: one that wraps is off the code as the negative one is.
LEMMA BranchTarget ==
  ASSUME Ready
  PROVE  LET t == PC + 1 + SignC(Instruction)
         IN  /\ t % WordSize \in Nat
             /\ Due(Code, t % WordSize) = Due(Code, Target(PC, Instruction))
<1> DEFINE i == Instruction
           s == Signed(SignExtend(i.imm))
           t == PC + 1 + s
           W == WordSize
           H == HalfSize
           G == HalfSize \div 2
           n == DiskWords
<1>1. n \in Nat /\ W \in Nat \ {0} /\ H = 2 * G /\ G \in Nat \ {0} /\ n + H <= W
  <2>1. W \in Nat \ {0}
    BY Sizes, PowPositive, Widths
  <2> QED BY <2>1, GeometryAssumption, RoomAssumption, Middles
<1>2. PC \in 0 .. n - 1
  BY DEF Ready, Address
<1>3. s \in -G .. G - 1
  BY InstructionIs, Immediate
<1>4. t \in Int /\ -G <= t /\ t < n + G
  <2> HIDE DEF G, n, s
  <2> QED BY <1>1, <1>2, <1>3
<1>5. SignC(i) = s /\ Target(PC, i) = t
  BY DEF SignC, Target
<1>6. DOMAIN Code = 0 .. n - 1
  BY DEF Code, Address
<1> HIDE DEF t, G, H, n, W
<1>7. Due(Code, t % W) = Due(Code, t)
  <2>1. CASE t < 0
    <3> DEFINE z == t + W
               q == -1
    <3>1. t = W * q + z /\ z \in 0 .. W - 1 /\ q \in Int
      BY <1>1, <1>4, <2>1
    <3>2. t \notin 0 .. n - 1 /\ z \notin 0 .. n - 1 /\ z \in Int
      BY <1>1, <1>4, <2>1
    <3> HIDE DEF z, q
    <3>3. t % W = z
      BY <1>1, <3>1, Unique
    <3> QED BY <1>1, <1>4, <1>6, <3>2, <3>3, DueIs
  <2>2. CASE t >= 0
    <3>1. t = W * 0 + t /\ t \in 0 .. W - 1
      BY <1>1, <1>4, <2>2
    <3>2. t % W = t
      BY <1>1, <3>1, Unique
    <3> QED BY <3>2
  <2> QED BY <1>4, <2>1, <2>2
<1>8. t % W \in Word
  BY <1>4, Inside DEF W
<1>9. t % W \in Nat
  BY <1>8, Sizes DEF Word, W
<1> QED BY <1>5, <1>7, <1>9 DEF t, W

\* What a turn that leaves the data side alone keeps.
LEMMA QuietTurn ==
  ASSUME Ready, IP!Inv', CodeSeen', PC' \in Nat, UNCHANGED dvars, halt' \in BOOLEAN,
         reg' \in [Reg -> Word], reg'[0] = 0
  PROVE  ProcessorOK' /\ Data' = Data
<1>1. DP!Inv' /\ Data' = Data
  BY DataKept DEF Ready, ProcessorOK
<1> QED BY <1>1 DEF ProcessorOK

\* Branches.
LEMMA BranchSteps ==
  ASSUME ProcessorOK, Branch
  PROVE  GoodStep
<1> DEFINE i == Instruction
           taken == (reg[i.rs] = reg[i.rt]) <=> (i.op = "BEQ")
           t == (PC + 1 + SignC(i)) % WordSize
           q == IF taken THEN Target(PC, i) ELSE PC + 1
<1>1. /\ Ready /\ i.op \in Branches /\ PC' = (IF taken THEN t ELSE PC + 1)
      /\ UNCHANGED <<reg, halt, dvars>> /\ IP!Inv' /\ CodeSeen'
  <2>1. /\ Fetched(Branches) /\ UNCHANGED <<reg, halt, dvars>>
        /\ PC' = IF (reg[Here.rs] = reg[Here.rt]) <=> (Here.op = "BEQ")
                 THEN (PC + 1 + SignC(Here)) % WordSize ELSE PC + 1
    BY DEF Branch
  <2>2. Ready /\ Here = Instruction /\ i.op \in Branches /\ IP!Inv' /\ CodeSeen'
    BY <2>1, TurnIs
  <2> QED BY <2>1, <2>2
<1>2. t \in Nat /\ Due(Code, t) = Due(Code, Target(PC, i)) /\ PC + 1 \in Nat
  BY <1>1, BranchTarget DEF Ready, ProcessorOK
<1> HIDE DEF t
<1>3. ProcessorOK' /\ Data' = Data
  <2>1. PC' \in Nat
    BY <1>1, <1>2
  <2>2. reg' \in [Reg -> Word] /\ reg'[0] = 0 /\ halt' \in BOOLEAN
    BY <1>1 DEF Ready, ProcessorOK
  <2> QED BY <1>1, <2>1, <2>2, QuietTurn
<1>4. ~halt' /\ Due(Code, PC') = Due(Code, q)
  BY <1>1, <1>2 DEF Ready
<1>5. i # NOP
  BY <1>1, Classes
<1>6. Machine!GoTo(q) /\ Pc = PC
  BY <1>1, <1>4, <1>5, MachineGoes, PcIs
<1>7. Machine!Here = i /\ \A ops : Machine!Running(ops) <=> i.op \in ops
  BY <1>1, <1>5, MachineRuns
<1>8. Machine!Target(PC, i) = Target(PC, i)
  BY SameTarget
<1>9. Machine!Branch
  BY <1>1, <1>3, <1>6, <1>7, <1>8, SameClasses DEF Machine!Branch, Pc, Data
<1> QED BY <1>3, <1>9 DEF GoodStep, Machine!Next

\* J, JAL and JR.
LEMMA JumpSteps ==
  ASSUME ProcessorOK, Jump
  PROVE  GoodStep
<1> DEFINE i == Instruction
           link == ShiftLeft(PC + 1, 2)
           p == IF i.op = "JR" THEN reg[i.rs] \div 4 ELSE i.imm
<1>1. /\ Ready /\ i.op \in {"J", "JAL", "JR"} /\ PC' = p
      /\ IF i.op = "JAL" THEN Set(31, link) ELSE UNCHANGED reg
      /\ UNCHANGED <<halt, dvars>> /\ IP!Inv' /\ CodeSeen'
  <2>1. /\ Fetched({"J", "JAL", "JR"}) /\ UNCHANGED <<halt, dvars>>
        /\ PC' = IF Here.op = "JR" THEN reg[Here.rs] \div 4 ELSE Here.imm
        /\ IF Here.op = "JAL" THEN Set(31, link) ELSE UNCHANGED reg
    BY DEF Jump
  <2>2. /\ Ready /\ Here = Instruction /\ i.op \in {"J", "JAL", "JR"}
        /\ IP!Inv' /\ CodeSeen'
    BY <2>1, TurnIs
  <2> QED BY <2>1, <2>2
<1>2. p \in Nat /\ PC \in Nat
  <2>1. reg[i.rs] \in Nat /\ i.imm \in Nat
    BY <1>1, InstructionIs, Sizes DEF Word
  <2> QED BY <1>1, <2>1 DEF Ready, ProcessorOK
<1>3. link = (4 * (PC + 1)) % WordSize /\ link \in Word
  <2>1. 2 ^ 2 = 4
    OBVIOUS
  <2>2. (PC + 1) * 4 = 4 * (PC + 1) /\ 4 * (PC + 1) \in Int
    BY <1>2
  <2>3. link = ((PC + 1) * 4) % WordSize
    BY <2>1 DEF ShiftLeft
  <2> QED BY <2>2, <2>3, Inside
<1> HIDE DEF link, p
<1>4. reg' \in [Reg -> Word] /\ reg'[0] = 0
  <2>1. CASE i.op = "JAL"
    BY <1>1, <1>3, <2>1, RegAssumption, SetTyped
  <2>2. CASE i.op # "JAL"
    BY <1>1, <2>2 DEF Ready, ProcessorOK
  <2> QED BY <2>1, <2>2
<1>5. ~halt' /\ halt' \in BOOLEAN /\ Due(Code, PC') = Due(Code, p)
  BY <1>1 DEF Ready, ProcessorOK
<1>6. ProcessorOK' /\ Data' = Data
  BY <1>1, <1>2, <1>4, <1>5, QuietTurn
<1>7. i # NOP
  BY <1>1, Classes
<1>8. Machine!GoTo(p) /\ Pc = PC
  BY <1>1, <1>5, <1>7, MachineGoes, PcIs
<1>9. Machine!Here = i /\ \A ops : Machine!Running(ops) <=> i.op \in ops
  BY <1>1, <1>7, MachineRuns
<1>10. i.op = "JAL" => Machine!Set(31, (4 * (PC + 1)) % Machine!WordSize)
  BY <1>1, <1>3, SameSizes DEF Machine!Set, Set
<1>11. Machine!Jump
  BY <1>1, <1>6, <1>8, <1>9, <1>10 DEF Machine!Jump, Pc, Data, p
<1> QED BY <1>6, <1>11 DEF GoodStep, Machine!Next

\* HALT.
LEMMA HaltSteps ==
  ASSUME ProcessorOK, Halt
  PROVE  GoodStep
<1> DEFINE i == Instruction
<1>1. /\ Ready /\ i.op = "HALT" /\ PC' = PC + 1 /\ halt' = TRUE
      /\ UNCHANGED <<reg, dvars>> /\ IP!Inv' /\ CodeSeen'
  <2>1. Fetched({"HALT"}) /\ PC' = PC + 1 /\ halt' = TRUE /\ UNCHANGED <<reg, dvars>>
    BY DEF Halt
  <2>2. Ready /\ i.op \in {"HALT"} /\ IP!Inv' /\ CodeSeen'
    BY <2>1, TurnIs
  <2> QED BY <2>1, <2>2
<1>2. ProcessorOK' /\ Data' = Data
  <2>1. /\ PC' \in Nat /\ reg' \in [Reg -> Word] /\ reg'[0] = 0 /\ halt' \in BOOLEAN
        /\ UNCHANGED dvars
    BY <1>1 DEF Ready, ProcessorOK
  <2> QED BY <1>1, <2>1, QuietTurn
<1>3. i # NOP
  BY <1>1, Classes
<1>4. \A ops : Machine!Running(ops) <=> i.op \in ops
  BY <1>1, <1>3, MachineRuns
<1>5. Machine!Halt
  BY <1>1, <1>2, <1>4, SameSizes DEF Machine!Halt, Data, Code
<1> QED BY <1>2, <1>5 DEF GoodStep, Machine!Next

\* A stutter.
LEMMA Stutters ==
  ASSUME ProcessorOK, UNCHANGED vars
  PROVE  GoodStep
<1>1. ProcessorOK'
  BY DEF vars, dvars, ProcessorOK, IP!Inv, DP!Inv, CodeSeen
<1>2. UNCHANGED Machine!vars
  BY DEF vars, dvars, Machine!vars, Code
<1> QED BY <1>1, <1>2 DEF GoodStep

\* Every turn.
LEMMA NextSteps ==
  ASSUME ProcessorOK, [Next]_vars
  PROVE  GoodStep
BY RegisterArithSteps, ImmediateArithSteps, LoadSteps, StoreSteps, BranchSteps,
   JumpSteps, HaltSteps, Stutters DEF Next, Ended

\* The disks are loaded, nothing is in memory, and the machine stands at its first
\* instruction.
LEMMA Starting ==
  ASSUME Init
  PROVE  ProcessorOK /\ Machine!Init
<1>1. /\ PC \in Address /\ reg \in [Reg -> Word] /\ reg[0] = 0 /\ halt = FALSE
  <2>1. PICK start \in Starts :
          PC = start[1] /\ reg = [r \in Reg |-> IF r = 29 THEN start[2] ELSE 0]
    BY DEF Init
  <2>2. start[1] \in Address /\ start[2] \in Word
    BY ImageAssumption
  <2>3. 0 \in Word
    BY Inside
  <2> QED BY <2>1, <2>2, <2>3, RegAssumption DEF Init
<1>2. IP!Init /\ DP!Init /\ iside = IP!InitSide(IImage)
  BY SidesStart DEF IP!Init
<1>3. IP!Inv /\ DP!Inv
  BY <1>2, ISizes, DSizes, ZeroByte, IProgram, DProgram, IP!Starts, DP!Starts
<1>4. CodeSeen
  <2>1. IImage \in [IP!Page -> [IP!PageWord -> IP!Word]]
    BY IProgram DEF IP!FetchAssumption
  <2>2. \A v \in IP!Page, o \in IP!PageWord : IP!WordSeen(iside, v, o) = IImage[v][o]
    BY <1>2, <2>1, ISizes, ZeroByte, IProgram, IP!InitOK
  <2> QED BY <2>2 DEF CodeSeen, IP!Page, IP!PageWord
<1>5. ProcessorOK
  <2>1. PC \in Nat
    BY <1>1, GeometryAssumption DEF Address
  <2>2. halt \in BOOLEAN
    BY <1>1
  <2> QED BY <1>1, <1>3, <1>4, <2>1, <2>2 DEF ProcessorOK
<1>6. Machine!Init
  <2>1. Machine!Address = Address /\ Machine!DataWord = Address
    BY DEF Machine!Address, Machine!DataWord, Address
  <2>2. Code \in [Address -> Machine!Instr]
    BY CodeTyped, SameInstr
  <2>3. Data \in [Address -> Machine!Word]
    <3>1. \A w \in Address : Data[w] \in Word
      BY <1>3, SeenWord
    <3> QED BY <3>1, SameSizes DEF Data
  <2>4. \E start \in Address : Pc = Machine!Due(Code, start)
    BY <1>1, SameDue DEF Pc
  <2> QED BY <1>1, <2>1, <2>2, <2>3, <2>4, SameSizes DEF Machine!Init, Pc, Data
<1> QED BY <1>5, <1>6
-----------------------------------------------------------------------------
(* Theorems.                                                               *)

\* Registers hold words, $0 holds zero, and every field of the tables, frames and
\* caches of both sides stays in its range, whatever program runs.
THEOREM ProcessorTyped == Spec => []TypeOK
<1>1. Init => ProcessorOK
  BY Starting
<1>2. ProcessorOK /\ [Next]_vars => ProcessorOK'
  BY NextSteps DEF GoodStep
<1>3. ProcessorOK => TypeOK
  BY SidesTyped DEF ProcessorOK, TypeOK
<1> QED BY <1>1, <1>2, <1>3, PTL DEF Spec

\* The processor on the memory hierarchy is the machine of the instruction set:
\* each turn executes the instruction at PC on the registers and on one memory of
\* words, through whatever pages, blocks, translations, evictions and write-backs
\* its accesses go, with the byte lanes and masks of its loads and stores; for all
\* geometries of both sides, images, programs and widths.
THEOREM RefinesISA == Spec => ImplementsISA
<1>1. Init => ProcessorOK /\ Machine!Init
  BY Starting
<1>2. ProcessorOK /\ [Next]_vars => ProcessorOK' /\ [Machine!Next]_(Machine!vars)
  BY NextSteps DEF GoodStep
<1> QED BY <1>1, <1>2, PTL DEF Spec, ImplementsISA, Machine!Spec
=============================================================================
