--------------------------- MODULE IMemoryProofs ----------------------------
(***************************************************************************)
(* The guarantees of IMemory for every geometry, image and set of program  *)
(* counters whose fills are aligned (AlignedFills).  The stages are shared *)
(* with the data side; what is particular to this side is that no dirty    *)
(* flag is ever set, so that nothing is ever written back.                 *)
(***************************************************************************)
EXTENDS IMemory, CacheProofs

\* Nothing to write back.
Pristine(s) ==
  /\ \A f \in Frame : ~s.mem[f].dirty
  /\ \A c \in SetIndex, y \in Way : ~s.cache[c][y].dirty

Inv ==
  /\ SideOK(side)
  /\ Pristine(side)
  /\ side.disk = Image
  /\ instr \in Word
  /\ counted \subseteq {"TLB_hit", "TLB_miss", "PT_hit", "PT_miss",
                        "cache_hit", "cache_miss"}

\* The program counters are addresses.
LEMMA FetchTyped ==
  ASSUME AlignedFills, NEW a \in Fetches
  PROVE  a.page \in Page /\ a.off \in Offset /\ Aligned(a.off)
<1>1. a.page \in Page /\ \E o \in PageWord : a.off = 4 * o
  BY FetchAssumption
<1>2. a.off \in Offset
  BY <1>1, SizesAssumption DEF PageWord, Offset
<1> QED BY <1>1, <1>2 DEF AlignedFills

\* A flush of a side that holds nothing dirty copies nothing.
LEMMA PristineFlush ==
  ASSUME NEW s, Core(s), Pristine(s), NEW f \in Frame
  PROVE  LET t == Flush(s, f) IN t \in Side /\ t.disk = s.disk /\ Pristine(t)
<1> DEFINE t == Flush(s, f)
<1>1. CASE ~s.mem[f].valid
  BY <1>1 DEF Flush, Core
<1>2. CASE s.mem[f].valid
  <2>1. \A o \in PageWord : DirtyHits(s, f, o) = {}
    <3>1. SUFFICES ASSUME NEW o \in PageWord, NEW y \in DirtyHits(s, f, o) PROVE FALSE
      OBVIOUS
    <3>2. y \in Way /\ s.cache[Index(f, o)][y].dirty
      BY <3>1 DEF DirtyHits, Hits
    <3>3. Index(f, o) \in SetIndex
      BY <3>1, BlockTyped
    <3> QED BY <3>2, <3>3 DEF Pristine
  <2>2. /\ t \in Side
        /\ t.disk = s.disk /\ t.queue = s.queue /\ t.PT = s.PT /\ t.TLB = s.TLB
        /\ \A g \in Frame \ {f} : t.mem[g] = s.mem[g]
        /\ t.mem[f].valid /\ t.mem[f].va = s.mem[f].va
        /\ t.mem[f].data = [o \in PageWord |-> Newest(s, f, o)]
        /\ t.mem[f].dirty = (s.mem[f].dirty \/ \E o \in PageWord : DirtyHits(s, f, o) # {})
        /\ \A c \in SetIndex, y \in Way :
             t.cache[c][y] = IF Caches(s, c, y, f) THEN Emptied(s.cache[c][y])
                             ELSE s.cache[c][y]
    BY <1>2, FlushParts
  <2> HIDE DEF t
  <2>3. \A g \in Frame : ~t.mem[g].dirty
    <3>1. ~t.mem[f].dirty
      BY <2>1, <2>2 DEF Pristine
    <3> QED BY <2>2, <3>1 DEF Pristine
  <2>4. \A c \in SetIndex, y \in Way : ~t.cache[c][y].dirty
    <3>1. TAKE c \in SetIndex, y \in Way
    <3>2. s.cache[c][y] \in Line
      BY LineTyped DEF Core
    <3> QED BY <2>2, <3>2, EmptiedLine DEF Pristine
  <2> QED BY <2>2, <2>3, <2>4 DEF Pristine, t
<1> QED BY <1>1, <1>2

\* A side that holds nothing dirty faults without a write to the disk.
LEMMA PristineFault ==
  ASSUME NEW s, Core(s), Pristine(s), NEW v \in Page
  PROVE  Pristine(PageFault(s, v)) /\ PageFault(s, v).disk = s.disk
<1> DEFINE f == s.queue[0]
           a == Touch(s, f)
           b == Flush(a, f)
           u == Unmap(b, f)
           t == LoadPage(u, f, v)
<1>0. s \in Side
  BY DEF Core
<1>1. f \in Frame
  BY <1>0, SizesAssumption DEF Side, Frame
<1>2. Core(a) /\ a.disk = s.disk /\ Pristine(a)
  <2>1. a.disk = s.disk /\ a.mem = s.mem /\ a.cache = s.cache
    BY <1>0 DEF Touch, Side
  <2> QED BY <1>1, <2>1, TouchCore DEF Pristine
<1> HIDE DEF a, f
<1>3. b \in Side /\ b.disk = s.disk /\ Pristine(b)
  BY <1>1, <1>2, PristineFlush
<1> HIDE DEF b
<1>4. Save(b, f) = b
  BY <1>1, <1>3 DEF Save, Pristine
<1>5. u.mem = b.mem /\ u.cache = b.cache /\ u.disk = b.disk
  BY <1>3 DEF Unmap, Side
<1>6. t.cache = b.cache /\ t.disk = b.disk
      /\ t.mem = [b.mem EXCEPT ![f] = [@ EXCEPT !.valid = TRUE, !.va = v, !.data = u.disk[v]]]
  BY <1>5 DEF LoadPage
<1>7. Pristine(t)
  <2>1. \A g \in Frame : ~t.mem[g].dirty
    <3>1. b.mem \in [Frame -> MemPage]
      BY <1>3 DEF Side
    <3>2. t.mem[f].dirty = b.mem[f].dirty
      BY <1>1, <1>6, <3>1 DEF MemPage
    <3>3. \A g \in Frame \ {f} : t.mem[g] = b.mem[g]
      BY <1>6, <3>1
    <3> QED BY <1>1, <1>3, <3>2, <3>3 DEF Pristine
  <2> QED BY <1>3, <1>6, <2>1 DEF Pristine
<1>8. PageFault(s, v) = t
  BY <1>4 DEF PageFault, t, u, b, a, f
<1> QED BY <1>3, <1>6, <1>7, <1>8

\* Translation dirties nothing either.
LEMMA PristineTranslate ==
  ASSUME NEW s, SideOK(s), Pristine(s), NEW v \in Page
  PROVE  Pristine(Translate(s, v)) /\ Translate(s, v).disk = s.disk
<1> DEFINE p == IF s.PT[v].valid THEN s ELSE PageFault(s, v)
<1>1. Pristine(p) /\ p.disk = s.disk
  BY PristineFault DEF SideOK
<1> HIDE DEF p
<1>2. CASE TLBHits(s, v) # {}
  BY <1>2 DEF Translate
<1>3. CASE TLBHits(s, v) = {}
  <2>1. Translate(s, v) = TLBFill(p, v)
    BY <1>3 DEF Translate, p
  <2>2. /\ TLBFill(p, v).disk = p.disk /\ TLBFill(p, v).mem = p.mem
        /\ TLBFill(p, v).cache = p.cache
    <3>1. CASE s.PT[v].valid
      BY <3>1 DEF TLBFill, p, SideOK, Core, Side
    <3>2. CASE ~s.PT[v].valid
      <4>1. Core(p)
        BY <3>2, PageFaultCore DEF p, SideOK
      <4> QED BY <4>1 DEF TLBFill, Core, Side
    <3> QED BY <3>1, <3>2
  <2> QED BY <1>1, <2>1, <2>2 DEF Pristine
<1> QED BY <1>2, <1>3

\* A read dirties nothing, and leaves the block it read in the cache.
LEMMA PristineRead ==
  ASSUME NEW s, NEW a, a.page \in Page, a.off \in Offset, Ready(s, a.page), Pristine(s)
  PROVE  LET t == CacheRead(s, a) IN
         /\ Pristine(t)
         /\ TLBHits(t, a.page) # {} /\ FrameOf(t, a.page) = FrameOf(s, a.page)
         /\ Hits(t, FrameOf(t, a.page), a.off \div 4) # {}
<1> DEFINE w == a.off \div 4
           f == s.PT[a.page].page
           c == Index(f, w)
           y == VictimWay(s, c)
           A == Age(s, c)
           I == Install(A, f, f, a, c, y)
           t == CacheRead(s, a)
<1>1. Core(s) /\ s \in Side /\ CacheRotates(s) /\ TLBHits(s, a.page) # {}
  BY DEF Ready, SideOK, Core
<1>2. FrameOf(s, a.page) = f /\ f \in Frame
  BY <1>1, TLBHitFrame
<1>3. w \in PageWord /\ c \in SetIndex
  BY <1>2, AddressTyped, BlockTyped
<1>4. y \in Way
  BY <1>1, <1>3, VictimIsWay
<1>5. SUFFICES Pristine(t) /\ t.TLB = s.TLB /\ Hits(t, f, w) # {}
  BY <1>1, <1>2 DEF TLBHits, FrameOf
<1>6. CASE Hits(s, f, w) # {}
  <2>1. PICK g : t = Touch(s, g)
    BY <1>2, <1>6 DEF CacheRead
  <2>2. t.TLB = s.TLB /\ t.mem = s.mem /\ t.cache = s.cache
    BY <1>1, <2>1 DEF Touch, Side
  <2> QED BY <1>6, <2>2 DEF Pristine, Hits
<1>7. CASE Hits(s, f, w) = {}
  <2> HIDE DEF w, c, y
  <2>1. A \in Side /\ A.TLB = s.TLB /\ A.mem = s.mem /\ Pristine(A)
    <3>1. Core(A) /\ A.mem = s.mem /\ A.TLB = s.TLB
      BY <1>1, <1>3, AgeCore
    <3>2. \A d \in SetIndex, z \in Way : A.cache[d][z].dirty = s.cache[d][z].dirty
      <4>1. TAKE d \in SetIndex, z \in Way
      <4>2. s.cache[d][z] \in Line /\ s.cache \in [SetIndex -> [Way -> Line]]
        BY <1>1 DEF Side
      <4>3. A.cache = [s.cache EXCEPT ![c] =
                         [x \in Way |-> [s.cache[c][x] EXCEPT !.ref = @ + 1]]]
        BY <1>1 DEF Age, Side
      <4> HIDE DEF A
      <4>4. A.cache[d][z] = s.cache[d][z] \/ A.cache[d][z] = [s.cache[d][z] EXCEPT !.ref = @ + 1]
        BY <1>3, <4>2, <4>3
      <4> QED BY <4>2, <4>4 DEF Line
    <3> QED BY <3>1, <3>2 DEF Core, Pristine
  <2> HIDE DEF A
  <2>2. WriteBack(A, c, y) = A
    BY <1>3, <1>4, <2>1 DEF WriteBack, Pristine
  <2>3. t = Touch(I, f)
    BY <1>2, <1>7, <2>2 DEF CacheRead, c, w, y, A
  <2>4. /\ t.TLB = s.TLB /\ t.mem = s.mem
        /\ t.cache[c][y].valid /\ t.cache[c][y].tag = Tag(f, w)
        /\ t.cache[c][y].dirty = A.cache[c][y].dirty
        /\ \A d \in SetIndex, z \in Way :
             d # c \/ z # y => t.cache[d][z] = A.cache[d][z]
    <3> DEFINE n == [valid |-> TRUE, dirty |-> A.cache[c][y].dirty, ref |-> 0,
                     va |-> a.page, tag |-> Tag(f, a.off \div 4), frame |-> f,
                     start |-> BlockStart(a.off),
                     data |-> [k \in BlockWord |-> A.mem[f].data[StartWord(a.off) + k]]]
    <3>1. n.valid /\ n.tag = Tag(f, w) /\ n.dirty = A.cache[c][y].dirty
      BY DEF w
    <3>2. I = [A EXCEPT !.cache[c][y] = n]
      BY DEF Install
    <3> HIDE DEF n
    <3>3. t.TLB = A.TLB /\ t.mem = A.mem /\ t.cache = [A.cache EXCEPT ![c][y] = n]
      BY <2>1, <2>3, <3>2 DEF Touch, Side
    <3>4. A.cache \in [SetIndex -> [Way -> Line]]
      BY <2>1 DEF Side
    <3> QED BY <1>3, <1>4, <2>1, <3>1, <3>3, <3>4
  <2>5. Pristine(t)
    BY <2>1, <2>4 DEF Pristine
  <2>6. y \in Hits(t, f, w)
    BY <1>4, <2>4 DEF Hits, c
  <2> QED BY <2>4, <2>5, <2>6
<1> QED BY <1>6, <1>7
-----------------------------------------------------------------------------
\* A fetch keeps the invariant, returns what the program sees, changes none
\* of it, and leaves its page in the TLB and its block in the cache.
LEMMA FetchStep ==
  ASSUME AlignedFills, Inv, NEW a \in Fetches, Fetch(a)
  PROVE  /\ Inv' /\ SameWords(side, side')
         /\ instr' = WordSeen(side, a.page, a.off \div 4)
         /\ TLBHits(side', a.page) # {}
         /\ Hits(side', FrameOf(side', a.page), a.off \div 4) # {}
<1> DEFINE t == Translate(side, a.page)
           u == CacheRead(t, a)
<1>1. a.page \in Page /\ a.off \in Offset /\ Aligned(a.off)
  BY FetchTyped
<1>2. SideOK(t) /\ SameWords(side, t) /\ TLBHits(t, a.page) # {}
  BY <1>1, TranslateOK DEF Inv
<1>3. Pristine(t) /\ t.disk = Image
  BY <1>1, PristineTranslate DEF Inv
<1> HIDE DEF t
<1>4. Ready(t, a.page)
  BY <1>2 DEF Ready
<1>5. SideOK(u) /\ SameWords(t, u) /\ u.disk = t.disk
  BY <1>1, <1>4, CacheReadOK
<1>6. /\ Pristine(u) /\ TLBHits(u, a.page) # {}
      /\ Hits(u, FrameOf(u, a.page), a.off \div 4) # {}
  BY <1>1, <1>3, <1>4, PristineRead
<1>7. side' = u /\ instr' = WordRead(side, a) /\ counted' = Counted(side, a)
  BY DEF Fetch, t
<1> HIDE DEF u
<1>8. instr' = WordSeen(side, a.page, a.off \div 4)
  BY <1>1, <1>7, WordReadOK DEF Inv
<1>9. instr' \in Word
  <2>1. a.off \div 4 \in PageWord
    BY <1>1, AddressTyped
  <2> QED BY <1>1, <1>8, <2>1, SeenTyped DEF Inv, SideOK
<1>10. counted' \subseteq {"TLB_hit", "TLB_miss", "PT_hit", "PT_miss",
                           "cache_hit", "cache_miss"}
  BY <1>7 DEF Counted
<1>11. SameWords(side, side')
  BY <1>2, <1>5, <1>7 DEF SameWords
<1> QED BY <1>3, <1>5, <1>6, <1>7, <1>8, <1>9, <1>10, <1>11 DEF Inv

\* The loaded disk, with memory and cache empty, is in order and holds nothing dirty.
LEMMA Starts ==
  ASSUME AlignedFills, Init
  PROVE  Inv
<1>1. SideOK(side)
  BY InitOK, FetchAssumption DEF Init
<1>2. Pristine(side) /\ side.disk = Image
  BY DEF Init, InitSide, Pristine
<1>3. instr \in Word /\ counted = {}
  BY ByteAssumption DEF Init, ZeroWord, Word
<1> QED BY <1>1, <1>2, <1>3 DEF Inv

\* The inductive invariant: the side is in order and holds nothing dirty.
THEOREM Invariance ==
  ASSUME AlignedFills
  PROVE  Spec => []Inv
<1>1. Init => Inv
  BY Starts
<1>2. Inv /\ [Next]_vars => Inv'
  <2>1. SUFFICES ASSUME Inv, [Next]_vars PROVE Inv'
    OBVIOUS
  <2>2. ASSUME NEW a \in Fetches, Fetch(a) PROVE Inv'
    BY <2>1, <2>2, FetchStep
  <2>3. CASE UNCHANGED vars
    BY <2>1, <2>3 DEF vars, Inv
  <2> QED BY <2>1, <2>2, <2>3 DEF Next
<1> QED BY <1>1, <1>2, PTL DEF Spec

\* Every field of the instruction side stays in its range.
THEOREM TypeCorrect ==
  ASSUME AlignedFills
  PROVE  Spec => []TypeOK
<1>1. Inv => TypeOK
  BY DEF Inv, TypeOK, SideOK, Core
<1> QED BY <1>1, Invariance, PTL

\* No page in memory and no block in the cache differs from the loaded image,
\* so the evictions of read_Imemory lose nothing.
THEOREM OnlyCopies ==
  ASSUME AlignedFills
  PROVE  Spec => []CopiesOfImage
<1>1. ASSUME Inv PROVE CopiesOfImage
  <2>1. side \in Side /\ Current(side) /\ CleanOnDisk(side) /\ Pristine(side)
        /\ side.disk = Image
    BY <1>1 DEF Inv, SideOK, Core
  <2>2. \A f \in Frame : side.mem[f].valid => side.mem[f].data = Image[side.mem[f].va]
    BY <2>1 DEF CleanOnDisk, Pristine
  <2>3. ASSUME NEW c \in SetIndex, NEW y \in Way, side.cache[c][y].valid,
               NEW k \in BlockWord
        PROVE  side.cache[c][y].data[k]
                 = Image[side.cache[c][y].va][FirstWord(side.cache[c][y]) + k]
    <3> DEFINE l == side.cache[c][y]
    <3>1. /\ side.mem[l.frame].valid /\ side.mem[l.frame].va = l.va
          /\ l.data[k] = side.mem[l.frame].data[FirstWord(l) + k]
      BY <2>1, <2>3 DEF Current, LineCurrent, Pristine
    <3>2. l.frame \in Frame
      BY <2>1, LineTyped DEF Line
    <3> QED BY <2>2, <3>1, <3>2
  <2> QED BY <2>1, <2>2, <2>3 DEF CopiesOfImage, Pristine
<1> QED BY <1>1, Invariance, PTL

\* Fetching the same address twice in a row misses once.
THEOREM SecondFetchHits ==
  ASSUME AlignedFills
  PROVE  Spec => FetchAgainHits
<1>1. ASSUME Inv, NEW a \in Fetches, Fetch(a)
      PROVE  Counted(side', a) = {"TLB_hit", "cache_hit"}
  <2>1. /\ TLBHits(side', a.page) # {}
        /\ Hits(side', FrameOf(side', a.page), a.off \div 4) # {}
    BY <1>1, FetchStep
  <2>2. Translate(side', a.page) = side'
    BY <2>1 DEF Translate
  <2> QED BY <2>1, <2>2 DEF Counted
<1>2. Inv /\ [Next]_vars =>
        [\A a \in Fetches : Fetch(a) => Counted(side', a) = {"TLB_hit", "cache_hit"}]_vars
  BY <1>1
<1> QED BY <1>2, Invariance, PTL DEF Spec, FetchAgainHits

\* Whatever TLB, page table, frames and cache hold, fetches read the image.
THEOREM ServesTheImage ==
  ASSUME AlignedFills
  PROVE  Spec => FetchesImage
<1>1. Init => Flat!Init
  <2>1. SUFFICES ASSUME Init PROVE Flat!Init
    OBVIOUS
  <2>2. \A v \in Page, o \in PageWord : WordSeen(side, v, o) = Image[v][o]
    BY <2>1, InitOK, FetchAssumption DEF Init
  <2>3. \A v \in Page, o \in Offset : Bytes(side)[v][o] = Image[v][o \div 4][o % 4]
    BY <2>2, BytesAt
  <2>4. Bytes(side) = [v \in Page |-> [o \in Offset |-> Bytes(side)[v][o]]]
    BY DEF Bytes
  <2>5. Bytes(side) = [v \in Page |-> [o \in Offset |-> Image[v][o \div 4][o % 4]]]
    BY <2>3, <2>4
  <2>6. instr = [k \in 0 .. 3 |-> 0]
    BY <2>1 DEF Init, ZeroWord, Lane
  <2> QED BY <2>5, <2>6 DEF Flat!Init
<1>2. ASSUME Inv, NEW a \in Fetches, Fetch(a) PROVE Flat!Load(a)
  <2> DEFINE w == a.off \div 4
             B == Bytes(side)
  <2>1. /\ SameWords(side, side') /\ instr' = WordSeen(side, a.page, w)
        /\ a.page \in Page /\ w \in PageWord /\ instr' \in Word
    BY <1>2, FetchStep, FetchTyped, AddressTyped DEF Inv
  <2>2. B' = B
    <3>1. \A v \in Page : [o \in PageWord |-> WordSeen(side', v, o)]
                            = [o \in PageWord |-> WordSeen(side, v, o)]
      BY <2>1 DEF SameWords
    <3> QED BY <3>1 DEF Bytes
  <2>3. \A k \in Lane : B[a.page][4 * w + k] = instr'[k]
    <3>1. TAKE k \in Lane
    <3>2. 4 * w + k \in Offset /\ (4 * w + k) \div 4 = w /\ (4 * w + k) % 4 = k
      <4> HIDE DEF w
      <4> QED BY <2>1, WordBytes
    <3>3. B[a.page][4 * w + k] = WordSeen(side, a.page, (4 * w + k) \div 4)[(4 * w + k) % 4]
      BY <2>1, <3>2, BytesAt
    <3> QED BY <2>1, <3>2, <3>3
  <2>4. instr' = [k \in Lane |-> instr'[k]]
    BY <2>1 DEF Word
  <2> HIDE DEF B, w
  <2>5. instr' = [k \in 0 .. 3 |-> B[a.page][4 * w + k]]
    BY <2>3, <2>4 DEF Lane
  <2> QED BY <2>2, <2>5 DEF Flat!Load, Flat!WordAt, B, w
<1>3. Inv /\ [Next]_vars => [Flat!Next]_(Flat!vars)
  <2>1. SUFFICES ASSUME Inv, [Next]_vars PROVE [Flat!Next]_(Flat!vars)
    OBVIOUS
  <2>2. CASE \E a \in Fetches : Fetch(a)
    BY <1>2, <2>1, <2>2 DEF Flat!Next
  <2>3. CASE UNCHANGED vars
    BY <2>3 DEF vars, Flat!vars, Bytes
  <2> QED BY <2>1, <2>2, <2>3 DEF Next
<1>4. Inv /\ [Next]_vars => [\A a \in Fetches : Fetch(a) => Flat!Load(a)]_vars
  BY <1>2
<1> QED BY <1>1, <1>3, <1>4, Invariance, PTL DEF Spec, FetchesImage, Flat!Spec
-----------------------------------------------------------------------------
(* Paging.                                                                 *)

\* A fetch leaves the queue in order and is a step of LRU paging.
LEMMA PagingStep ==
  ASSUME AlignedFills, Inv, QueueOK(side), NEW a \in Fetches, Fetch(a)
  PROVE  QueueOK(side') /\ LRUStep(side, side', a.page)
BY FetchTyped, ReadPages DEF Inv, Fetch

\* i_memQ keeps every frame once and the free ones ahead.
THEOREM QueueInOrder ==
  ASSUME AlignedFills
  PROVE  Spec => []FramesInOrder
<1>1. Init => FramesInOrder
  BY InitQueue DEF Init, FramesInOrder
<1>2. Inv /\ FramesInOrder /\ [Next]_vars => FramesInOrder'
  <2>1. SUFFICES ASSUME Inv, QueueOK(side), [Next]_vars PROVE QueueOK(side')
    BY DEF FramesInOrder
  <2>2. CASE Next
    BY <2>1, <2>2, PagingStep DEF Next
  <2>3. CASE UNCHANGED vars
    BY <2>1, <2>3 DEF vars
  <2> QED BY <2>1, <2>2, <2>3
<1> QED BY <1>1, <1>2, Invariance, PTL DEF Spec

\* What LRUStep says of the sides is an access of LRUPaging.
LEMMA StepIsAccess ==
  ASSUME Core(side), NEW v, LRUStep(side, side', v)
  PROVE  Paging!Access(v)
<1>1. Paging!Frame = Frame
  BY DEF Paging!Frame, Frame
<1>2. Paging!InMemory = Resident(side)
  BY <1>1, ResidentPages DEF Paging!InMemory, Paging!Free
<1>3. Held(side)' = Held(side') /\ Older(side)' = Older(side')
  BY DEF Held, Older
<1>4. \A stay : Paging!Last(v, stay) = UsedLast(side, v, stay)
  BY DEF Paging!Last, UsedLast
<1>5. CASE /\ v \in Resident(side)
           /\ Held(side') = Held(side)
           /\ Older(side') = UsedLast(side, v, Resident(side) \ {v})
  BY <1>2, <1>3, <1>4, <1>5 DEF Paging!Access, Paging!Use
<1>6. CASE /\ v \notin Resident(side)
           /\ \E f \in Frame : /\ Held(side)[f] = DiskPages
                               /\ \A g \in Frame : Held(side)[g] = DiskPages => f <= g
                               /\ Held(side') = [Held(side) EXCEPT ![f] = v]
           /\ Older(side') = UsedLast(side, v, Resident(side))
  BY <1>1, <1>2, <1>3, <1>4, <1>6 DEF Paging!Access, Paging!Place, Paging!Free
<1>7. CASE /\ v \notin Resident(side)
           /\ \A g \in Frame : Held(side)[g] # DiskPages
           /\ \E f \in Frame :
                /\ \A g \in Frame \ {f} : <<Held(side)[f], Held(side)[g]>> \in Older(side)
                /\ Held(side') = [Held(side) EXCEPT ![f] = v]
                /\ Older(side') = UsedLast(side, v, Resident(side) \ {Held(side)[f]})
  BY <1>1, <1>2, <1>3, <1>4, <1>7 DEF Paging!Access, Paging!Replace, Paging!Free
<1> QED BY <1>5, <1>6, <1>7 DEF LRUStep

\* Whatever the TLB and the cache answer, a fault takes the lowest free frame or
\* the one of the page fetched from least recently.
THEOREM ReplacesLeastRecentlyUsed ==
  ASSUME AlignedFills
  PROVE  Spec => FetchesPageLRU
<1>1. Init => Paging!Init
  BY InitQueue DEF Init, Paging!Init, Paging!Frame, Frame
<1>2. Inv /\ FramesInOrder /\ [Next]_vars =>
        [\A a \in Fetches : Fetch(a) => Paging!Access(a.page)]_vars
  BY PagingStep, StepIsAccess DEF Inv, SideOK, FramesInOrder
<1>3. Inv /\ FramesInOrder /\ [Next]_vars => [Paging!Next]_(Paging!vars)
  <2>1. SUFFICES ASSUME Inv, FramesInOrder, [Next]_vars PROVE [Paging!Next]_(Paging!vars)
    OBVIOUS
  <2>2. CASE Next
    BY <2>1, <2>2, FetchTyped, PagingStep, StepIsAccess
       DEF Next, Paging!Next, Inv, SideOK, FramesInOrder
  <2>3. CASE UNCHANGED vars
    BY <2>3 DEF vars, Paging!vars
  <2> QED BY <2>1, <2>2, <2>3
<1> QED BY <1>1, <1>2, <1>3, Invariance, QueueInOrder, PTL
        DEF Spec, FetchesPageLRU, Paging!Spec
=============================================================================
