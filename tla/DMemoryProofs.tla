--------------------------- MODULE DMemoryProofs ----------------------------
(***************************************************************************)
(* The guarantees of DMemory for every geometry, image and program whose   *)
(* fills are aligned (AlignedFills), in particular for every geometry with *)
(* blocks of one word, the default of proj3/main.c.                        *)
(***************************************************************************)
EXTENDS DMemory, CacheProofs

Inv ==
  /\ SideOK(side)
  /\ data \in Word
  /\ counted \subseteq {"TLB_hit", "TLB_miss", "PT_hit", "PT_miss",
                        "cache_hit", "cache_miss"}

\* What the program may issue is an address, and a store a word.
LEMMA Accesses ==
  ASSUME AlignedFills
  PROVE  /\ \A a \in Loads : a.page \in Page /\ a.off \in Offset /\ Aligned(a.off)
         /\ \A a \in Stores : IsStore(a) /\ Aligned(a.off)
<1>1. \A a \in Loads : a.page \in Page /\ a.off \in Offset
  BY ProgramAssumption DEF Access
<1>2. \A a \in Stores : IsStore(a)
  BY ProgramAssumption DEF StoreOp, IsStore
<1> QED BY <1>1, <1>2 DEF AlignedFills

\* Blocks of one word, as simulated by default, meet the hypothesis.
THEOREM DefaultGeometry ==
  ASSUME BlockWords = 1
  PROVE  AlignedFills
<1>1. \A a \in Loads \cup Stores : a.off \in Offset
  BY ProgramAssumption DEF Access, StoreOp
<1> QED BY <1>1, AlignedOneWord DEF AlignedFills

\* A read leaves the side in order, its words as they were, and writes the
\* disk only by taking a page out of memory.
LEMMA ReadStep ==
  ASSUME AlignedFills, Inv, NEW a \in Loads, Read(a)
  PROVE  /\ Inv' /\ SameWords(side, side')
         /\ data' = WordSeen(side, a.page, a.off \div 4)
         /\ \A v \in Page : side'.disk[v] # side.disk[v] =>
              "PT_miss" \in counted' /\ side.PT[v].valid /\ ~side'.PT[v].valid
<1> DEFINE t == Translate(side, a.page)
           u == CacheRead(t, a)
<1>1. a.page \in Page /\ a.off \in Offset /\ Aligned(a.off)
  BY Accesses
<1>2. /\ SideOK(t) /\ SameWords(side, t) /\ TLBHits(t, a.page) # {}
      /\ \A x \in Page : t.disk[x] # side.disk[x] =>
           /\ TLBHits(side, a.page) = {} /\ ~side.PT[a.page].valid
           /\ side.PT[x].valid /\ ~t.PT[x].valid
  BY <1>1, TranslateOK DEF Inv
<1> HIDE DEF t
<1>3. SideOK(u) /\ SameWords(t, u) /\ u.disk = t.disk /\ u.PT = t.PT
  <2>1. Ready(t, a.page)
    BY <1>2 DEF Ready
  <2> QED BY <1>1, <2>1, CacheReadOK
<1>4. side' = u /\ data' = WordRead(side, a) /\ counted' = Counted(side, a)
  BY DEF Read, t
<1> HIDE DEF u
<1>5. data' = WordSeen(side, a.page, a.off \div 4)
  BY <1>1, <1>4, WordReadOK DEF Inv
<1>6. data' \in Word
  <2>1. a.off \div 4 \in PageWord
    BY <1>1, AddressTyped
  <2> QED BY <1>1, <1>5, <2>1, SeenTyped DEF Inv, SideOK
<1>7. SameWords(side, side')
  BY <1>2, <1>3, <1>4 DEF SameWords
<1>8. counted' \subseteq {"TLB_hit", "TLB_miss", "PT_hit", "PT_miss",
                          "cache_hit", "cache_miss"}
  BY <1>4 DEF Counted
<1>9. \A x \in Page : side'.disk[x] # side.disk[x] =>
        "PT_miss" \in counted' /\ side.PT[x].valid /\ ~side'.PT[x].valid
  <2>1. TLBHits(side, a.page) = {} /\ ~side.PT[a.page].valid => "PT_miss" \in counted'
    BY <1>4 DEF Counted
  <2> QED BY <1>2, <1>3, <1>4, <2>1
<1> QED BY <1>3, <1>4, <1>5, <1>6, <1>7, <1>8, <1>9 DEF Inv

\* A write does the same but for the word it addresses.
LEMMA WriteStep ==
  ASSUME AlignedFills, Inv, NEW a \in Stores, Write(a)
  PROVE  /\ Inv' /\ Stored(side, side', a) /\ data' = data
         /\ \A v \in Page : side'.disk[v] # side.disk[v] =>
              "PT_miss" \in counted' /\ side.PT[v].valid /\ ~side'.PT[v].valid
<1> DEFINE t == Translate(side, a.page)
           u == CacheWrite(t, a)
<1>1. IsStore(a) /\ a.page \in Page /\ a.off \in Offset /\ Aligned(a.off)
  BY Accesses DEF IsStore
<1>2. /\ SideOK(t) /\ SameWords(side, t) /\ TLBHits(t, a.page) # {}
      /\ \A x \in Page : t.disk[x] # side.disk[x] =>
           /\ TLBHits(side, a.page) = {} /\ ~side.PT[a.page].valid
           /\ side.PT[x].valid /\ ~t.PT[x].valid
  BY <1>1, TranslateOK DEF Inv
<1> HIDE DEF t
<1>3. SideOK(u) /\ Stored(t, u, a) /\ u.disk = t.disk /\ u.PT = t.PT
  <2>1. Ready(t, a.page)
    BY <1>2 DEF Ready
  <2> QED BY <1>1, <2>1, CacheWriteOK
<1>4. side' = u /\ counted' = Counted(side, a) /\ data' = data
  BY DEF Write, t
<1> HIDE DEF u
<1>5. Stored(side, side', a)
  <2>1. \A v \in Page, o \in PageWord : WordSeen(t, v, o) = WordSeen(side, v, o)
    BY <1>2 DEF SameWords
  <2> QED BY <1>3, <1>4, <2>1 DEF Stored
<1>6. counted' \subseteq {"TLB_hit", "TLB_miss", "PT_hit", "PT_miss",
                          "cache_hit", "cache_miss"}
  BY <1>4 DEF Counted
<1>7. \A x \in Page : side'.disk[x] # side.disk[x] =>
        "PT_miss" \in counted' /\ side.PT[x].valid /\ ~side'.PT[x].valid
  <2>1. TLBHits(side, a.page) = {} /\ ~side.PT[a.page].valid => "PT_miss" \in counted'
    BY <1>4 DEF Counted
  <2> QED BY <1>2, <1>3, <1>4, <2>1
<1> QED BY <1>3, <1>4, <1>5, <1>6, <1>7 DEF Inv
-----------------------------------------------------------------------------
\* The loaded disk, with memory and cache empty, is in order.
LEMMA Starts ==
  ASSUME AlignedFills, Init
  PROVE  Inv
<1>1. SideOK(side)
  BY InitOK, ProgramAssumption DEF Init
<1>2. data \in Word /\ counted = {}
  BY ByteAssumption DEF Init, ZeroWord, Word
<1> QED BY <1>1, <1>2 DEF Inv

\* The inductive invariant: what each access assumes of the side it leaves.
THEOREM Invariance ==
  ASSUME AlignedFills
  PROVE  Spec => []Inv
<1>1. Init => Inv
  BY Starts
<1>2. Inv /\ [Next]_vars => Inv'
  <2>1. SUFFICES ASSUME Inv, [Next]_vars PROVE Inv'
    OBVIOUS
  <2>2. ASSUME NEW a \in Loads, Read(a) PROVE Inv'
    BY <2>1, <2>2, ReadStep
  <2>3. ASSUME NEW a \in Stores, Write(a) PROVE Inv'
    BY <2>1, <2>3, WriteStep
  <2>4. CASE UNCHANGED vars
    BY <2>1, <2>4 DEF vars, Inv
  <2> QED BY <2>1, <2>2, <2>3, <2>4 DEF Next
<1> QED BY <1>1, <1>2, PTL DEF Spec

\* Every field stays in its range: no frame, way, tag or offset leaves the
\* arrays of main.h.
THEOREM TypeCorrect ==
  ASSUME AlignedFills
  PROVE  Spec => []TypeOK
<1>1. Inv => TypeOK
  BY DEF Inv, TypeOK, SideOK, Core
<1> QED BY <1>1, Invariance, PTL

\* TLB, page table and frames never disagree.
THEOREM TranslationsAgree ==
  ASSUME AlignedFills
  PROVE  Spec => []TranslationCoherent
<1>1. Inv => TranslationCoherent
  BY DEF Inv, TranslationCoherent, SideOK, Core
<1> QED BY <1>1, Invariance, PTL

\* No cached block is stale, misplaced or held twice.
THEOREM CachedBlocksCurrent ==
  ASSUME AlignedFills
  PROVE  Spec => []LinesCurrent
<1>1. Inv => LinesCurrent
  BY DEF Inv, LinesCurrent, SideOK, Core
<1> QED BY <1>1, Invariance, PTL

\* A frame without a dirty word may be given up without a write.
THEOREM CleanFramesOnDisk ==
  ASSUME AlignedFills
  PROVE  Spec => []CleanFrameOnDisk
<1>1. Inv => CleanFrameOnDisk
  BY DEF Inv, CleanFrameOnDisk, SideOK, Core
<1> QED BY <1>1, Invariance, PTL

\* TLB entries and ways are replaced in rotation.
THEOREM Rotates ==
  ASSUME AlignedFills
  PROVE  Spec => []VictimsRotate
<1>1. Inv => VictimsRotate
  BY DEF Inv, VictimsRotate, SideOK
<1> QED BY <1>1, Invariance, PTL

\* A fault leaves nothing of its frame in the cache, so its access misses.
THEOREM FaultsMissTheCache ==
  ASSUME AlignedFills
  PROVE  Spec => []FaultMissesCache
<1>1. ASSUME Inv, NEW a, a.page \in Page, a.off \in Offset,
             counted' = Counted(side, a), "PT_miss" \in counted'
      PROVE  "cache_miss" \in counted'
  <2> DEFINE t == Translate(side, a.page)
  <2>1. TLBHits(side, a.page) = {} /\ ~side.PT[a.page].valid
    BY <1>1 DEF Counted
  <2>2. SideOK(t) /\ TLBHits(t, a.page) # {} /\ Empty(t, t.PT[a.page].page)
    BY <1>1, <2>1, TranslateOK DEF Inv
  <2> HIDE DEF t
  <2>3. FrameOf(t, a.page) = t.PT[a.page].page /\ t.PT[a.page].page \in Frame
    BY <1>1, <2>2, TLBHitFrame DEF SideOK
  <2>4. Hits(t, FrameOf(t, a.page), a.off \div 4) = {}
    <3>1. a.off \div 4 \in PageWord
      BY <1>1, AddressTyped
    <3>2. Core(t)
      BY <2>2 DEF SideOK
    <3> QED BY <2>2, <2>3, <3>1, <3>2, NoHitsInEmpty
  <2> QED BY <1>1, <2>4 DEF Counted, t
<1>2. Init => FaultMissesCache
  BY DEF Init, FaultMissesCache
<1>3. Inv /\ FaultMissesCache /\ [Next]_vars => FaultMissesCache'
  <2>1. SUFFICES ASSUME Inv, FaultMissesCache, [Next]_vars, "PT_miss" \in counted'
                 PROVE  "cache_miss" \in counted'
    BY DEF FaultMissesCache
  <2>2. ASSUME NEW a \in Loads, Read(a) PROVE "cache_miss" \in counted'
    <3>1. a.page \in Page /\ a.off \in Offset /\ counted' = Counted(side, a)
      BY <2>2, Accesses DEF Read
    <3> QED BY <1>1, <2>1, <3>1
  <2>3. ASSUME NEW a \in Stores, Write(a) PROVE "cache_miss" \in counted'
    <3>1. a.page \in Page /\ a.off \in Offset /\ counted' = Counted(side, a)
      BY <2>3, Accesses DEF Write, IsStore
    <3> QED BY <1>1, <2>1, <3>1
  <2>4. CASE UNCHANGED vars
    BY <2>1, <2>4 DEF vars, FaultMissesCache
  <2> QED BY <2>1, <2>2, <2>3, <2>4 DEF Next
<1> QED BY <1>2, <1>3, Invariance, PTL DEF Spec

\* The disk is written by faults alone, at the page they take out of memory.
THEOREM DiskWrites ==
  ASSUME AlignedFills
  PROVE  Spec => DiskWrittenOnEviction
<1>1. Inv /\ [Next]_vars =>
        [\A v \in Page : side'.disk[v] # side.disk[v] =>
           /\ "PT_miss" \in counted'
           /\ side.PT[v].valid /\ ~side'.PT[v].valid]_vars
  <2>1. SUFFICES ASSUME Inv, Next
                 PROVE  \A v \in Page : side'.disk[v] # side.disk[v] =>
                          "PT_miss" \in counted' /\ side.PT[v].valid /\ ~side'.PT[v].valid
    OBVIOUS
  <2>2. CASE \E a \in Loads : Read(a)
    BY <2>1, <2>2, ReadStep
  <2>3. CASE \E a \in Stores : Write(a)
    BY <2>1, <2>3, WriteStep
  <2> QED BY <2>1, <2>2, <2>3 DEF Next
<1> QED BY <1>1, Invariance, PTL DEF Spec, DiskWrittenOnEviction
-----------------------------------------------------------------------------
(* Refinement.                                                             *)

\* The operand of an aligned store is the lanes it replaces.
LEMMA Operand ==
  ASSUME NEW a \in Stores, NEW o \in Offset
  PROVE  o \in a.off .. (a.off + Flat!Width(a.op) - 1)
           <=> o \div 4 = a.off \div 4 /\ o % 4 \in Lanes(a)
<1>1. /\ a.off \in 0 .. 4 * PageWords - 1 /\ o \in 0 .. 4 * PageWords - 1
      /\ PageWords \in Nat /\ a.op \in {"SB", "SH", "SW"}
      /\ a.op = "SH" => a.off % 2 = 0
      /\ a.op = "SW" => a.off % 4 = 0
  BY ProgramAssumption, SizesAssumption DEF StoreOp, Offset
<1>2. a.off \in Nat /\ o \in Nat
  BY <1>1
<1>3. CASE a.op = "SB"
  <2>1. Flat!Width(a.op) = 1 /\ Lanes(a) = {a.off % 4}
    BY <1>3 DEF Flat!Width, Lanes
  <2> QED BY <1>2, <2>1
<1>4. CASE a.op = "SH"
  <2>1. Flat!Width(a.op) = 2 /\ Lanes(a) = {a.off % 4, (a.off % 4) + 1}
    BY <1>4 DEF Flat!Width, Lanes
  <2>2. a.off % 4 \in {0, 2}
    BY <1>1, <1>2, <1>4
  <2>3. o \in a.off .. a.off + 1 <=> o = a.off \/ o = a.off + 1
    BY <1>2
  <2>4. o = a.off <=> o \div 4 = a.off \div 4 /\ o % 4 = a.off % 4
    BY <1>2
  <2>5. o = a.off + 1 <=> o \div 4 = a.off \div 4 /\ o % 4 = (a.off % 4) + 1
    BY <1>2, <2>2
  <2>6. a.off + 2 - 1 = a.off + 1
    BY <1>2
  <2> QED BY <2>1, <2>3, <2>4, <2>5, <2>6
<1>5. CASE a.op = "SW"
  <2>1. Flat!Width(a.op) = 4 /\ Lanes(a) = 0 .. 3
    BY <1>5 DEF Flat!Width, Lanes, Lane
  <2>2. a.off % 4 = 0
    BY <1>1, <1>5
  <2> QED BY <1>2, <2>1, <2>2
<1> QED BY <1>1, <1>3, <1>4, <1>5

\* Whatever the TLB, the page table, the frames and the cache hold, the
\* program reads and writes one flat memory.
THEOREM ActsAsFlatMemory ==
  ASSUME AlignedFills
  PROVE  Spec => ImplementsFlatMemory
<1>1. Init => Flat!Init
  <2>1. SUFFICES ASSUME Init PROVE Flat!Init
    OBVIOUS
  <2>2. \A v \in Page, o \in PageWord : WordSeen(side, v, o) = Image[v][o]
    BY <2>1, InitOK, ProgramAssumption DEF Init
  <2>3. \A v \in Page, o \in Offset : Bytes(side)[v][o] = Image[v][o \div 4][o % 4]
    BY <2>2, BytesAt
  <2>4. Bytes(side) = [v \in Page |-> [o \in Offset |-> Bytes(side)[v][o]]]
    BY DEF Bytes
  <2>5. Bytes(side) = [v \in Page |-> [o \in Offset |-> Image[v][o \div 4][o % 4]]]
    BY <2>3, <2>4
  <2>6. data = [k \in 0 .. 3 |-> 0]
    BY <2>1 DEF Init, ZeroWord, Lane
  <2> QED BY <2>5, <2>6 DEF Flat!Init
<1>2. ASSUME Inv, NEW a \in Loads, Read(a) PROVE Flat!Load(a)
  <2> DEFINE w == a.off \div 4
             B == Bytes(side)
  <2>1. /\ SameWords(side, side') /\ data' = WordSeen(side, a.page, w)
        /\ a.page \in Page /\ w \in PageWord /\ data' \in Word
    BY <1>2, ReadStep, Accesses, AddressTyped DEF Inv
  <2>2. B' = B
    <3>1. \A v \in Page : [o \in PageWord |-> WordSeen(side', v, o)]
                            = [o \in PageWord |-> WordSeen(side, v, o)]
      BY <2>1 DEF SameWords
    <3> QED BY <3>1 DEF Bytes
  <2>3. \A k \in Lane : B[a.page][4 * w + k] = data'[k]
    <3>1. TAKE k \in Lane
    <3>2. 4 * w + k \in Offset /\ (4 * w + k) \div 4 = w /\ (4 * w + k) % 4 = k
      <4> HIDE DEF w
      <4> QED BY <2>1, WordBytes
    <3>3. B[a.page][4 * w + k] = WordSeen(side, a.page, (4 * w + k) \div 4)[(4 * w + k) % 4]
      BY <2>1, <3>2, BytesAt
    <3> QED BY <2>1, <3>2, <3>3
  <2>4. data' = [k \in Lane |-> data'[k]]
    BY <2>1 DEF Word
  <2> HIDE DEF B, w
  <2>5. data' = [k \in 0 .. 3 |-> B[a.page][4 * w + k]]
    BY <2>3, <2>4 DEF Lane
  <2> QED BY <2>2, <2>5 DEF Flat!Load, Flat!WordAt, B, w
<1>3. ASSUME Inv, NEW a \in Stores, Write(a) PROVE Flat!Store(a)
  <2> DEFINE w == a.off \div 4
             B == Bytes(side)
             N == [o \in Offset |-> IF o \in a.off .. (a.off + Flat!Width(a.op) - 1)
                                    THEN a.word[o % 4] ELSE B[a.page][o]]
  <2>1. Stored(side, side', a) /\ data' = data /\ a.page \in Page
    BY <1>3, WriteStep, Accesses DEF IsStore
  <2>2. ASSUME NEW v \in Page, NEW o \in Offset
        PROVE  B'[v][o] = IF v = a.page /\ o \in a.off .. (a.off + Flat!Width(a.op) - 1)
                          THEN a.word[o % 4] ELSE B[v][o]
    <3>1. /\ B[v][o] = WordSeen(side, v, o \div 4)[o % 4]
          /\ Bytes(side')[v][o] = WordSeen(side', v, o \div 4)[o % 4]
          /\ o \div 4 \in PageWord
      BY BytesAt
    <3>2. B' = Bytes(side')
      OBVIOUS
    <3>3. WordSeen(side', v, o \div 4) =
            IF v = a.page /\ o \div 4 = w
            THEN Combine(WordSeen(side, v, o \div 4), a) ELSE WordSeen(side, v, o \div 4)
      BY <2>1, <3>1 DEF Stored
    <3>4. Combine(WordSeen(side, v, o \div 4), a)[o % 4] =
            IF o % 4 \in Lanes(a) THEN a.word[o % 4] ELSE WordSeen(side, v, o \div 4)[o % 4]
      <4>1. o % 4 \in Lane
        BY SizesAssumption DEF Offset, Lane
      <4> QED BY <4>1 DEF Combine
    <3>5. o \in a.off .. (a.off + Flat!Width(a.op) - 1) <=> o \div 4 = w /\ o % 4 \in Lanes(a)
      BY Operand
    <3> HIDE DEF B, w
    <3> QED BY <3>1, <3>2, <3>3, <3>4, <3>5
  <2>3. /\ B = [v \in Page |-> [o \in Offset |-> B[v][o]]]
        /\ B' = [v \in Page |-> [o \in Offset |-> B'[v][o]]]
    BY DEF Bytes
  <2> HIDE DEF B
  <2>4. B' = [B EXCEPT ![a.page] = N]
    <3>1. \A o \in Offset : B'[a.page][o] = N[o]
      BY <2>1, <2>2
    <3>2. \A v \in Page : v # a.page => \A o \in Offset : B'[v][o] = B[v][o]
      BY <2>2
    <3> HIDE DEF N
    <3>3. B'[a.page] = N
      <4>1. N = [o \in Offset |-> N[o]]
        BY DEF N
      <4>2. B'[a.page] = [o \in Offset |-> B'[a.page][o]]
        BY <2>1, <2>3
      <4> QED BY <3>1, <4>1, <4>2
    <3>4. \A v \in Page : v # a.page => B'[v] = B[v]
      BY <2>3, <3>2
    <3> QED BY <2>1, <2>3, <3>3, <3>4
  <2> QED BY <2>1, <2>4 DEF Flat!Store, B
<1>4. Inv /\ [Next]_vars => [Flat!Next]_(Flat!vars)
  <2>1. SUFFICES ASSUME Inv, [Next]_vars PROVE [Flat!Next]_(Flat!vars)
    OBVIOUS
  <2>2. CASE \E a \in Loads : Read(a)
    BY <1>2, <2>1, <2>2 DEF Flat!Next
  <2>3. CASE \E a \in Stores : Write(a)
    BY <1>3, <2>1, <2>3 DEF Flat!Next
  <2>4. CASE UNCHANGED vars
    BY <2>4 DEF vars, Flat!vars, Bytes
  <2> QED BY <2>1, <2>2, <2>3, <2>4 DEF Next
<1>5. Inv /\ [Next]_vars =>
        [/\ \A a \in Loads  : Read(a)  => Flat!Load(a)
         /\ \A a \in Stores : Write(a) => Flat!Store(a)]_vars
  BY <1>2, <1>3
<1> QED BY <1>1, <1>4, <1>5, Invariance, PTL DEF Spec, ImplementsFlatMemory, Flat!Spec

-----------------------------------------------------------------------------
(* Paging.                                                                 *)

\* An access leaves the queue in order and is a step of LRU paging.
LEMMA PagingStep ==
  ASSUME AlignedFills, Inv, QueueOK(side)
  PROVE  /\ \A a \in Loads  : Read(a)  => QueueOK(side') /\ LRUStep(side, side', a.page)
         /\ \A a \in Stores : Write(a) => QueueOK(side') /\ LRUStep(side, side', a.page)
<1>1. ASSUME NEW a \in Loads, Read(a)
      PROVE  QueueOK(side') /\ LRUStep(side, side', a.page)
  BY <1>1, Accesses, ReadPages DEF Inv, Read
<1>2. ASSUME NEW a \in Stores, Write(a)
      PROVE  QueueOK(side') /\ LRUStep(side, side', a.page)
  BY <1>2, Accesses, WritePages DEF Inv, Write
<1> QED BY <1>1, <1>2

\* d_memQ keeps every frame once and the free ones ahead.
THEOREM QueueInOrder ==
  ASSUME AlignedFills
  PROVE  Spec => []FramesInOrder
<1>1. Init => FramesInOrder
  BY InitQueue DEF Init, FramesInOrder
<1>2. Inv /\ FramesInOrder /\ [Next]_vars => FramesInOrder'
  <2>1. SUFFICES ASSUME Inv, QueueOK(side), [Next]_vars PROVE QueueOK(side')
    BY DEF FramesInOrder
  <2>2. CASE Next
    BY <2>1, <2>2, PagingStep DEF Next
  <2>3. CASE UNCHANGED vars
    BY <2>1, <2>3 DEF vars
  <2> QED BY <2>1, <2>2, <2>3
<1> QED BY <1>1, <1>2, Invariance, PTL DEF Spec

\* What LRUStep says of the sides is an access of LRUPaging.
LEMMA StepIsAccess ==
  ASSUME Core(side), NEW v, LRUStep(side, side', v)
  PROVE  Paging!Access(v)
<1>1. Paging!Frame = Frame
  BY DEF Paging!Frame, Frame
<1>2. Paging!InMemory = Resident(side)
  BY <1>1, ResidentPages DEF Paging!InMemory, Paging!Free
<1>3. Held(side)' = Held(side') /\ Older(side)' = Older(side')
  BY DEF Held, Older
<1>4. \A stay : Paging!Last(v, stay) = UsedLast(side, v, stay)
  BY DEF Paging!Last, UsedLast
<1>5. CASE /\ v \in Resident(side)
           /\ Held(side') = Held(side)
           /\ Older(side') = UsedLast(side, v, Resident(side) \ {v})
  BY <1>2, <1>3, <1>4, <1>5 DEF Paging!Access, Paging!Use
<1>6. CASE /\ v \notin Resident(side)
           /\ \E f \in Frame : /\ Held(side)[f] = DiskPages
                               /\ \A g \in Frame : Held(side)[g] = DiskPages => f <= g
                               /\ Held(side') = [Held(side) EXCEPT ![f] = v]
           /\ Older(side') = UsedLast(side, v, Resident(side))
  BY <1>1, <1>2, <1>3, <1>4, <1>6 DEF Paging!Access, Paging!Place, Paging!Free
<1>7. CASE /\ v \notin Resident(side)
           /\ \A g \in Frame : Held(side)[g] # DiskPages
           /\ \E f \in Frame :
                /\ \A g \in Frame \ {f} : <<Held(side)[f], Held(side)[g]>> \in Older(side)
                /\ Held(side') = [Held(side) EXCEPT ![f] = v]
                /\ Older(side') = UsedLast(side, v, Resident(side) \ {Held(side)[f]})
  BY <1>1, <1>2, <1>3, <1>4, <1>7 DEF Paging!Access, Paging!Replace, Paging!Free
<1> QED BY <1>5, <1>6, <1>7 DEF LRUStep

\* Whatever the TLB and the cache answer, the pages in memory come and go as
\* LRU demand paging says.
THEOREM ReplacesLeastRecentlyUsed ==
  ASSUME AlignedFills
  PROVE  Spec => ImplementsLRUPaging
<1>1. Init => Paging!Init
  BY InitQueue DEF Init, Paging!Init, Paging!Frame, Frame
<1>2. Inv /\ FramesInOrder /\ [Next]_vars =>
        [/\ \A a \in Loads  : Read(a)  => Paging!Access(a.page)
         /\ \A a \in Stores : Write(a) => Paging!Access(a.page)]_vars
  BY PagingStep, StepIsAccess DEF Inv, SideOK, FramesInOrder
<1>3. Inv /\ FramesInOrder /\ [Next]_vars => [Paging!Next]_(Paging!vars)
  <2>1. SUFFICES ASSUME Inv, FramesInOrder, [Next]_vars PROVE [Paging!Next]_(Paging!vars)
    OBVIOUS
  <2>2. \A a \in Loads : a.page \in Page
    BY Accesses
  <2>3. \A a \in Stores : a.page \in Page
    BY Accesses DEF IsStore
  <2>4. CASE Next
    BY <2>1, <2>2, <2>3, <2>4, PagingStep, StepIsAccess
       DEF Next, Paging!Next, Inv, SideOK, FramesInOrder
  <2>5. CASE UNCHANGED vars
    BY <2>5 DEF vars, Paging!vars
  <2> QED BY <2>1, <2>4, <2>5
<1> QED BY <1>1, <1>2, <1>3, Invariance, QueueInOrder, PTL
        DEF Spec, ImplementsLRUPaging, Paging!Spec
=============================================================================
