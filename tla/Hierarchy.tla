----------------------------- MODULE Hierarchy ------------------------------
(***************************************************************************)
(* The functions of proj3/memory.c on one side (instruction or data) of    *)
(* the hierarchy: TLB, page table, frames of main memory, cache and disk.  *)
(* A side is a record                                                      *)
(*   [disk, mem, queue, PT, TLB, cache]                                    *)
(* and each operator is one stage of read_Imemory, read_Dmemory or         *)
(* write_Dmemory, from a side to the side it leaves behind.                *)
(*                                                                         *)
(* A virtual address is a page and a byte offset in it (the code's VA_page *)
(* and offset); word o of a page holds the bytes 4*o .. 4*o+3.  The code   *)
(* repeats a line's flags on each of its words and a frame's VA_page and   *)
(* valid on each of its words, and reads those of the first word; here     *)
(* they are kept once.  The dirty flags of a frame's words are only ever   *)
(* tested together, and are never cleared on the data side: one flag.      *)
(***************************************************************************)
EXTENDS Integers, FiniteSets

CONSTANTS
  DiskPages,   \* pages of the disk: entries of the page table
  Frames,      \* page frames of main memory
  PageWords,   \* words in a page
  BlockWords,  \* words in a cache block
  Sets, Ways,  \* geometry of the cache
  Byte         \* what a byte may hold

ASSUME SizesAssumption ==
  /\ DiskPages \in Nat /\ DiskPages >= 4
  /\ Frames \in Nat \ {0}
  /\ PageWords \in Nat \ {0}
  /\ BlockWords \in Nat \ {0}
  /\ PageWords % BlockWords = 0
  /\ Sets \in Nat \ {0}
  /\ Ways \in Nat \ {0}

ASSUME ByteAssumption == 0 \in Byte

Page       == 0 .. DiskPages - 1
Frame      == 0 .. Frames - 1
PageWord   == 0 .. PageWords - 1
Offset     == 0 .. 4 * PageWords - 1
BlockWord  == 0 .. BlockWords - 1
SetIndex   == 0 .. Sets - 1
Way        == 0 .. Ways - 1
TLBEntries == DiskPages \div 4
TLBIndex   == 0 .. TLBEntries - 1
Lane       == 0 .. 3
Word       == [Lane -> Byte]
ZeroWord   == [k \in Lane |-> 0]

PTEntry  == [valid : BOOLEAN, page : Frame]
TLBEntry == [valid : BOOLEAN, va : Page, page : Frame, ref : Nat]
MemPage  == [valid : BOOLEAN, dirty : BOOLEAN, va : Page,
             data : [PageWord -> Word]]
Line     == [valid : BOOLEAN, dirty : BOOLEAN, tag : Nat, ref : Nat,
             va : Page, frame : Frame, start : Offset,
             data : [BlockWord -> Word]]
Side     == [disk  : [Page -> [PageWord -> Word]],
             mem   : [Frame -> MemPage],
             queue : [Frame -> Frame],
             PT    : [Page -> PTEntry],
             TLB   : [TLBIndex -> TLBEntry],
             cache : [SetIndex -> [Way -> Line]]]

\* Slip: the queue is filled from one.
InitSide_QueueFromOne(image) ==
  [disk  |-> image,
   mem   |-> [f \in Frame |-> [valid |-> FALSE, dirty |-> FALSE, va |-> 0,
                               data |-> [o \in PageWord |-> ZeroWord]]],
   queue |-> [i \in Frame |-> i + 1],
   PT    |-> [v \in Page |-> [valid |-> FALSE, page |-> 0]],
   TLB   |-> [i \in TLBIndex |->
                [valid |-> FALSE, va |-> 0, page |-> 0, ref |-> 0]],
   cache |-> [c \in SetIndex |-> [y \in Way |->
                [valid |-> FALSE, dirty |-> FALSE, tag |-> 0, ref |-> 0,
                 va |-> 0, frame |-> 0, start |-> 0,
                 data |-> [k \in BlockWord |-> ZeroWord]]]]]

InitSide(image) ==
  [disk  |-> image,
   mem   |-> [f \in Frame |-> [valid |-> FALSE, dirty |-> FALSE, va |-> 0,
                               data |-> [o \in PageWord |-> ZeroWord]]],
   queue |-> [i \in Frame |-> i],
   PT    |-> [v \in Page |-> [valid |-> FALSE, page |-> 0]],
   TLB   |-> [i \in TLBIndex |->
                [valid |-> FALSE, va |-> 0, page |-> 0, ref |-> 0]],
   cache |-> [c \in SetIndex |-> [y \in Way |->
                [valid |-> FALSE, dirty |-> FALSE, tag |-> 0, ref |-> 0,
                 va |-> 0, frame |-> 0, start |-> 0,
                 data |-> [k \in BlockWord |-> ZeroWord]]]]]
-----------------------------------------------------------------------------
(* Replacement order.                                                      *)

First(S) == CHOOSE i \in S : \A j \in S : i <= j

\* Slip: the scan keeps the smallest counter.
Victim_Smallest(S, ref) == First({i \in S : \A j \in S : ref[i] <= ref[j]})

\* The scan of the ref counters: the least index among the largest counters.
Victim(S, ref) == First({i \in S : \A j \in S : ref[j] <= ref[i]})

\* Slip: the shift starts behind the place of f.
MoveToEnd_ShiftsLate(q, f) ==
  LET at == First({i \in Frame : q[i] = f})
  IN  [i \in Frame |-> IF i <= at /\ i < Frames - 1 THEN q[i]
                       ELSE IF i < Frames - 1 THEN q[i + 1] ELSE f]

\* memQ with frame f taken out of its place and put last.
MoveToEnd(q, f) ==
  LET at == First({i \in Frame : q[i] = f})
  IN  [i \in Frame |-> IF i < at THEN q[i]
                       ELSE IF i < Frames - 1 THEN q[i + 1] ELSE f]

Touch(s, f) == [s EXCEPT !.queue = MoveToEnd(@, f)]
-----------------------------------------------------------------------------
(* Physical block numbers and cache lookup.                                *)

Block(f, o) == f * (PageWords \div BlockWords) + o \div BlockWords
Tag(f, o)   == Block(f, o) \div Sets
Index(f, o) == Block(f, o) % Sets

Hits(s, f, o) ==
  {y \in Way : /\ s.cache[Index(f, o)][y].valid
               /\ s.cache[Index(f, o)][y].tag = Tag(f, o)}

\* start_PA within the page: the code takes words off a byte address.
BlockStart(off) == off - ((off \div 4) % BlockWords)
StartWord(off)  == BlockStart(off) \div 4

\* A fill starts where the lookup expects the block to start: always so when
\* BlockWords = 1, not for bytes 5, 6 and 7 of a block when BlockWords = 2.
Aligned(off) == StartWord(off) = (off \div 4) - ((off \div 4) % BlockWords)
-----------------------------------------------------------------------------
(* A page fault: frame queue[0] gives up its page.                         *)

\* The dirty copies of word o of frame f, and what the frame is to hold there.
DirtyHits(s, f, o) == {y \in Hits(s, f, o) : s.cache[Index(f, o)][y].dirty}

Newest(s, f, o) ==
  IF DirtyHits(s, f, o) = {} THEN s.mem[f].data[o]
  ELSE s.cache[Index(f, o)][First(DirtyHits(s, f, o))].data[o % BlockWords]

\* The line in way y of set c is a block of frame f.
Caches(s, c, y, f) == \E o \in PageWord : Index(f, o) = c /\ y \in Hits(s, f, o)

Emptied(l) == [l EXCEPT !.valid = FALSE, !.dirty = FALSE,
                        !.data = [k \in BlockWord |-> ZeroWord]]

\* Slip: only dirty blocks are dropped.
Flush_KeepsCleanLines(s, f) ==
  IF ~s.mem[f].valid THEN s ELSE
  [s EXCEPT
    !.mem[f] = [@ EXCEPT !.data  = [o \in PageWord |-> Newest(s, f, o)],
                         !.dirty = \/ s.mem[f].dirty
                                   \/ \E o \in PageWord : DirtyHits(s, f, o) # {}],
    !.cache  = [c \in SetIndex |-> [y \in Way |->
                  IF Caches(s, c, y, f) /\ s.cache[c][y].dirty
                  THEN Emptied(s.cache[c][y]) ELSE s.cache[c][y]]]]

\* Cached blocks of the frame are dropped, the dirty ones after being copied
\* to the frame.
Flush(s, f) ==
  IF ~s.mem[f].valid THEN s ELSE
  [s EXCEPT
    !.mem[f] = [@ EXCEPT !.data  = [o \in PageWord |-> Newest(s, f, o)],
                         !.dirty = \/ s.mem[f].dirty
                                   \/ \E o \in PageWord : DirtyHits(s, f, o) # {}],
    !.cache  = [c \in SetIndex |-> [y \in Way |->
                  IF Caches(s, c, y, f) THEN Emptied(s.cache[c][y])
                  ELSE s.cache[c][y]]]]

\* Slips: the frame is saved whatever it holds; it is never saved.
Save_Always(s, f) == [s EXCEPT !.disk[s.mem[f].va] = s.mem[f].data]
Save_Never(s, f) == s

\* A frame with a dirty word goes to the disk page it came from.
Save(s, f) ==
  IF s.mem[f].dirty THEN [s EXCEPT !.disk[s.mem[f].va] = s.mem[f].data] ELSE s

\* Slip: the TLB is not told.
Unmap_KeepsTLB(s, f) ==
  IF ~s.mem[f].valid THEN s ELSE [s EXCEPT !.PT[s.mem[f].va].valid = FALSE]

\* The page leaves the page table and (its first entry in) the TLB.
Unmap(s, f) ==
  LET v    == s.mem[f].va
      held == {i \in TLBIndex : s.TLB[i].valid /\ s.TLB[i].va = v}
  IN  IF ~s.mem[f].valid THEN s ELSE
      [s EXCEPT
        !.PT[v].valid = FALSE,
        !.TLB = [i \in TLBIndex |->
          [s.TLB[i] EXCEPT !.valid = @ /\ ~(held # {} /\ i = First(held))]]]

\* Slip: the physical page is read from the disk.
LoadPage_ByFrame(s, f, v) ==
  [s EXCEPT !.mem[f] = [@ EXCEPT !.valid = TRUE, !.va = v, !.data = s.disk[f]],
            !.PT[v]  = [valid |-> TRUE, page |-> f]]

LoadPage(s, f, v) ==
  [s EXCEPT !.mem[f] = [@ EXCEPT !.valid = TRUE, !.va = v, !.data = s.disk[v]],
            !.PT[v]  = [valid |-> TRUE, page |-> f]]

PageFault(s, v) ==
  LET f == s.queue[0]
  IN  LoadPage(Unmap(Save(Flush(Touch(s, f), f), f), f), f, v)
-----------------------------------------------------------------------------
(* Translation.                                                            *)

TLBHits(s, v) == {i \in TLBIndex : s.TLB[i].va = v /\ s.TLB[i].valid}

TLBRefs(s) == [i \in TLBIndex |-> s.TLB[i].ref]

\* Every counter goes up; the entry with the largest starts over for page v.
TLBFill(s, v) ==
  LET new == Victim(TLBIndex, TLBRefs(s))
  IN  [s EXCEPT !.TLB = [i \in TLBIndex |->
        IF i = new
        THEN [valid |-> TRUE, va |-> v, page |-> s.PT[v].page, ref |-> 0]
        ELSE [s.TLB[i] EXCEPT !.ref = @ + 1]]]

Translate(s, v) ==
  IF TLBHits(s, v) # {} THEN s
  ELSE TLBFill(IF s.PT[v].valid THEN s ELSE PageFault(s, v), v)

FrameOf(t, v) == t.TLB[First(TLBHits(t, v))].page
-----------------------------------------------------------------------------
(* The cache.                                                              *)

CacheRefs(s, c) == [y \in Way |-> s.cache[c][y].ref]

VictimWay(s, c) == Victim(Way, CacheRefs(s, c))

Age(s, c) ==
  [s EXCEPT !.cache[c] = [y \in Way |-> [s.cache[c][y] EXCEPT !.ref = @ + 1]]]

\* Slip: the frame is not marked dirty.
WriteBack_FrameClean(s, c, y) ==
  LET line == s.cache[c][y]
      base == StartWord(line.start)
  IN  IF ~line.dirty THEN s ELSE
      [s EXCEPT
        !.mem[line.frame] = [@ EXCEPT !.data = [o \in PageWord |->
          IF o \in base .. base + BlockWords - 1 THEN line.data[o - base] ELSE @[o]]],
        !.cache[c][y].dirty = FALSE]

\* A dirty victim is copied to the frame it was filled from.
WriteBack(s, c, y) ==
  LET line == s.cache[c][y]
      base == StartWord(line.start)
  IN  IF ~line.dirty THEN s ELSE
      [s EXCEPT
        !.mem[line.frame] =
           [valid |-> @.valid, dirty |-> TRUE,
            va    |-> IF base = 0 THEN line.va ELSE @.va,
            data  |-> [o \in PageWord |->
                         IF o \in base .. base + BlockWords - 1
                         THEN line.data[o - base] ELSE @.data[o]]],
        !.cache[c][y].dirty = FALSE]

\* Slip: the tag of the block that leaves stays.
Install_OldTag(s, f, g, a, c, y) ==
  [s EXCEPT !.cache[c][y] =
    [valid |-> TRUE, dirty |-> @.dirty, ref |-> 0, va |-> a.page, tag |-> @.tag,
     frame |-> g, start |-> BlockStart(a.off),
     data  |-> [k \in BlockWord |-> s.mem[g].data[StartWord(a.off) + k]]]]

\* The victim becomes the block of address a.  The tag was computed from the
\* frame f of the TLB, the data comes from the frame g of the page table.
Install(s, f, g, a, c, y) ==
  [s EXCEPT !.cache[c][y] =
    [valid |-> TRUE, dirty |-> @.dirty, ref |-> 0, va |-> a.page,
     tag   |-> Tag(f, a.off \div 4), frame |-> g, start |-> BlockStart(a.off),
     data  |-> [k \in BlockWord |-> s.mem[g].data[StartWord(a.off) + k]]]]

\* The bytes of a word a store replaces, and the word it leaves.
Lanes(a) == CASE a.op = "SB" -> {a.off % 4}
              [] a.op = "SH" -> {a.off % 4, (a.off % 4) + 1}
              [] a.op = "SW" -> Lane

Combine(old, a) == [k \in Lane |-> IF k \in Lanes(a) THEN a.word[k] ELSE old[k]]

\* Slip: the frame is not marked dirty.
Deposit_FrameClean(s, f, a) ==
  [s EXCEPT !.mem[f].data[a.off \div 4] = Combine(@, a)]

\* A store that misses goes to the frame.
Deposit(s, f, a) ==
  [s EXCEPT !.mem[f] =
     [valid |-> @.valid, dirty |-> TRUE, va |-> @.va,
      data  |-> [o \in PageWord |-> IF o = a.off \div 4 THEN Combine(@.data[o], a)
                                    ELSE @.data[o]]]]

\* Slips: the line is not marked dirty; the first word of the block is written.
Merge_LineClean(s, c, y, a) ==
  [s EXCEPT !.cache[c][y].data[(a.off \div 4) % BlockWords] = Combine(@, a)]
Merge_FirstWord(s, c, y, a) ==
  [s EXCEPT !.cache[c][y].data[0] = Combine(@, a), !.cache[c][y].dirty = TRUE]

\* A store that hits stays in the line.
Merge(s, c, y, a) ==
  LET old    == s.cache[c][y].data
      offset == (a.off \div 4) % BlockWords
  IN  [s EXCEPT !.cache[c][y] =
        [@ EXCEPT !.dirty = TRUE,
                  !.data  = [k \in BlockWord |-> IF k = offset THEN Combine(old[k], a)
                                                 ELSE old[k]]]]
-----------------------------------------------------------------------------
(* The two handlers, on an address whose page is in the TLB.               *)

\* Slip: a hit does not count as a use of the frame.
CacheRead_HitsDoNotTouch(t, a) ==
  LET w    == a.off \div 4
      f    == FrameOf(t, a.page)
      g    == t.PT[a.page].page
      c    == Index(f, w)
      y    == VictimWay(t, c)
  IN  IF Hits(t, f, w) # {} THEN t
      ELSE Touch(Install(WriteBack(Age(t, c), c, y), f, g, a, c, y), g)

CacheRead(t, a) ==
  LET w    == a.off \div 4
      f    == FrameOf(t, a.page)
      g    == t.PT[a.page].page
      c    == Index(f, w)
      hits == Hits(t, f, w)
      y    == VictimWay(t, c)
  IN  IF hits # {}
      THEN Touch(t, t.cache[c][First(hits)].frame)
      ELSE Touch(Install(WriteBack(Age(t, c), c, y), f, g, a, c, y), g)

CacheWrite(t, a) ==
  LET w    == a.off \div 4
      f    == FrameOf(t, a.page)
      g    == t.PT[a.page].page
      c    == Index(f, w)
      hits == Hits(t, f, w)
      y    == VictimWay(t, c)
  IN  IF hits # {}
      THEN Touch(Merge(t, c, First(hits), a), t.cache[c][First(hits)].frame)
      ELSE Touch(Install(Deposit(WriteBack(Age(t, c), c, y), g, a),
                         f, g, a, c, y), g)

\* The word a load returns, from the side it starts from.
WordRead(s, a) ==
  LET t    == Translate(s, a.page)
      w    == a.off \div 4
      f    == FrameOf(t, a.page)
      hits == Hits(t, f, w)
      u    == CacheRead(t, a)
  IN  IF hits # {}
      THEN t.cache[Index(f, w)][First(hits)].data[w % BlockWords]
      ELSE u.mem[u.PT[a.page].page].data[StartWord(a.off) + (w % BlockWords)]

\* The counters of report.rpt an access increments.
Counted(s, a) ==
  LET t == Translate(s, a.page)
  IN  (IF TLBHits(s, a.page) # {} THEN {"TLB_hit"}
       ELSE {"TLB_miss", IF s.PT[a.page].valid THEN "PT_hit" ELSE "PT_miss"})
      \cup {IF Hits(t, FrameOf(t, a.page), a.off \div 4) # {}
            THEN "cache_hit" ELSE "cache_miss"}
-----------------------------------------------------------------------------
(* What every side keeps between accesses.                                 *)

\* A valid TLB entry repeats a valid page table entry, no page has two
\* entries, and the page table and the frames are inverse of each other.
Coherent(s) ==
  /\ \A i \in TLBIndex : s.TLB[i].valid =>
       /\ s.PT[s.TLB[i].va].valid
       /\ s.PT[s.TLB[i].va].page = s.TLB[i].page
  /\ \A i, j \in TLBIndex :
       s.TLB[i].valid /\ s.TLB[j].valid /\ s.TLB[i].va = s.TLB[j].va => i = j
  /\ \A v \in Page : s.PT[v].valid =>
       s.mem[s.PT[v].page].valid /\ s.mem[s.PT[v].page].va = v
  /\ \A f \in Frame : s.mem[f].valid =>
       s.PT[s.mem[f].va].valid /\ s.PT[s.mem[f].va].page = f

FirstWord(l) == l.start \div 4

\* A valid line is a block, in the set and under the tag of its place, of the
\* page its frame now holds; a clean one repeats the words of the frame.
LineCurrent(s, c, l) ==
  /\ l.valid =>
       /\ s.mem[l.frame].valid
       /\ s.mem[l.frame].va = l.va
       /\ FirstWord(l) % BlockWords = 0
       /\ Index(l.frame, FirstWord(l)) = c
       /\ Tag(l.frame, FirstWord(l)) = l.tag
       /\ ~l.dirty => \A k \in BlockWord :
            l.data[k] = s.mem[l.frame].data[FirstWord(l) + k]
  /\ ~l.valid => ~l.dirty

Current(s) == \A c \in SetIndex, y \in Way : LineCurrent(s, c, s.cache[c][y])

\* No block is in two ways.
Unique(s) ==
  \A c \in SetIndex : \A y, z \in Way :
    /\ s.cache[c][y].valid /\ s.cache[c][z].valid
    /\ s.cache[c][y].tag = s.cache[c][z].tag
    => y = z

\* A frame no word of which is dirty repeats its disk page.
CleanOnDisk(s) ==
  \A f \in Frame :
    /\ s.mem[f].valid /\ ~s.mem[f].dirty => s.mem[f].data = s.disk[s.mem[f].va]
    /\ ~s.mem[f].valid => ~s.mem[f].dirty

\* Frame f is closer to the head of the queue q than frame g.
Before(q, f, g) == \E i, j \in Frame : i < j /\ q[i] = f /\ q[j] = g

\* The queue holds every frame once.
OnceEach(q) ==
  /\ q \in [Frame -> Frame]
  /\ \A f \in Frame : \E i \in Frame : q[i] = f /\ \A j \in Frame : q[j] = f => j = i

\* The free frames come first in the queue, the lowest first.
FreeFirst(s) ==
  \A f, g \in Frame : Before(s.queue, f, g) /\ ~s.mem[g].valid => ~s.mem[f].valid /\ f < g

QueueOK(s) == OnceEach(s.queue) /\ FreeFirst(s)

\* The page in each frame, and the pairs <<v, x>> of pages in memory, the frame
\* of v closer to the head of the queue.
Held(s)  == [f \in Frame |-> IF s.mem[f].valid THEN s.mem[f].va ELSE DiskPages]
Older(s) == {p \in Page \X Page :
               /\ s.PT[p[1]].valid /\ s.PT[p[2]].valid
               /\ Before(s.queue, s.PT[p[1]].page, s.PT[p[2]].page)}

\* The ref counters of n entries whose next victim is p: the entries before p
\* were replaced in order, the ones from p on either never or a round earlier.
Rotation(n, p, ref) ==
  /\ \A i \in 0 .. p - 1 : ref[i] = p - 1 - i
  /\ \/ \A i \in p .. n - 1 : ref[i] = p
     \/ \A i \in p .. n - 1 : ref[i] = n + p - 1 - i

TLBRotates(s) == \E p \in TLBIndex : Rotation(TLBEntries, p, TLBRefs(s))

CacheRotates(s) ==
  \A c \in SetIndex : \E p \in Way : Rotation(Ways, p, CacheRefs(s, c))

\* Word o of page v as the program sees it: the line, else the frame, else
\* the disk.
WordSeen(s, v, o) ==
  LET f    == s.PT[v].page
      hits == Hits(s, f, o)
  IN  IF ~s.PT[v].valid THEN s.disk[v][o]
      ELSE IF hits = {} THEN s.mem[f].data[o]
      ELSE s.cache[Index(f, o)][First(hits)].data[o % BlockWords]

\* The bytes of memory as the program sees them.
Bytes(s) == [v \in Page |-> LET word == [o \in PageWord |-> WordSeen(s, v, o)]
                            IN  [o \in Offset |-> word[o \div 4][o % 4]]]
=============================================================================
