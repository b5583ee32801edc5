------------------------------ MODULE DMemory -------------------------------
(***************************************************************************)
(* The data side of proj3: read_Dmemory and write_Dmemory, called by the   *)
(* load and store instructions in whatever order a program issues them.    *)
(***************************************************************************)
EXTENDS Hierarchy

CONSTANTS
  Image,   \* d_disk as the loader leaves it: Image[page][word]
  Loads,   \* the loads of the program:  [page, off]
  Stores   \* the stores of the program: [page, off, op, word]

Access  == [page : Page, off : Offset]
StoreOp == [page : Page, off : Offset, op : {"SB", "SH", "SW"}, word : Word]

\* Operands are naturally aligned, and no fill leaves the page (it can only
\* when BlockStart is not a block boundary; see AlignedFills).
ASSUME ProgramAssumption ==
  /\ Image \in [Page -> [PageWord -> Word]]
  /\ Loads \subseteq Access
  /\ Stores \subseteq StoreOp
  /\ \A a \in Stores : /\ a.op = "SH" => a.off % 2 = 0
                       /\ a.op = "SW" => a.off % 4 = 0
  /\ \A a \in Loads \cup Stores : StartWord(a.off) + BlockWords <= PageWords

\* What the guarantees below need of the sizes and of the program.
AlignedFills == \A a \in Loads \cup Stores : Aligned(a.off)

VARIABLES
  side,     \* disk, mem, queue, PT, TLB and cache
  data,     \* the word the last load returned
  counted   \* the hit and miss counters the last access incremented

vars == <<side, data, counted>>

Init ==
  /\ side = InitSide(Image)
  /\ data = ZeroWord
  /\ counted = {}

Read(a) ==
  /\ side'    = CacheRead(Translate(side, a.page), a)
  /\ data'    = WordRead(side, a)
  /\ counted' = Counted(side, a)

Write(a) ==
  /\ side'    = CacheWrite(Translate(side, a.page), a)
  /\ counted' = Counted(side, a)
  /\ UNCHANGED data

Next == (\E a \in Loads : Read(a)) \/ (\E a \in Stores : Write(a))

Spec == Init /\ [][Next]_vars
-----------------------------------------------------------------------------
(* Properties.                                                             *)

TypeOK ==
  /\ side \in Side
  /\ data \in Word
  /\ counted \subseteq {"TLB_hit", "TLB_miss", "PT_hit", "PT_miss",
                        "cache_hit", "cache_miss"}

\* The TLB, the page table and the VA_page of the frames never disagree:
\* Unmap clears one TLB entry and one page table entry and relies on it.
TranslationCoherent == Coherent(side)

\* No cached block outlives the page it was filled from, is held twice, or
\* differs from its frame while clean.
LinesCurrent == Current(side) /\ Unique(side)

\* Giving up a frame without a write to the disk loses nothing.
CleanFrameOnDisk == CleanOnDisk(side)

\* An access that faults finds nothing of its page in the cache: the blocks of
\* the page that gave up the frame, at the same physical addresses, are gone.
FaultMissesCache == "PT_miss" \in counted => "cache_miss" \in counted

\* The disk is written only by a page fault, and only at the page that fault
\* takes out of memory: the hierarchy is write-back down to the disk.
DiskWrittenOnEviction ==
  [][\A v \in Page : side'.disk[v] # side.disk[v] =>
       /\ "PT_miss" \in counted'
       /\ side.PT[v].valid /\ ~side'.PT[v].valid]_vars

\* The counters, which hits never reset, make the TLB and every cache set
\* replace its entries in rotation; so they stay below the number of entries
\* and the int/u32 comparison of the victim scan never meets a large value.
VictimsRotate == TLBRotates(side) /\ CacheRotates(side)

Flat == INSTANCE FlatMemory WITH contents <- Bytes(side), out <- data

\* The side is a flat memory, whatever the caches do in between: a load is the
\* load of the flat memory at the same address, a store the store.
ImplementsFlatMemory ==
  /\ Flat!Spec
  /\ [][/\ \A a \in Loads  : Read(a)  => Flat!Load(a)
        /\ \A a \in Stores : Write(a) => Flat!Store(a)]_vars

\* d_memQ never loses or repeats a frame, and the frames without a page are ahead
\* of the others in increasing order: its head is the lowest free frame while
\* there is one.
FramesInOrder == QueueOK(side)

Paging == INSTANCE LRUPaging WITH
  None <- DiskPages, at <- Held(side), older <- Older(side)

\* d_memQ keeps the frames in order of use: every access, a hit in the cache
\* too, makes its page the most recently used, and a fault takes the first free
\* frame, and failing that the frame of the least recently used page.
ImplementsLRUPaging ==
  /\ Paging!Spec
  /\ [][/\ \A a \in Loads  : Read(a)  => Paging!Access(a.page)
        /\ \A a \in Stores : Write(a) => Paging!Access(a.page)]_vars
-----------------------------------------------------------------------------
(* What proj3/doc/Project3.docx promises and the code does not do.         *)

TLBPages(s) == {s.TLB[i].va : i \in {j \in TLBIndex : s.TLB[j].valid}}

\* "Replace the invalid set if possible": the block of a page that stays in
\* memory is given up only if it leaves no way of its set invalid.
CacheReplacesInvalidFirst ==
  [][\A c \in SetIndex, y \in Way :
       /\ side.cache[c][y].valid
       /\ side'.PT[side.cache[c][y].va].valid
       /\ \A z \in Way : ~ /\ side'.cache[c][z].valid
                           /\ side'.cache[c][z].tag = side.cache[c][y].tag
       => \A z \in Way : side'.cache[c][z].valid]_vars

\* "Otherwise, replace the LRU entry": the entry of the page accessed last, the
\* one whose frame ends d_memQ, is not given up for another page while that
\* page stays in memory and the TLB has more than one entry.
TLBReplacesLRU ==
  [][\A i \in TLBIndex :
       /\ side.TLB[i].valid
       /\ side.TLB[i].page = side.queue[Frames - 1]
       /\ side'.PT[side.TLB[i].va].valid
       /\ TLBEntries > 1
       => side.TLB[i].va \in TLBPages(side')]_vars
=============================================================================
