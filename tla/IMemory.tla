------------------------------ MODULE IMemory -------------------------------
(***************************************************************************)
(* The instruction side of proj3: read_Imemory, called once per cycle with *)
(* whatever program counter the program computes.  Nothing writes this     *)
(* side (write_Imemory is empty), so it has to serve the loaded image.     *)
(***************************************************************************)
EXTENDS Hierarchy

CONSTANTS
  Image,    \* i_disk as the loader leaves it: Image[page][word]
  Fetches   \* the addresses the program counter takes: [page, off]

\* The program counter is a multiple of four, and no fill leaves the page.
ASSUME FetchAssumption ==
  /\ Image \in [Page -> [PageWord -> Word]]
  /\ Fetches \subseteq [page : Page, off : {4 * o : o \in PageWord}]
  /\ \A a \in Fetches : StartWord(a.off) + BlockWords <= PageWords

\* What the guarantees below need: holds of every fetch when BlockWords is 1
\* or 2, fails at the third word of a block of four.
AlignedFills == \A a \in Fetches : Aligned(a.off)

VARIABLES
  side,    \* disk, mem, queue, PT, TLB and cache
  instr,   \* the word the last fetch returned
  counted  \* the hit and miss counters the last fetch incremented

vars == <<side, instr, counted>>

Init ==
  /\ side = InitSide(Image)
  /\ instr = ZeroWord
  /\ counted = {}

Fetch(a) ==
  /\ side'    = CacheRead(Translate(side, a.page), a)
  /\ instr'   = WordRead(side, a)
  /\ counted' = Counted(side, a)

Next == \E a \in Fetches : Fetch(a)

Spec == Init /\ [][Next]_vars
-----------------------------------------------------------------------------
(* Properties.                                                             *)

TypeOK ==
  /\ side \in Side
  /\ instr \in Word
  /\ counted \subseteq {"TLB_hit", "TLB_miss", "PT_hit", "PT_miss",
                        "cache_hit", "cache_miss"}

\* Evictions drop what they hold: nothing the program executes is ever dirty
\* or saved, and every frame and every cached block repeats the loaded image.
CopiesOfImage ==
  /\ side.disk = Image
  /\ \A f \in Frame : /\ ~side.mem[f].dirty
                      /\ side.mem[f].valid =>
                           side.mem[f].data = Image[side.mem[f].va]
  /\ \A c \in SetIndex, y \in Way :
       LET l == side.cache[c][y]
       IN  /\ ~l.dirty
           /\ l.valid => \A k \in BlockWord :
                l.data[k] = Image[l.va][FirstWord(l) + k]

\* A fetch that misses the cache leaves its block in it and a page it maps in
\* the TLB and in memory: fetching the same address again hits everywhere.
FetchAgainHits ==
  [][\A a \in Fetches : Fetch(a) => Counted(side', a) = {"TLB_hit", "cache_hit"}]_vars

Flat == INSTANCE FlatMemory WITH
  contents <- Bytes(side),
  out      <- instr,
  Loads    <- Fetches,
  Stores   <- {}

\* A fetch returns the word of the loaded image at the program counter.
FetchesImage == Flat!Spec /\ [][\A a \in Fetches : Fetch(a) => Flat!Load(a)]_vars

\* i_memQ never loses or repeats a frame, and the frames without a page are ahead
\* of the others in increasing order: its head is the lowest free frame while
\* there is one.
FramesInOrder == QueueOK(side)

Paging == INSTANCE LRUPaging WITH
  None <- DiskPages, at <- Held(side), older <- Older(side)

\* i_memQ keeps the frames in order of use, cache hits included, so a fault
\* takes the first free frame, then the frame of the least recently used page.
FetchesPageLRU ==
  Paging!Spec /\ [][\A a \in Fetches : Fetch(a) => Paging!Access(a.page)]_vars
=============================================================================
