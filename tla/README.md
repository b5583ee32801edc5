# Archi: models, checks and proofs

Archi is three course projects in C, each a simulator of a small big-endian MIPS
(the "reduced R3000"), each a single process that reads two binary images, runs a
loop until `HALT` or an error, and writes text reports:

* `src/proj1`: a single-cycle processor that detects errors (writes to `$0`,
  signed overflow, addresses out of range, misaligned addresses);
* `src/proj2`: a five-stage pipeline with forwarding, stalls, branches resolved in
  ID and a two-bit branch history table;
* `src/proj3`: the single-cycle processor on top of a memory hierarchy: TLB, page
  table, main memory, set-associative cache and disk, once for instructions and once
  for data.

Nothing runs concurrently and nothing is persistent. What is hard here is state kept
in several places that must agree (five tables for one address; four latches for one
program) and long sequences of legal steps that bring them out of step. The modules
are about that.

## Inventory

### proj3, memory hierarchy (`memory.c`, configured by `main.c: init_reg`)

State of a side: `disk`, `mem` (word array; a frame is a run of words with
`VA_page`, `valid`, `dirty`), `memQ` (frames, least recently used first), `PT`,
`TLB`, `cache` (words of lines with `VA_page`, `PAddr`, `tag`, `valid`, `dirty`,
`ref`), and counters of hits and misses.

Operations: `read_Imemory(VAddr)`, called once per cycle by the main loop with the
program counter; `read_Dmemory(VAddr)`, called by the five loads;
`write_Dmemory(...)`, called by the three stores; `write_Imemory`, empty. Each is one
long function that looks the page up in TLB and page table, on a fault frees the frame
at the head of the queue (flush its blocks from the cache, save it when dirty, clear
its TLB and page table entries) and loads the page, fills a TLB entry, then looks the
block up in the cache and on a miss writes a dirty victim back and fills it.

Hard: a frame changes its page while blocks of the old page are cached under the same
physical tags; dirty data moves line -> frame -> disk in three different handlers;
the queue has to be reordered on every path.
Correct when: reads return what was last written, the tables agree, nothing is lost
on the way to the disk, victims are the ones the document names.

### proj2, pipeline (`main.c`, `pipe_stages.c`, `helper.c`, `branch_pre.c`, `*_type.c`)

State: registers, PC and halt flag; the latches `if_id`, `id_ex`, `ex_mem`, `mem_wb`
with their `nop` flags; the control lines `control`; globals that carry a fact from
one stage to another (`if_nop`, `id_stall`, `correct`); `BHT`; the two memories.

Operations: one turn of the loop is `WB(); DM(); EX(); ID(); IF(); branch_state();`
and the choice of the next PC. ID calls `branch_jr_if`/`forward_branch` for what it
resolves itself and `forward` for what EX needs; IF calls `branch_pre`.

Hard: an operand may be in the register file, in `mem_wb` or in `ex_mem`; loads and
branches have to wait, and the wait must end; wrong-path instructions must vanish;
globals outlive the instruction that set them; the counter a branch updates was read
several turns earlier.
Correct when: the visible effects are those of the program executed one instruction
at a time, and counters follow outcomes.

### proj1, single-cycle processor (`main.c`, `*_type.c`)

State: registers, PC, memories, `check_PC` (the start address modulo four), the cycle
counter, and two reports that are part of the behaviour: the error log and the snapshots.
Operations: one instruction per turn, with error checks before and inside it; `WT_REG_0`
and `NUM_OF` are reported and execution continues, `MEM_OF` and `DATA_MIS` stop the
machine. Overflow is found by carry chains, bytes are placed with shifts and masks.
Hard: the order of checks and writes in an instruction with several errors; the cycle
counter and the snapshots are advanced in four places (top and bottom of the loop,
`err_handler`, the check of a jump); sums of ints wrap at the ends.
Correct when: each turn reports just the errors of its instruction, in the documented
order; there is one snapshot per cycle; errors that do not stop the machine leave it as
it would be without the checks.

### proj3, processor (`main.c`, `*_type.c`)

The single-cycle processor without the error checks. Every turn calls `read_Imemory`
with the PC, a load calls `read_Dmemory`, a store shifts the register to its place in the
word and calls `write_Dmemory`.
Hard: an instruction executed depends on five tables that change under it.
Correct when: neither the hierarchy nor the split of addresses into pages shows.

### Loaders, reports, build files, documents

Loaders read words into arrays. Reports print registers, stages and counters. They
are not modelled: modules start from the arrays the loaders leave.

## Modules

| module | models |
|---|---|
| `Hierarchy` | one side of the hierarchy as a record, and one operator per stage of an access, from the record a stage finds to the record it leaves: `PageFault` (`Flush`, `Save`, `Unmap`, `LoadPage`), `TLBFill`, `Translate`, `CacheRead`, `CacheWrite` (`WriteBack`, `Install`, `Merge`, `Deposit`) |
| `DMemory` | the data side: actions `Read(a)` and `Write(a)`, the whole of `read_Dmemory` and `write_Dmemory` |
| `IMemory` | the instruction side: action `Fetch(a)`, the whole of `read_Imemory` |
| `FlatMemory` | abstract: a byte-addressed array with loads and stores |
| `LRUPaging` | abstract: demand paging, first free frame, else the least recently used page |
| `Instructions` | formats, arithmetic on words, bytes in words |
| `Datapath` | the shifts, masks, carry chains and address checks that proj1 (and, but for the checks, proj3) computes with |
| `SingleCycle` | proj1: one action per class of instruction and per way of ending: `BadPC`, `AccessFault`, `JumpFault`, `Halt` |
| `Processor` | proj3: one action per class of instruction, each conjoined with `IM!Fetch` and, for loads and stores, `DM!Read` or `DM!Write`; `IM` and `DM` are instances of `IMemory` and `DMemory` with their own geometries |
| `Pipeline` | one turn of the pipeline's loop (`Cycle`), composed of `WB`, `DM`, `EX`, `ID`, `IFetch`, `BranchState`, `NextPC` in the code's order |
| `ISA` | abstract: the sequential machine, one action per class of instruction |
| `MCDMemory`, `MCIMemory`, `MCPipeline`, `MCSingleCycle`, `MCProcessor` | images, accesses and programs for TLC |
| `HierarchyProofs` | arithmetic of addresses and blocks; the page fault and the TLB |
| `CacheProofs` | lookup, write back and fill of the cache; a whole access: `Translate`, `CacheRead`, `CacheWrite`; the queue of frames and LRU paging |
| `DMemoryProofs`, `IMemoryProofs` | the theorems about the two sides |
| `DatapathProofs` | carry chains, masks, shifts and sums compute what `Instructions` defines |
| `SingleCycleProofs` | proj1: reports, types, exact errors, refinement of `ISA` |
| `ProcessorProofs` | proj3: the processor drives both sides as their theorems assume; types, refinement of `ISA` |
| `PipelineProofs` | proj2: the stages, one turn, stalls, operands, counters, types, refinement of `ISA` |

How state corresponds:

* A virtual address is a pair of page and byte offset. The code repeats a line's flags
  on each of its words and a frame's `VA_page` and `valid` on each of its words, and
  reads the copy on the first word; the record keeps them once. The dirty flags of a
  frame's words are only tested together: one flag per frame.
* `counted` is the set of hit and miss counters the last access incremented.
* A line keeps `frame` and `start`, which are the code's `PAddr` of its first word.
* In the pipeline a latch keeps the instruction where the code keeps fields copied
  from it. `at`, the address of that instruction, is added for the properties; no
  stage reads it. `forwardA` and the other fields that exist to be printed are left
  out.
* In `SingleCycle`, `log` is the sequence of reported errors with the cycles they name and
  `snapshots` the cycles of the printed snapshots. Flags such as `err_flag` that only
  carry an outcome from a check to the end of its turn are the guards of the actions.
* In `Processor` a word of a side is a function from lanes to bytes (the sides never look
  inside), `Value` and `Split` convert it; the encoding of instructions is a constant,
  `Decode`.
* Words have four bytes of `ByteBits` bits, so that overflow, sign extension and byte
  merging happen at small sizes; 8 bits is the code.

Definitions named `X_Something` beside a definition `X` are plausible slips of the
code it models, such as an entry that is not cleared; no specification uses them. For each
property, `PROJECT.json` names one of them that makes it fail.

## What is checked

### The data side

`data_direct` (direct-mapped, one-word blocks, pages of two words) and `data_assoc`
(one set of two ways, two-word blocks, pages of four words) run the same eight properties.

* `TranslationCoherent`: TLB, page table and `VA_page` of the frames agree.
* `LinesCurrent`: a valid line holds a block of a page that is in memory at that
  frame, equals the frame while clean, and no block is held twice.
* `CleanFrameOnDisk`: a frame that is not dirty and has no dirty line equals its page
  on disk, so giving it up without a write loses nothing.
* `FaultMissesCache`: an access that faults finds nothing in the cache; the blocks of
  the previous page are gone although their physical tags are the same.
* `VictimsRotate`: the `ref` counters of TLB and cache sets are always a rotation of
  0, 1, 2, ... from some entry; so the comparison of an `int` with an unsigned counter never
  meets a large value.
* `DiskWrittenOnEviction`: the disk changes only at the page that a fault takes out.
* `ImplementsFlatMemory`: refinement of `FlatMemory`, access by access: `Read(a)` is the
  flat memory's `Load(a)` and `Write(a)` its `Store(a)`. The contents are read through the
  hierarchy (`Bytes`: the dirty line, else the frame, else the disk).

`data_direct` also checks `FramesInOrder` (the queue holds every frame once, those without a
page ahead and in increasing order) and `ImplementsLRUPaging`: every access, a cache hit too,
makes its page the last of the queue, and the page that leaves is the first of it. `LRUPaging`
keeps a set of pairs, which page was used less recently than which; it is read off the
queue by comparing the places of the frames that hold the two pages. With three pages
on two frames that a cache of two lines covers, a page can be used by cache hits alone
before the next fault.

Bounds: 8 disk pages (so that the TLB, a quarter of that, has two entries and can
replace one), of which the accesses name three or four; two or three frames, so pages
compete; bytes 0 and 1; three loads and two stores that cover `sb`, `sh` and `sw`, hit
and miss, first and second word of a block. Every interaction of two pages, two TLB
entries, two lines and one frame occurs; the refinement needs values to differ only
between words and between the image and a store. What lies beyond is proved below.

### The instruction side

`fetches` (four pages, three frames): `CopiesOfImage` (nothing becomes dirty: the code that
would write back is never reached), `FetchAgainHits`, `FetchesImage` (each fetch is a load of
`FlatMemory` without stores), `FramesInOrder`, `FetchesPageLRU` (refinement of `LRUPaging`).

### The pipeline

* `ImplementsISA`: refinement of `ISA`. The abstract registers are the registers with
  `mem_wb` written, the abstract PC is the address of the oldest instruction that has
  not been to DM; an instruction takes effect when it passes DM. Turns that move bubbles
  are stutters.
* `OperandsCurrent`: an instruction that leaves ID carries the operands its
  predecessors leave, wherever they are, and none from a load that has not read.
* `StallsEnd`: ID stalls only while what it waits for is in `ex_mem` or
  `mem_wb`, so for at most two turns.
* `CountersFollowBranches`: a counter moves one step, towards the outcome, when a
  branch leaves ID; a branch that waits there does not count. Only a branch behind
  another one with the same counter is off, also when it had to wait a turn, because it
  keeps the counter it was fetched with.
* `KeepsExecuting`: until `HALT`, never only bubbles from some turn on.

`pipeline` runs every program of three instructions over eleven that depend on each
other, every pair of the 29 operations that are not control transfers on one register,
every program of four over branches and jumps on registers just loaded, computed or
linked, and every program of four over forward and backward branches, jumps, calls and
returns. `MCStarts` has two starts: at word 0 with `$29` zero, and at word 2 with `$29`
at 12, where the loader leaves zeros below the program; the programs for it push, pop
and jump through `$29` before anything writes it. The table has two counters, so
branches share them. Three or four instructions fill the distance over which two of them
interact (EX, MEM, WB); the programs end in `HALT`s. Bytes of two bits keep all of
arithmetic's cases. `CHECK_DEADLOCK` is off: main's loop ends when `halt_flag` is set.

Fairness: `WF_vars(Next)`. The loop of `main` does nothing else than run turns, so a turn
that can run does. It is used by `KeepsExecuting` only.

### The single-cycle processor

`single_cycle`: six words of code, eight of data, at most twelve cycles.

* `ErrorsExact`: a turn reports exactly the errors its instruction has, defined by sums of
  integers that do not wrap (`Overflow`, `Outside`, `Askew`, `WritesZero`): the
  bit-by-bit carries, the `~` on whole words, the int sums of `check_mem_OF` and the order
  of the checks come to that.
* `ErrorOrder`: the log is ordered by cycle and, within a cycle, by the priorities the
  document gives; no error twice.
* `FatalIsLast`: a fatal error is the last entry of the log, the machine has stopped, and
  the last snapshot is that of its cycle.
* `OneSnapshotPerCycle`: the snapshots are 0, 1, 2, ... without gap or repetition, the one
  that a misaligned jump prints for a cycle of its own included; errors name only them.
* `ImplementsISA`: every turn is a step of `ISA`, or stops the machine for a fatal error
  and changes neither code nor registers nor memory. `ISA` computes by value, so this
  compares the masks of `Datapath` with bytes and half-words, too.

The programs: every arithmetic operation on every pair of seven corner values (0, 1, 6, the
ends of signed and unsigned numbers, one between), to `$2` and to `$0`; every load and store
around both ends of memory and of the integers, five displacements each; every program
of three over twelve instructions with errors, jumps and links; and starts outside the
code or off alignment. A turn depends on nothing but the state, so three instructions
are enough for every pair of an error and what follows it. `CHECK_DEADLOCK` is off:
the machine stops.

### The processor of proj3

`processor`: two programs (a loop over pages of data with a call into another page of
code; a loop of bytes and half-words at doubling distances) from 31 starts, 32 words of
disk, two frames on each side, blocks of two words for code and of one for data, a
two-way and a direct-mapped cache.

* `ExecutesImage`: every turn executes the word the loader put at PC.
* `ImplementsISA`: refinement of `ISA` over flat memories, with the abstract memory read
  through the data side (`DM!WordSeen`).
* `Halts`: both programs end. Fairness: `FairSpec` says that the loop goes on until
  `halt_flag` is set, which is what `while` does. A turn may be impossible in the model
  only for an address that the documents exclude; deadlock is checked, so none occurs.

The programs are chosen so that on both sides pages compete for frames and blocks for
lines, a store hits and misses, and code leaves memory and comes back.

### Where the code differs from its documents

Each run below fails, on the one property it checks.

| run | shows |
|---|---|
| `data_block_start` | `start_PA = PAddr - page_offset` takes words off a byte address: with two-word blocks, a load of byte 5 that misses returns a byte of the wrong word, and the line it fills serves later loads. The instruction side has the same line; there it takes blocks of four words |
| `tlb_lru` | TLB entries are replaced in the order they were filled, the last used one included; the document says LRU |
| `cache_invalid_first` | a set gives up a live block while another way is empty; the document says the empty one goes first. The TLB leaves out the same test |
| `false_dependence` | `mem_wb.dest != ex_mem.dest` does not ask whether `ex_mem` writes: a backward branch (whose bits 15..11 are 31) between a writer and a reader of `$31` makes the reader use the old value |
| `address_first` | a jump to an address that is out of range and misaligned is reported as a misalignment; the document gives address overflow priority, and loads, stores and the start address follow it |
| `lost_outcome` | two branches in a row with one counter: the second overwrites the update of the first, 11 goes to 01 |

The passing runs are for programs and geometries where these do not bite: `AlignedFills`
for the hierarchy (every block of one word satisfies it, which is the default; on the
instruction side every block of two), and for the pipeline no backward branch between an
ordinary write of `$31` and a read of it. `ErrorOrder` holds for that jump, because it
reports one error only.

## What is proved

For any number of pages (at least four), frames, sets, ways and words, any bytes, any
image and any set of accesses that satisfies `AlignedFills`:

* `DMemoryProofs`: `TypeCorrect`, `TranslationsAgree`, `CachedBlocksCurrent`,
  `CleanFramesOnDisk`, `Rotates`, `FaultsMissTheCache`, `DiskWrites`, and
  `ActsAsFlatMemory`, that the data side implements `FlatMemory`; `QueueInOrder`, and
  `ReplacesLeastRecentlyUsed`, that it implements `LRUPaging`; each is a property the runs
  check. `DefaultGeometry` shows that one-word blocks satisfy `AlignedFills`.
* `IMemoryProofs`: `TypeCorrect`, `OnlyCopies`, `SecondFetchHits`, `ServesTheImage`,
  `QueueInOrder`, `ReplacesLeastRecentlyUsed`.

Assumptions are those the modules declare: `SizesAssumption` (a page is a whole
number of blocks, at least one of everything), `ByteAssumption`, and the ranges of image
and accesses.

The inductive invariant is `SideOK(side)`, which strengthens what the runs check, and for
paging also `QueueOK(side)`. None of its parts is inductive alone:

* after a fault the new page is uncached only because lines are valid only for pages in
  memory at the line's `frame`, and `Flush` empties all lines of that frame, so cache and
  translation go together;
* `Save` may skip a clean frame only because clean frames equal the disk, and that needs the
  dirty lines of the frame to have been merged before;
* `Install` may use the tag of the TLB's frame and the data of the page table's frame
  only because the two agree;
* `CHOOSE`-ing the first hit is harmless only because a block is cached once, which is
  why uniqueness is part of it;
* a hit in the cache moves the line's `frame` to the end of the queue, which is the frame of
  the page used only because lines are current; and the head of the queue is the lowest free
  frame only because frames come into use from the head and never become free again.

The proof goes stage by stage, in the order of the code: each operator of `Hierarchy`
has a lemma saying what it preserves and what it does to the word a load would see
(`SameWords`, `Stored`). The two sides share these lemmas. For the instruction side the
invariant also says that no frame or line is dirty.

For the queue one lemma, `MoveToEndOrder`, says what the shift of `memQ` does to the order of
any two frames (`MovedLast`); a fault moves its frame twice, in translation and in the cache,
which `MovedTwice` shows to be once. `Accessed` is what remains of an access: one frame moved
last, and one page table entry changed. From it follow `AccessKeepsOrder` and `AccessLRU`.

### The datapath

`DatapathProofs`, for bytes of any width: what the units of proj1 and proj3 compute is what
`Instructions` defines by value.

* `CarryOut`, `BorrowOut`: the carry after n bits is set just when the sum of the n low
  bits reaches 2^n (for differences, when nothing was borrowed). From this come `AddExact`,
  `SubExact` and `UnsignedExact`: `check_num_OF_*` hold just when the result on integers does
  not fit, which is the point of the carry into the sign bit. The unsigned subtraction starts
  its carry with zero; it is right because it asks `a < b` first.
* `AndIs`, `KeepBits`, `Masked`: and with a mask of low bits, of high bits, or of all bits
  but some in the middle, is arithmetic on quotients and remainders.
* `LoadsAgree`, `StoresAgree`: shifting a word down and masking gives the byte or half-word at
  the address; `bit_save` plus `bit_reserve` replaces just those lanes. The mask polynomial of
  `sb` (`TopBit`) is evaluated for its four places.
* `ShiftsAgree` (SRA with its mask of ones, for amounts from 1 to 31), `RangeExact`,
  `AlignmentExact` and `AddressIs` (sums of ints that wrap say the same as integers, as long
  as memory is small: `ProgramAssumption`), `RegisterResult`, `ImmediateResult` (results are
  words).

A chain of bits is a function defined by recursion, and the library's induction theorems
cannot be used here, because they take a predicate as a parameter. `UpTo` and `Agree` do their
work: a set of numbers that has 0 and every successor up to n has all of them, because
otherwise the least one missing (`Least`, from the well-foundedness of `<`) would have a
predecessor that is not. Two assumptions of `Instructions` and `Processor` exist for the
proofs. `PowerAssumption` says that 2^(k+1) is twice 2^k for the exponents that occur, and the
same for `ByteSize`: it is how `Integers` defines `^`, but the provers know `^` only between
literals; TLC evaluates it in every run. `RoomAssumption` says that code and the reach of a
branch fit among the word addresses (256 words and 2^16 among 2^32), so that a branch to a
negative address, whose PC wraps in the code, lands outside the disk as it does for `ISA`.

### The single-cycle processor

`SingleCycleProofs`, for any programs, memory sizes and widths:

* `LogInOrder` (`ErrorOrder`), `FatalErrorEnds` (`FatalIsLast`) and `SnapshotsComplete`
  (`OneSnapshotPerCycle`), from `ReportsInvariant`: while the machine runs there are as many
  snapshots as cycles and every logged error names an earlier cycle, none of them fatal.
  Without it nothing relates the cycle that an error names to the entries before it. A turn
  appends a sequence of errors of increasing priority in one cycle, which a lemma shows to be
  enough.
* `MachineTyped` (`TypeOK`), `ErrorsAreExact` (`ErrorsExact`) and `RefinesISA`
  (`ImplementsISA`). One lemma for each action shows `GoodStep`: types are kept, the errors the
  turn adds to the log are the ones its instruction has (`ErrorsDue`), and the turn is a step
  of `ISA`, a stutter (a `NOP`), or a stop that changes nothing. `MachineOK` is `TypeOK` and
  that no `SRA` of the program shifts by zero.

### The processor on both sides

`ProcessorProofs`, for any geometry that `GeometryAssumption` allows, any image,
encoding, starts and widths:

* `DrivesSides`: a behaviour of `Processor` is one of `IM!Spec` and of `DM!Spec`. A turn
  fetches one word within `Fetches` and makes at most one access within `DataReads` or
  `DataWrites`; the blocks assumed satisfy `AlignedFills` on both sides.
* `SeesFlatMemories` and `ReplacesLeastRecentlyUsed`: so the theorems of both sides hold
  while programs run. `IP` and `DP` are instances of the proof modules and define again what `IM` and `DM` define, so the
  first lemmas show that each operator is the same; `ISizes`, `DSizes`, `ZeroByte`, `IProgram`
  and `DProgram` discharge the assumptions of `IMemory` and `DMemory`.
* `RunsTheLoadedCode`: `ExecutesImage`. `FetchPlace` is the arithmetic: the page and offset
  of four times PC are the page and word of PC.
* `ProcessorTyped` (`TypeOK`) and `RefinesISA` (`ImplementsISA`): the whole simulator, tables,
  frames, caches and byte lanes included, is the sequential machine on a flat memory of
  words. The invariant `ProcessorOK` is the two sides' `Inv`, that the code is seen as loaded
  (`CodeSeen`), and the types of registers and PC. A fetch decodes to the instruction of `Code`
  at PC (`TurnIs`); a load returns the value of the word at its address (`ReadGives`); a store
  hands `Split(BitSave(...))` and the lanes of its operation to the data side, and the value of
  the word it leaves is `Merged` (`StoredValue`, `WriteGives`), whereas every other word keeps
  its value. The rest is `DatapathProofs`.

### The pipeline

`PipelineProofs`, for any programs, memory sizes and number of counters:

* `PipelineStalls` (`StallsEnd`): from an invariant on the control lines behind ID (bubbles
  write nothing; an instruction that writes what it reads from memory is a load).
* `PipelineOperands` (`OperandsCurrent`), for programs whose PC stays in the code
  (`InCode`), in every state without `FalseDependence`: that definition is the pattern of the
  finding `false_dependence`, a branch in `ex_mem` whose unused `dest` is the register that
  `mem_wb` writes and the instruction in `id_ex` reads. The theorem shows that this is the
  only hole in `forward`. It needs `Order`: what follows a jump is flushed before it reaches
  EX and what follows a `HALT` is `HALT`, so that no jump's and no `HALT`'s stale `dest`
  meets a reader.
* `PipelineCounters` (`CountersFollowBranches`), for programs within `InCode`: a branch in
  `if_id` carries its counter as the table has it, or a branch that used it is just
  before it, at most a bubble away. It cannot be farther: nothing waits behind a branch
  for longer, since branches write no register.
* `PipelineTyped` (`TypeOK`), for programs within `InCode` that make no misaligned access
  (`Aligned`): every latch, the registers, memory and the table keep their ranges. What a
  latch holds comes from the program (`FromCode`), so the amount of a shift is that of an
  instruction.
* `RefinesISA` (`ImplementsISA`), for programs within `InCode` and `Aligned` that never meet
  `FalseDependence`: the pipeline is the sequential machine. The inductive invariant is
  `PathInv`: types, `Order`, `OperandsCurrent`, and one conjunct for each latch that says how
  its instruction lies on the path the program takes.
  - `FetchPath`: behind `if_id` IF continues as predicted, and `branch_no_PC` is the other way.
  - `DecodePath`: what is due behind `id_ex` (`DueID`: the instruction in `if_id`, or where PC
    points when that is a bubble) is what ID has found out, from operands that are current.
    This is where a wrong prediction and a jump are made good: `Flushes` and the choice of PC.
  - `ExecutePath`: `ex_mem` holds what executing its instruction on the committed registers
    and on memory yields, and what is due behind it is what follows it there. An operand read
    when the instruction was in ID is the committed one two turns later (`CurrentCommitted`).
  - `HaltLast`: behind a `HALT` in `mem_wb` is nothing that could write memory.

  A turn in which DM completes an instruction is then that instruction's step of `ISA`
  (`CompletesAStep`); one in which DM finds a bubble, or WB the `HALT`, is a stutter.
  `DueMoves` and `DueDMMoves` say that what is due moves on by one latch in each turn.

The three conditions are what `Project2.docx` excludes, or the finding: without `InCode` IF
reads past the program, without `Aligned` bytes are shifted out of the word. `InCode` is a
conjunct of `TypeOK`, so the run `pipeline` shows it for its programs; the other two are not
checked by a run. What the theorems conclude under them, the run checks of its programs
outright.

A turn is one step of five stages on a record. Each stage has a lemma for what it does to the
latches (`WBStage` to `EndOfTurn`) and one for the values it computes (`WBValues` to
`EndValues`); `Turn` and `Values` join them, and the invariants are proved from these two
alone.

### Model-checked only

Liveness, which is out of the prover's reach: `KeepsExecuting` and `Halts`. Every other
property of the passing runs is a theorem.

## Not modelled

* Uninitialised memory: frames, caches, page tables and TLBs come from `malloc` and their
  flags are tested before they are set; they are taken as clear, which is what a fresh
  heap gives. The disks are static and zero outside the image. `combine_instr` of proj1
  shifts four `u32` of which `fread` filled one byte each; the images are what results when
  the others are zero.
* Geometries with fewer than four pages on disk (no TLB entry) or less than one set
  (division by zero), addresses beyond the disk, `SRA` by zero: C defines no behaviour for
  them. The documents exclude out-of-range and misaligned accesses in proj2 and proj3.
* Opcodes outside the instruction set: the `switch`es ignore them, the documents exclude
  them.
* The queue moves of the instruction side for a dirty victim (`proj3/memory.c` 222-230):
  nothing there is ever dirty (`CopiesOfImage`, checked and proved), so they are unreachable.
* Jump targets wider than 16 bits: an instruction has one field `imm` for immediates, shift
  amounts and targets. The memories have 256 words; what lies beyond 65536 lies outside
  them like what lies between.
* Start addresses of proj2 that are not aligned: `check_PC` of proj2 is set and never read.
* Loaders and reports: files and formatting. What the reports of proj1 say of errors and
  cycles is modelled.

## Plan

1. Done: `Hierarchy`, `DMemory`, `IMemory` with their abstractions and proofs; `Pipeline`
   with `ISA`; `Datapath` and `SingleCycle`; `Processor`, composed of both sides; the
   proofs about reports, composition and pipeline; the units of the datapath, and the
   refinement of `ISA` by the processors of all three projects; the refinement of `LRUPaging`
   by both sides.
2. Left: theorems that say what the findings' conditions exclude, as `DefaultGeometry` does
   for `AlignedFills`: which programs are within `InCode` and `Aligned` and never meet
   `FalseDependence`.
