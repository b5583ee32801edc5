----------------------------- MODULE MCDMemory ------------------------------
(***************************************************************************)
(* Small programs and disk images for DMemory.                             *)
(***************************************************************************)
EXTENDS DMemory

\* Every word of the image is different (Byte = {0, 1}: the bits of its number).
MCImage ==
  [v \in Page |-> [o \in PageWord |->
     [k \in Lane |-> (((v * PageWords + o + 1) % 16) \div 2 ^ k) % 2]]]

Ones == [k \in Lane |-> 1]

Store(op, page, off) == [page |-> page, off |-> off, op |-> op, word |-> Ones]

\* Three pages over two frames: byte, half-word and word stores.
DirectLoads  == {[page |-> 0, off |-> 0], [page |-> 1, off |-> 5], [page |-> 2, off |-> 4]}
DirectStores == {Store("SB", 0, 1), Store("SW", 2, 4)}

\* Blocks of two words in a set of two ways, pages of two blocks.
AssocLoads  == {[page |-> 0, off |-> 4], [page |-> 1, off |-> 0],
                [page |-> 2, off |-> 12]}
AssocStores == {Store("SH", 0, 2), Store("SW", 2, 12)}

\* Four pages over three frames.
FourLoads  == {[page |-> v, off |-> 0] : v \in 0 .. 3}
FourStores == {Store("SW", 3, 0)}

\* A byte in the second word of a two-word block: BlockStart is one byte off
\* the word, in a page of four words.
SkewedLoads  == {[page |-> 0, off |-> 0], [page |-> 0, off |-> 5]}
SkewedStores == {Store("SW", 0, 4)}
=============================================================================
