----------------------------- MODULE MCIMemory ------------------------------
(***************************************************************************)
(* Small instruction images and program counters for IMemory.              *)
(***************************************************************************)
EXTENDS IMemory

\* Every word of the image is different.
MCImage ==
  [v \in Page |-> [o \in PageWord |->
     [k \in Lane |-> ((v * PageWords + o + 1) \div 2 ^ k) % 2]]]

\* Four pages over three frames, in blocks of two words: the second word of a
\* block before its first and after it.
Code == {[page |-> 0, off |-> 0], [page |-> 0, off |-> 4], [page |-> 1, off |-> 4],
         [page |-> 2, off |-> 8], [page |-> 3, off |-> 0]}
=============================================================================
