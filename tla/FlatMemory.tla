----------------------------- MODULE FlatMemory -----------------------------
(***************************************************************************)
(* What the data side of the proj3 memory hierarchy promises the processor:*)
(* the disk image, read and written in place.  Memory is a function from   *)
(* byte addresses (page, byte offset) to bytes, as a program sees it; the  *)
(* page table, the TLB, the frames and the cache do not exist here.        *)
(***************************************************************************)
EXTENDS Integers

CONSTANTS
  Page,    \* virtual page numbers
  Offset,  \* byte offsets within a page
  Image,   \* initial contents: Image[page][word][lane]
  Loads,   \* the loads a program may issue: [page, off]
  Stores   \* the stores a program may issue: [page, off, op, word]

VARIABLES
  contents,  \* contents[page][off]: the byte at that address
  out        \* the word the last load returned

vars == <<contents, out>>

Width(op) == CASE op = "SB" -> 1 [] op = "SH" -> 2 [] op = "SW" -> 4

WordAt(a) ==
  LET page == contents[a.page]
  IN  [k \in 0 .. 3 |-> page[4 * (a.off \div 4) + k]]

Init ==
  /\ contents = [p \in Page |-> [o \in Offset |-> Image[p][o \div 4][o % 4]]]
  /\ out = [k \in 0 .. 3 |-> 0]

\* A load returns the big-endian word that holds the addressed byte.
Load(a) ==
  /\ out' = WordAt(a)
  /\ UNCHANGED contents

\* A store overwrites exactly the bytes of its operand.
Store(a) ==
  /\ contents' = [contents EXCEPT ![a.page] =
       [o \in Offset |-> IF o \in a.off .. (a.off + Width(a.op) - 1)
                         THEN a.word[o % 4] ELSE @[o]]]
  /\ UNCHANGED out

Next == (\E a \in Loads : Load(a)) \/ (\E a \in Stores : Store(a))

Spec == Init /\ [][Next]_vars
=============================================================================
