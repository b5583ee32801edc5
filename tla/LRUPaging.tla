----------------------------- MODULE LRUPaging ------------------------------
(***************************************************************************)
(* Demand paging as proj3 documents it: a page that is not in memory goes  *)
(* to the first free frame, the one closest to frame zero; when none is    *)
(* free it takes the frame of the least recently used page.                *)
(***************************************************************************)
EXTENDS Integers

CONSTANTS
  Page,    \* virtual page numbers
  Frames,  \* number of page frames
  None     \* what a free frame holds

VARIABLES
  at,    \* at[f]: the page in frame f, or None
  older  \* the pairs <<p, q>> of pages in memory, p used less recently than q

vars == <<at, older>>

Frame    == 0 .. Frames - 1
Free     == {f \in Frame : at[f] = None}
InMemory == {at[f] : f \in Frame \ Free}

\* The order once p is used, when the pages of stay are in memory besides p.
Last(p, stay) == (older \cap (stay \X stay)) \cup (stay \X {p})

Init ==
  /\ at = [f \in Frame |-> None]
  /\ older = {}

\* A page in memory becomes the most recently used.
Use(p) ==
  /\ p \in InMemory
  /\ older' = Last(p, InMemory \ {p})
  /\ UNCHANGED at

Place(p) ==
  /\ p \notin InMemory
  /\ \E f \in Free : /\ \A g \in Free : f <= g
                     /\ at' = [at EXCEPT ![f] = p]
  /\ older' = Last(p, InMemory)

Replace(p) ==
  /\ p \notin InMemory
  /\ Free = {}
  /\ \E f \in Frame : /\ \A g \in Frame \ {f} : <<at[f], at[g]>> \in older
                      /\ at' = [at EXCEPT ![f] = p]
                      /\ older' = Last(p, InMemory \ {at[f]})

Access(p) == Use(p) \/ Place(p) \/ Replace(p)

Next == \E p \in Page : Access(p)

Spec == Init /\ [][Next]_vars
=============================================================================
