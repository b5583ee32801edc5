--------------------------- MODULE HierarchyProofs --------------------------
EXTENDS Hierarchy, WellFoundedInduction, TLAPS

\* Quotient and remainder, as the prover is to see them.
LEMMA DivMod ==
  ASSUME NEW a \in Nat, NEW b \in Nat \ {0}
  PROVE  /\ a \div b \in Nat
         /\ a % b \in 0 .. b - 1
         /\ a = b * (a \div b) + (a % b)
  BY SMT

\* A block number below another leaves room for a whole block.
LEMMA MulMonotone ==
  ASSUME NEW a \in Nat, NEW b \in Nat, NEW k \in Nat, a < b
  PROVE  k * a + k <= k * b
<1>1. PICK d \in Nat : b = a + 1 + d
  <2>1. b - a - 1 \in Nat /\ b = a + 1 + (b - a - 1)
    OBVIOUS
  <2> QED BY <2>1
<1>2. k * b = k * a + k + k * d
  BY <1>1
<1>3. k * d >= 0
  OBVIOUS
<1> QED BY <1>2, <1>3

\* Quotient and remainder determine each other.
LEMMA DivModUnique ==
  ASSUME NEW k \in Nat \ {0}, NEW p \in Nat, NEW q \in Nat,
         NEW r \in 0 .. k - 1, NEW t \in 0 .. k - 1, k * p + r = k * q + t
  PROVE  p = q /\ r = t
<1>1. CASE p < q
  BY <1>1, MulMonotone
<1>2. CASE q < p
  BY <1>2, MulMonotone
<1> QED BY <1>1, <1>2
\* The words of a block: base is a block boundary, k an offset in the block.
LEMMA BlockOffset ==
  ASSUME NEW base \in Nat, base % BlockWords = 0, NEW k \in BlockWord
  PROVE  /\ (base + k) % BlockWords = k
         /\ (base + k) \div BlockWords = base \div BlockWords
<1> DEFINE q == (base + k) \div BlockWords
           r == (base + k) % BlockWords
<1>1. BlockWords \in Nat \ {0} /\ k \in 0 .. BlockWords - 1 /\ k \in Nat
  BY SizesAssumption DEF BlockWord
<1>2. /\ base \div BlockWords \in Nat
      /\ base = BlockWords * (base \div BlockWords)
  <2>1. base = BlockWords * (base \div BlockWords) + (base % BlockWords)
        /\ base \div BlockWords \in Nat
    BY <1>1, DivMod
  <2>2. BlockWords * (base \div BlockWords) \in Nat
    BY <1>1, <2>1
  <2> QED BY <2>1, <2>2
<1>3. /\ q \in Nat /\ r \in 0 .. BlockWords - 1
      /\ base + k = BlockWords * q + r
  <2>1. base + k \in Nat
    BY <1>1
  <2> QED BY <1>1, <2>1, DivMod
<1> HIDE DEF q, r
<1>4. BlockWords * (base \div BlockWords) + k = BlockWords * q + r
  BY <1>2, <1>3
<1>5. base \div BlockWords = q /\ k = r
  BY <1>1, <1>2, <1>3, <1>4, DivModUnique
<1> QED BY <1>5 DEF q, r

\* Taking off its offset in the block leaves the first word of its block.
LEMMA BlockBase ==
  ASSUME NEW o \in Nat
  PROVE  /\ o % BlockWords \in BlockWord
         /\ o - (o % BlockWords) \in Nat
         /\ (o - (o % BlockWords)) % BlockWords = 0
         /\ (o - (o % BlockWords)) \div BlockWords = o \div BlockWords
<1> DEFINE q == o \div BlockWords
           r == o % BlockWords
           b == o - r
<1>1. BlockWords \in Nat \ {0}
  BY SizesAssumption
<1>2. q \in Nat /\ r \in 0 .. BlockWords - 1 /\ o = BlockWords * q + r
  BY <1>1, DivMod
<1>3. BlockWords * q \in Nat
  BY <1>1, <1>2
<1> HIDE DEF q, r
<1>4. b \in Nat /\ b = BlockWords * q + 0
  BY <1>2, <1>3
<1>5. /\ b \div BlockWords \in Nat
      /\ b % BlockWords \in 0 .. BlockWords - 1
      /\ b = BlockWords * (b \div BlockWords) + (b % BlockWords)
  BY <1>1, <1>4, DivMod
<1>6. q = b \div BlockWords /\ 0 = b % BlockWords
  <2>1. 0 \in 0 .. BlockWords - 1
    BY <1>1
  <2>2. BlockWords * q + 0 = BlockWords * (b \div BlockWords) + (b % BlockWords)
    BY <1>4, <1>5
  <2> QED BY <1>1, <1>2, <1>5, <2>1, <2>2, DivModUnique
<1> QED BY <1>2, <1>4, <1>6 DEF q, r, BlockWord

\* Pages are cut into whole blocks.
LEMMA PageBlocks ==
  /\ PageWords \div BlockWords \in Nat \ {0}
  /\ PageWords = BlockWords * (PageWords \div BlockWords)
<1>1. PageWords \in Nat \ {0} /\ BlockWords \in Nat \ {0}
      /\ PageWords % BlockWords = 0
  BY SizesAssumption
<1>2. /\ PageWords \div BlockWords \in Nat
      /\ PageWords = BlockWords * (PageWords \div BlockWords)
  BY <1>1, DivMod
<1> QED BY <1>1, <1>2

\* A word of a page is in one of its blocks.
LEMMA BlockInPage ==
  ASSUME NEW o \in PageWord
  PROVE  o \div BlockWords \in 0 .. (PageWords \div BlockWords) - 1
<1> DEFINE q == o \div BlockWords
           K == PageWords \div BlockWords
<1>1. BlockWords \in Nat \ {0} /\ PageWords \in Nat \ {0} /\ o \in Nat /\ o < PageWords
  BY SizesAssumption DEF PageWord
<1>2. q \in Nat /\ (o % BlockWords) \in 0 .. BlockWords - 1
      /\ o = BlockWords * q + (o % BlockWords)
  BY <1>1, DivMod
<1>3. K \in Nat \ {0} /\ PageWords = BlockWords * K
  BY PageBlocks
<1> HIDE DEF q, K
<1>4. ~ (K <= q)
  <2>1. SUFFICES ASSUME K <= q PROVE FALSE
    OBVIOUS
  <2>2. BlockWords * K <= BlockWords * q
    <3>1. CASE K = q
      BY <3>1, <1>1, <1>2
    <3>2. CASE K < q
      <4>1. BlockWords * K + BlockWords <= BlockWords * q
        BY <3>2, <1>1, <1>2, <1>3, MulMonotone
      <4>2. BlockWords * K \in Nat /\ BlockWords * q \in Nat
        BY <1>1, <1>2, <1>3
      <4> QED BY <4>1, <4>2, <1>1
    <3> QED BY <2>1, <3>1, <3>2, <1>2, <1>3
  <2>3. BlockWords * q \in Nat
    BY <1>1, <1>2
  <2> QED BY <1>1, <1>2, <1>3, <2>2, <2>3
<1> QED BY <1>2, <1>3, <1>4 DEF q, K

\* A block that starts in a page ends in it.
LEMMA BlockFits ==
  ASSUME NEW base \in PageWord, base % BlockWords = 0
  PROVE  base + BlockWords <= PageWords
<1> DEFINE q == base \div BlockWords
           K == PageWords \div BlockWords
<1>1. BlockWords \in Nat \ {0} /\ PageWords \in Nat \ {0} /\ base \in Nat
  BY SizesAssumption DEF PageWord
<1>2. q \in Nat /\ base = BlockWords * q
  BY <1>1, DivMod
<1>3. q \in 0 .. K - 1
  BY BlockInPage
<1>4. K \in Nat \ {0} /\ PageWords = BlockWords * K
  BY PageBlocks
<1> HIDE DEF q, K
<1>5. BlockWords * q + BlockWords <= BlockWords * K
  BY <1>1, <1>2, <1>3, <1>4, MulMonotone
<1> QED BY <1>2, <1>4, <1>5

\* Physical blocks have a set and a tag, and are found again from them.
LEMMA BlockTyped ==
  ASSUME NEW f \in Frame, NEW o \in PageWord
  PROVE  /\ Block(f, o) \in Nat
         /\ Tag(f, o) \in Nat
         /\ Index(f, o) \in SetIndex
         /\ Block(f, o) = Sets * Tag(f, o) + Index(f, o)
<1>1. Sets \in Nat \ {0} /\ f \in Nat /\ o \div BlockWords \in Nat
      /\ PageWords \div BlockWords \in Nat
  BY SizesAssumption, BlockInPage, PageBlocks DEF Frame
<1>2. Block(f, o) \in Nat
  BY <1>1 DEF Block
<1> QED BY <1>1, <1>2, DivMod DEF Tag, Index, SetIndex

\* A set and a tag determine the block.
LEMMA BlockUnique ==
  ASSUME NEW f \in Frame, NEW o \in PageWord, NEW g \in Frame, NEW p \in PageWord,
         Index(f, o) = Index(g, p), Tag(f, o) = Tag(g, p)
  PROVE  f = g /\ o \div BlockWords = p \div BlockWords
<1> DEFINE K == PageWords \div BlockWords
<1>1. Block(f, o) = Block(g, p)
  BY BlockTyped
<1>2. /\ K \in Nat \ {0} /\ f \in Nat /\ g \in Nat
      /\ o \div BlockWords \in 0 .. K - 1 /\ p \div BlockWords \in 0 .. K - 1
  BY BlockInPage, PageBlocks, SizesAssumption DEF Frame
<1>3. f * K + (o \div BlockWords) = g * K + (p \div BlockWords)
  BY <1>1 DEF Block
<1> HIDE DEF K
<1>4. K * f + (o \div BlockWords) = K * g + (p \div BlockWords)
  <2>1. f * K = K * f /\ g * K = K * g
    BY <1>2
  <2> QED BY <1>3, <2>1
<1> QED BY <1>2, <1>4, DivModUnique

\* Words of one block share set and tag.
LEMMA SameBlock ==
  ASSUME NEW f \in Frame, NEW o \in PageWord, NEW p \in PageWord,
         o \div BlockWords = p \div BlockWords
  PROVE  Index(f, o) = Index(f, p) /\ Tag(f, o) = Tag(f, p)
  BY DEF Index, Tag, Block
-----------------------------------------------------------------------------
(* Replacement order.                                                      *)

\* A set of naturals that is not empty has a first element.
LEMMA FirstIn ==
  ASSUME NEW S \in SUBSET Nat, S # {}
  PROVE  First(S) \in S /\ \A j \in S : First(S) <= j
<1> DEFINE R == OpToRel(<, Nat)
<1>1. \E i \in S : \A j \in S : ~ (<<j, i>> \in R)
  <2>1. IsWellFoundedOn(R, Nat)
    BY NatLessThanWellFounded
  <2> HIDE DEF R
  <2> QED BY <2>1, WFMin
<1>2. PICK i \in S : \A j \in S : ~ (<<j, i>> \in R)
  BY <1>1
<1>3. \A j \in S : i <= j
  <2>1. TAKE j \in S
  <2>2. ~ (<<j, i>> \in R) /\ i \in Nat /\ j \in Nat
    BY <1>2
  <2>3. ~ (j < i)
    BY <2>2 DEF OpToRel
  <2> HIDE DEF R
  <2> QED BY <2>2, <2>3
<1> HIDE DEF R
<1> QED BY <1>2, <1>3 DEF First

\* In a rotation the scan of the counters stops at the entry whose turn it is.
LEMMA VictimOfRotation ==
  ASSUME NEW n \in Nat \ {0}, NEW ref \in [0 .. n - 1 -> Nat], NEW p \in 0 .. n - 1,
         Rotation(n, p, ref)
  PROVE  Victim(0 .. n - 1, ref) = p
<1> DEFINE S == {i \in 0 .. n - 1 : \A j \in 0 .. n - 1 : ref[j] <= ref[i]}
<1>1. \A i \in 0 .. p - 1 : ref[i] = p - 1 - i
  BY DEF Rotation
<1>2. (\A i \in p .. n - 1 : ref[i] = p) \/ (\A i \in p .. n - 1 : ref[i] = n + p - 1 - i)
  BY DEF Rotation
<1>3. \A j \in 0 .. n - 1 : ref[j] <= ref[p]
  <2>1. TAKE j \in 0 .. n - 1
  <2>2. CASE j < p
    BY <1>1, <1>2, <2>2
  <2>3. CASE p <= j
    BY <1>2, <2>3
  <2> QED BY <2>2, <2>3
<1>4. \A i \in S : p <= i
  <2>1. SUFFICES ASSUME NEW i \in 0 .. n - 1, i < p PROVE ~ (ref[p] <= ref[i])
    OBVIOUS
  <2> QED BY <1>1, <1>2, <2>1
<1>5. p \in S
  BY <1>3
<1> HIDE DEF S
<1>6. S \in SUBSET Nat /\ \A i \in S : i \in Nat
  BY DEF S
<1>7. First(S) = p
  <2>1. First(S) \in S /\ \A j \in S : First(S) <= j
    BY <1>5, <1>6, FirstIn
  <2>2. First(S) \in Nat /\ p \in Nat
    <3>1. p \in Nat
      OBVIOUS
    <3> QED BY <1>6, <2>1, <3>1
  <2> QED BY <1>4, <1>5, <2>1, <2>2
<1> QED BY <1>7 DEF Victim, S

\* The fill that takes the victim's place moves the rotation on by one.
LEMMA RotationAdvances ==
  ASSUME NEW n \in Nat \ {0}, NEW ref \in [0 .. n - 1 -> Nat], NEW p \in 0 .. n - 1,
         Rotation(n, p, ref)
  PROVE  \E q \in 0 .. n - 1 :
           Rotation(n, q, [i \in 0 .. n - 1 |-> IF i = p THEN 0 ELSE ref[i] + 1])
<1> DEFINE r == [i \in 0 .. n - 1 |-> IF i = p THEN 0 ELSE ref[i] + 1]
<1>1. \A i \in 0 .. p - 1 : ref[i] = p - 1 - i
  BY DEF Rotation
<1>2. (\A i \in p .. n - 1 : ref[i] = p) \/ (\A i \in p .. n - 1 : ref[i] = n + p - 1 - i)
  BY DEF Rotation
<1>3. \A i \in 0 .. n - 1 : r[i] = IF i = p THEN 0 ELSE ref[i] + 1
  OBVIOUS
<1> HIDE DEF r
<1>4. CASE p = n - 1
  <2>1. \A i \in 0 .. n - 1 : r[i] = n + 0 - 1 - i
    BY <1>1, <1>3, <1>4
  <2>2. \A i \in 0 .. 0 - 1 : r[i] = 0 - 1 - i
    OBVIOUS
  <2>3. Rotation(n, 0, r) /\ 0 \in 0 .. n - 1
    BY <2>1, <2>2 DEF Rotation
  <2> QED BY <2>3 DEF r
<1>5. CASE p # n - 1
  <2>1. \A i \in 0 .. (p + 1) - 1 : r[i] = (p + 1) - 1 - i
    <3>1. TAKE i \in 0 .. (p + 1) - 1
    <3>2. CASE i = p
      BY <1>3, <3>2
    <3>3. CASE i # p
      <4>1. i \in 0 .. p - 1 /\ i \in 0 .. n - 1
        BY <3>3
      <4> QED BY <1>1, <1>3, <3>3, <4>1
    <3> QED BY <3>2, <3>3
  <2>2. \/ \A i \in p + 1 .. n - 1 : r[i] = p + 1
        \/ \A i \in p + 1 .. n - 1 : r[i] = n + (p + 1) - 1 - i
    <3>1. \A i \in p + 1 .. n - 1 : i \in p .. n - 1 /\ i \in 0 .. n - 1 /\ i # p
      OBVIOUS
    <3>2. \A i \in p + 1 .. n - 1 : r[i] = ref[i] + 1
      BY <1>3, <3>1
    <3>3. CASE \A i \in p .. n - 1 : ref[i] = p
      BY <3>1, <3>2, <3>3
    <3>4. CASE \A i \in p .. n - 1 : ref[i] = n + p - 1 - i
      <4>1. ASSUME NEW i \in p + 1 .. n - 1
            PROVE  r[i] = n + (p + 1) - 1 - i
        <5>1. ref[i] = n + p - 1 - i
          BY <3>1, <3>4
        <5>2. r[i] = ref[i] + 1 /\ i \in Int
          BY <3>2
        <5> QED BY <5>1, <5>2
      <4> QED BY <4>1
    <3> QED BY <1>2, <3>3, <3>4
  <2>3. Rotation(n, p + 1, r) /\ p + 1 \in 0 .. n - 1
    BY <2>1, <2>2, <1>5 DEF Rotation
  <2> QED BY <2>3 DEF r
<1> QED BY <1>4, <1>5
-----------------------------------------------------------------------------
(* What the stages of an access preserve.  Core says nothing of the ref    *)
(* counters, which Age leaves out of step until Install.                   *)

Core(s) ==
  /\ s \in Side
  /\ Coherent(s)
  /\ Current(s)
  /\ Unique(s)
  /\ CleanOnDisk(s)

SameRefs(s, t) ==
  /\ \A i \in TLBIndex : t.TLB[i].ref = s.TLB[i].ref
  /\ \A c \in SetIndex, y \in Way : t.cache[c][y].ref = s.cache[c][y].ref

SameWords(s, t) ==
  \A v \in Page, o \in PageWord : WordSeen(t, v, o) = WordSeen(s, v, o)

\* Every way holds a line.
LEMMA LineTyped ==
  ASSUME NEW s \in Side, NEW c \in SetIndex, NEW y \in Way
  PROVE  s.cache[c][y] \in Line
  BY DEF Side

\* A set of one element starts with it.
LEMMA FirstOfOne ==
  ASSUME NEW y \in Nat
  PROVE  First({y}) = y
  BY DEF First

\* Ways are numbered.
LEMMA WayNat == \A y \in Way : y \in Nat
  BY SizesAssumption DEF Way

\* A line starts at a word of the page.
LEMMA FirstWordTyped ==
  ASSUME NEW l \in Line
  PROVE  FirstWord(l) \in PageWord
<1>1. l.start \in 0 .. 4 * PageWords - 1 /\ PageWords \in Nat \ {0}
  BY SizesAssumption DEF Line, Offset
<1> QED BY <1>1 DEF FirstWord, PageWord

\* The line that answers a lookup is the block looked up, and the only one.
LEMMA HitLine ==
  ASSUME NEW s \in Side, Current(s), Unique(s),
         NEW f \in Frame, NEW o \in PageWord, NEW y \in Hits(s, f, o)
  PROVE  LET l == s.cache[Index(f, o)][y] IN
         /\ y \in Way /\ l \in Line /\ l.valid
         /\ l.frame = f /\ FirstWord(l) = o - (o % BlockWords)
         /\ Hits(s, f, o) = {y}
         /\ First(Hits(s, f, o)) = y
         /\ s.mem[f].valid /\ s.mem[f].va = l.va
         /\ ~l.dirty => l.data[o % BlockWords] = s.mem[f].data[o]
<1> DEFINE c == Index(f, o)
           l == s.cache[c][y]
           b == o - (o % BlockWords)
<1>1. y \in Way /\ l.valid /\ l.tag = Tag(f, o)
  BY DEF Hits
<1>2. c \in SetIndex
  BY BlockTyped
<1>3. l \in Line
  BY <1>1, <1>2, LineTyped
<1>4. LineCurrent(s, c, l)
  BY <1>1, <1>2 DEF Current
<1>5. FirstWord(l) \in PageWord /\ l.frame \in Frame
  BY <1>3, FirstWordTyped DEF Line
<1>6. l.frame = f /\ FirstWord(l) \div BlockWords = o \div BlockWords
  <2>1. Index(l.frame, FirstWord(l)) = Index(f, o) /\ Tag(l.frame, FirstWord(l)) = Tag(f, o)
    BY <1>1, <1>4 DEF LineCurrent
  <2> HIDE DEF l
  <2> QED BY <2>1, <1>5, BlockUnique
<1>7. FirstWord(l) = b
  <2> DEFINE q == o \div BlockWords
             w == FirstWord(l)
             r == o % BlockWords
  <2>1. BlockWords \in Nat \ {0} /\ o \in Nat /\ w \in Nat
    BY <1>5, SizesAssumption DEF PageWord
  <2>2. /\ r \in 0 .. BlockWords - 1
        /\ o = BlockWords * q + r /\ q \in Nat
    BY <2>1, DivMod
  <2>3. w = BlockWords * (w \div BlockWords) + (w % BlockWords)
    BY <2>1, DivMod
  <2>4. w % BlockWords = 0 /\ w \div BlockWords = q
    BY <1>1, <1>4, <1>6 DEF LineCurrent
  <2>5. BlockWords * q \in Nat
    BY <2>1, <2>2
  <2>6. w = BlockWords * q + 0
    BY <2>3, <2>4
  <2> HIDE DEF q, w, r
  <2>7. w = o - r
    BY <2>1, <2>2, <2>5, <2>6
  <2> QED BY <2>7 DEF w, r
<1>8. Hits(s, f, o) = {y}
  <2>1. \A z \in Hits(s, f, o) : z = y
    BY <1>1, <1>2 DEF Hits, Unique
  <2> QED BY <2>1
<1>9. First(Hits(s, f, o)) = y
  BY <1>1, <1>8, FirstOfOne, WayNat
<1>10. ~l.dirty => l.data[o % BlockWords] = s.mem[f].data[o]
  <2>1. SUFFICES ASSUME ~l.dirty PROVE l.data[o % BlockWords] = s.mem[f].data[o]
    OBVIOUS
  <2>2. o \in Nat /\ o % BlockWords \in BlockWord
    BY BlockBase, SizesAssumption DEF PageWord
  <2>3. l.data[o % BlockWords] = s.mem[l.frame].data[FirstWord(l) + (o % BlockWords)]
    BY <1>1, <1>4, <2>1, <2>2 DEF LineCurrent
  <2>4. b + (o % BlockWords) = o
    BY <2>2, SizesAssumption DEF BlockWord
  <2> HIDE DEF l, b
  <2> QED BY <1>6, <1>7, <2>3, <2>4
<1>11. s.mem[f].valid /\ s.mem[f].va = l.va
  BY <1>1, <1>4, <1>6 DEF LineCurrent
<1> HIDE DEF l, b
<1>12. /\ y \in Way /\ l \in Line /\ l.valid
       /\ l.frame = f /\ FirstWord(l) = b
  BY <1>1, <1>3, <1>6, <1>7
<1> QED BY <1>8, <1>9, <1>10, <1>11, <1>12 DEF l, b

\* Only the disk, the frames, the page table and the cache hold words.
LEMMA TouchCore ==
  ASSUME NEW s, Core(s), NEW f \in Frame
  PROVE  Core(Touch(s, f)) /\ SameWords(s, Touch(s, f))
<1> DEFINE t == Touch(s, f)
<1>1. s \in Side
  BY DEF Core
<1>2. /\ t.disk = s.disk /\ t.mem = s.mem /\ t.PT = s.PT /\ t.TLB = s.TLB
      /\ t.cache = s.cache
  BY <1>1 DEF Touch, Side
<1>3. MoveToEnd(s.queue, f) \in [Frame -> Frame]
  <2> DEFINE at == First({i \in Frame : s.queue[i] = f})
  <2> HIDE DEF at
  <2>1. \A i \in Frame : (IF i < at THEN s.queue[i]
                          ELSE IF i < Frames - 1 THEN s.queue[i + 1] ELSE f) \in Frame
    <3>1. s.queue \in [Frame -> Frame]
      BY <1>1 DEF Side
    <3>2. \A i \in Frame : i < Frames - 1 => i + 1 \in Frame
      BY SizesAssumption DEF Frame
    <3> QED BY <3>1, <3>2
  <2> QED BY <2>1 DEF MoveToEnd, at
<1>4. t \in Side
  BY <1>1, <1>3 DEF Touch, Side
<1> HIDE DEF t
<1>5. Coherent(t) /\ Current(t) /\ Unique(t) /\ CleanOnDisk(t)
  <2>1. Coherent(t)
    BY <1>2 DEF Core, Coherent
  <2>2. Current(t)
    <3>1. \A c, l : LineCurrent(t, c, l) <=> LineCurrent(s, c, l)
      BY <1>2 DEF LineCurrent
    <3> QED BY <1>2, <3>1 DEF Core, Current
  <2>3. Unique(t)
    BY <1>2 DEF Core, Unique
  <2>4. CleanOnDisk(t)
    BY <1>2 DEF Core, CleanOnDisk
  <2> QED BY <2>1, <2>2, <2>3, <2>4
<1>6. SameWords(s, t)
  BY <1>2 DEF SameWords, WordSeen, Hits
<1> QED BY <1>4, <1>5, <1>6 DEF Core, t
Empty(s, f) ==
  \A c \in SetIndex, y \in Way : s.cache[c][y].valid => s.cache[c][y].frame # f

\* The lines a flush drops are exactly the lines of the frame.
LEMMA CachesFrame ==
  ASSUME NEW s \in Side, Current(s), Unique(s),
         NEW f \in Frame, NEW c \in SetIndex, NEW y \in Way
  PROVE  Caches(s, c, y, f) <=> s.cache[c][y].valid /\ s.cache[c][y].frame = f
<1> DEFINE l == s.cache[c][y]
<1>1. ASSUME Caches(s, c, y, f) PROVE l.valid /\ l.frame = f
  <2>1. PICK o \in PageWord : Index(f, o) = c /\ y \in Hits(s, f, o)
    BY <1>1 DEF Caches
  <2> QED BY <2>1, HitLine
<1>2. ASSUME l.valid, l.frame = f PROVE Caches(s, c, y, f)
  <2>1. LineCurrent(s, c, l) /\ FirstWord(l) \in PageWord
    BY LineTyped, FirstWordTyped DEF Current
  <2>2. Index(f, FirstWord(l)) = c /\ Tag(f, FirstWord(l)) = l.tag
    BY <1>2, <2>1 DEF LineCurrent
  <2>3. y \in Hits(s, f, FirstWord(l))
    BY <1>2, <2>2 DEF Hits
  <2> HIDE DEF l
  <2> QED BY <2>1, <2>2, <2>3 DEF Caches
<1> QED BY <1>1, <1>2

\* A lookup finds ways.
LEMMA HitsTyped == \A s, f, o : Hits(s, f, o) \subseteq Way
  BY DEF Hits

\* What a flush copies to the frame is what the program sees.
LEMMA NewestIsSeen ==
  ASSUME NEW s, Core(s), NEW f \in Frame, NEW o \in PageWord
  PROVE  /\ Hits(s, f, o) = {} => Newest(s, f, o) = s.mem[f].data[o]
         /\ Hits(s, f, o) # {} =>
              Newest(s, f, o) = s.cache[Index(f, o)][First(Hits(s, f, o))].data[o % BlockWords]
         /\ DirtyHits(s, f, o) = {} => Newest(s, f, o) = s.mem[f].data[o]
         /\ Newest(s, f, o) \in Word
<1>1. s \in Side /\ Current(s) /\ Unique(s)
  BY DEF Core
<1>2. s.mem[f].data[o] \in Word
  BY <1>1 DEF Side, MemPage
<1>3. CASE Hits(s, f, o) = {}
  BY <1>2, <1>3 DEF Newest, DirtyHits
<1>4. CASE Hits(s, f, o) # {}
  <2>1. PICK y \in Hits(s, f, o) : TRUE
    BY <1>4
  <2> DEFINE l == s.cache[Index(f, o)][y]
  <2>2. /\ l \in Line /\ Hits(s, f, o) = {y} /\ First(Hits(s, f, o)) = y
        /\ ~l.dirty => l.data[o % BlockWords] = s.mem[f].data[o]
    BY <1>1, <2>1, HitLine
  <2>3. l.data[o % BlockWords] \in Word
    BY <2>2, BlockBase, SizesAssumption DEF Line, PageWord
  <2>4. CASE l.dirty
    <3>1. DirtyHits(s, f, o) = {y}
      BY <2>2, <2>4 DEF DirtyHits
    <3>2. First(DirtyHits(s, f, o)) = y /\ DirtyHits(s, f, o) # {}
      BY <2>2, <3>1
    <3>3. Newest(s, f, o) = l.data[o % BlockWords]
      BY <3>2 DEF Newest
    <3> QED BY <1>4, <2>2, <2>3, <3>2, <3>3
  <2>5. CASE ~l.dirty
    <3>1. DirtyHits(s, f, o) = {}
      BY <2>2, <2>5 DEF DirtyHits
    <3>2. Newest(s, f, o) = s.mem[f].data[o]
      BY <3>1 DEF Newest
    <3> QED BY <1>2, <1>4, <2>2, <2>5, <3>2
  <2> QED BY <2>4, <2>5
<1> QED BY <1>3, <1>4

\* A dropped line keeps its counter.
LEMMA EmptiedLine ==
  ASSUME NEW l \in Line
  PROVE  /\ Emptied(l) \in Line /\ ~Emptied(l).valid /\ ~Emptied(l).dirty
         /\ Emptied(l).ref = l.ref
<1>1. [k \in BlockWord |-> ZeroWord] \in [BlockWord -> Word]
  BY ByteAssumption DEF ZeroWord, Word
<1> QED BY <1>1 DEF Emptied, Line

\* A flush, field by field.
LEMMA FlushParts ==
  ASSUME NEW s, Core(s), NEW f \in Frame, s.mem[f].valid
  PROVE  LET t == Flush(s, f) IN
         /\ t \in Side
         /\ t.disk = s.disk /\ t.queue = s.queue /\ t.PT = s.PT /\ t.TLB = s.TLB
         /\ \A g \in Frame \ {f} : t.mem[g] = s.mem[g]
         /\ t.mem[f].valid /\ t.mem[f].va = s.mem[f].va
         /\ t.mem[f].data = [o \in PageWord |-> Newest(s, f, o)]
         /\ t.mem[f].dirty = (s.mem[f].dirty \/ \E o \in PageWord : DirtyHits(s, f, o) # {})
         /\ \A c \in SetIndex, y \in Way :
              t.cache[c][y] = IF Caches(s, c, y, f) THEN Emptied(s.cache[c][y])
                              ELSE s.cache[c][y]
<1> DEFINE t == Flush(s, f)
           D == [o \in PageWord |-> Newest(s, f, o)]
           E == s.mem[f].dirty \/ \E o \in PageWord : DirtyHits(s, f, o) # {}
           m == [s.mem[f] EXCEPT !.data = D, !.dirty = E]
           C == [c \in SetIndex |-> [y \in Way |->
                  IF Caches(s, c, y, f) THEN Emptied(s.cache[c][y]) ELSE s.cache[c][y]]]
<1>1. s \in Side /\ s.mem[f] \in MemPage
  BY DEF Core, Side
<1>2. t = [s EXCEPT !.mem[f] = m, !.cache = C]
  BY DEF Flush
<1>3. D \in [PageWord -> Word]
  BY NewestIsSeen
<1>4. E \in BOOLEAN
  BY <1>1 DEF MemPage
<1>5. C \in [SetIndex -> [Way -> Line]]
  BY <1>1, LineTyped, EmptiedLine
<1> HIDE DEF D, E, C
<1>6. /\ m \in MemPage /\ m.data = D /\ m.dirty = E
      /\ m.valid = s.mem[f].valid /\ m.va = s.mem[f].va
  BY <1>1, <1>3, <1>4 DEF MemPage
<1> HIDE DEF m, t
<1>7. /\ t.mem = [s.mem EXCEPT ![f] = m] /\ t.cache = C
      /\ t.disk = s.disk /\ t.queue = s.queue /\ t.PT = s.PT /\ t.TLB = s.TLB
  BY <1>1, <1>2 DEF Side
<1>8. t \in Side
  BY <1>1, <1>2, <1>5, <1>6 DEF Side
<1>9. t.mem[f] = m /\ \A g \in Frame \ {f} : t.mem[g] = s.mem[g]
  BY <1>1, <1>7 DEF Side
<1>10. \A c \in SetIndex, y \in Way :
         t.cache[c][y] = IF Caches(s, c, y, f) THEN Emptied(s.cache[c][y])
                         ELSE s.cache[c][y]
  BY <1>7 DEF C
<1> QED BY <1>6, <1>7, <1>8, <1>9, <1>10 DEF t, D, E

\* A flush keeps the side in order and every word, and leaves no line of the frame.
LEMMA FlushCore ==
  ASSUME NEW s, Core(s), NEW f \in Frame
  PROVE  LET t == Flush(s, f) IN
         /\ Core(t) /\ SameWords(s, t) /\ Empty(t, f)
         /\ t.PT = s.PT /\ t.TLB = s.TLB /\ t.queue = s.queue /\ t.disk = s.disk
         /\ (t.mem[f].valid <=> s.mem[f].valid) /\ t.mem[f].va = s.mem[f].va
         /\ SameRefs(s, t)
<1>0. s \in Side /\ Coherent(s) /\ Current(s) /\ Unique(s) /\ CleanOnDisk(s)
  BY DEF Core
<1>1. CASE ~s.mem[f].valid
  <2>1. Flush(s, f) = s
    BY <1>1 DEF Flush
  <2>2. Empty(s, f)
    BY <1>0, <1>1 DEF Current, LineCurrent, Empty
  <2> QED BY <2>1, <2>2 DEF SameWords, SameRefs
<1>2. CASE s.mem[f].valid
  <2> DEFINE t == Flush(s, f)
  <2>1. /\ t \in Side
        /\ t.disk = s.disk /\ t.queue = s.queue /\ t.PT = s.PT /\ t.TLB = s.TLB
        /\ \A g \in Frame \ {f} : t.mem[g] = s.mem[g]
        /\ t.mem[f].valid /\ t.mem[f].va = s.mem[f].va
        /\ t.mem[f].data = [o \in PageWord |-> Newest(s, f, o)]
        /\ t.mem[f].dirty = (s.mem[f].dirty \/ \E o \in PageWord : DirtyHits(s, f, o) # {})
        /\ \A c \in SetIndex, y \in Way :
             t.cache[c][y] = IF Caches(s, c, y, f) THEN Emptied(s.cache[c][y])
                             ELSE s.cache[c][y]
    BY <1>2, FlushParts
  <2> HIDE DEF t
  <2>2. \A c \in SetIndex, y \in Way :
          IF s.cache[c][y].valid /\ s.cache[c][y].frame = f
          THEN ~t.cache[c][y].valid /\ ~t.cache[c][y].dirty
          ELSE t.cache[c][y] = s.cache[c][y]
    BY <1>0, <2>1, CachesFrame, EmptiedLine, LineTyped
  <2>3. \A g \in Frame : (t.mem[g].valid <=> s.mem[g].valid) /\ t.mem[g].va = s.mem[g].va
    BY <1>2, <2>1
  <2>4. Coherent(t)
    <3>1. \A v \in Page : s.PT[v].page \in Frame
      BY <1>0 DEF Side, PTEntry
    <3>2. Coherent(s) /\ t.PT = s.PT /\ t.TLB = s.TLB
      BY <1>0, <2>1
    <3> QED BY <2>3, <3>1, <3>2 DEF Coherent
  <2>5. Current(t)
    <3>1. SUFFICES ASSUME NEW c \in SetIndex, NEW y \in Way
                   PROVE  LineCurrent(t, c, t.cache[c][y])
      BY DEF Current
    <3> DEFINE l == s.cache[c][y]
    <3>2. l \in Line /\ LineCurrent(s, c, l)
      BY <1>0, LineTyped DEF Current
    <3>3. CASE l.valid /\ l.frame = f
      BY <2>2, <3>3 DEF LineCurrent
    <3>4. CASE l.valid /\ l.frame # f
      <4>1. t.cache[c][y] = l /\ l.frame \in Frame /\ t.mem[l.frame] = s.mem[l.frame]
        BY <2>1, <2>2, <3>2, <3>4 DEF Line
      <4> HIDE DEF l
      <4> QED BY <3>2, <4>1 DEF LineCurrent
    <3>5. CASE ~l.valid
      <4>1. t.cache[c][y] = l
        BY <2>2, <3>5
      <4> HIDE DEF l
      <4> QED BY <3>2, <3>5, <4>1 DEF LineCurrent
    <3> QED BY <3>3, <3>4, <3>5
  <2>6. Unique(t)
    <3>1. \A c \in SetIndex, y \in Way :
            t.cache[c][y].valid => t.cache[c][y] = s.cache[c][y]
      BY <2>2
    <3> QED BY <1>0, <3>1 DEF Unique
  <2>7. CleanOnDisk(t)
    <3>1. \A g \in Frame \ {f} : t.mem[g] = s.mem[g]
      BY <2>1
    <3>2. ASSUME ~t.mem[f].dirty
          PROVE  t.mem[f].data = t.disk[t.mem[f].va]
      <4>1. ~s.mem[f].dirty /\ \A o \in PageWord : DirtyHits(s, f, o) = {}
        BY <2>1, <3>2
      <4>2. \A o \in PageWord : Newest(s, f, o) = s.mem[f].data[o]
        BY <4>1, NewestIsSeen
      <4>3. t.mem[f].data = [o \in PageWord |-> s.mem[f].data[o]]
        BY <2>1, <4>2
      <4>4. s.mem[f].data = [o \in PageWord |-> s.mem[f].data[o]]
        BY <1>0 DEF Side, MemPage
      <4> QED BY <1>0, <1>2, <2>1, <4>1, <4>3, <4>4 DEF CleanOnDisk
    <3> QED BY <1>0, <2>1, <3>1, <3>2 DEF CleanOnDisk
  <2>8. SameWords(s, t)
    <3>1. SUFFICES ASSUME NEW v \in Page, NEW o \in PageWord
                   PROVE  WordSeen(t, v, o) = WordSeen(s, v, o)
      BY DEF SameWords
    <3> DEFINE g == s.PT[v].page
    <3>2. g \in Frame /\ t.PT[v].page = g /\ t.PT[v].valid = s.PT[v].valid
          /\ t.disk = s.disk
      BY <1>0, <2>1 DEF Side, PTEntry
    <3>3. Index(g, o) \in SetIndex
      BY <3>2, BlockTyped
    <3>4. CASE ~s.PT[v].valid
      BY <3>2, <3>4 DEF WordSeen
    <3>5. CASE s.PT[v].valid /\ g = f
      <4>1. Hits(t, f, o) = {}
        <5>1. SUFFICES ASSUME NEW y \in Hits(t, f, o) PROVE FALSE
          OBVIOUS
        <5>2. y \in Way /\ t.cache[Index(f, o)][y].valid /\ t.cache[Index(f, o)][y].frame = f
          BY <2>1, <2>5, <2>6, <5>1, HitLine
        <5> QED BY <2>2, <3>3, <3>5, <5>2
      <4>2. WordSeen(t, v, o) = t.mem[f].data[o]
        BY <3>2, <3>5, <4>1 DEF WordSeen
      <4>3. t.mem[f].data[o] = Newest(s, f, o)
        BY <2>1
      <4>4. WordSeen(s, v, o) = Newest(s, f, o)
        BY <3>5, NewestIsSeen DEF WordSeen
      <4> QED BY <4>2, <4>3, <4>4
    <3>6. CASE s.PT[v].valid /\ g # f
      <4>1. \A y \in Way : s.cache[Index(g, o)][y].valid /\ s.cache[Index(g, o)][y].tag = Tag(g, o)
              => t.cache[Index(g, o)][y] = s.cache[Index(g, o)][y]
        <5>1. TAKE y \in Way
        <5>2. SUFFICES ASSUME s.cache[Index(g, o)][y].valid,
                              s.cache[Index(g, o)][y].tag = Tag(g, o)
                       PROVE  t.cache[Index(g, o)][y] = s.cache[Index(g, o)][y]
          OBVIOUS
        <5>3. y \in Hits(s, g, o)
          BY <5>2 DEF Hits
        <5>4. s.cache[Index(g, o)][y].frame = g
          BY <1>0, <3>2, <5>3, HitLine
        <5> QED BY <2>2, <3>3, <3>6, <5>4
      <4>2. Hits(t, g, o) = Hits(s, g, o)
        <5>1. \A y \in Way : t.cache[Index(g, o)][y].valid
                => t.cache[Index(g, o)][y] = s.cache[Index(g, o)][y]
          BY <2>2, <3>3
        <5> QED BY <4>1, <5>1 DEF Hits
      <4>3. t.mem[g] = s.mem[g]
        BY <2>1, <3>2, <3>6
      <4>4. CASE Hits(s, g, o) = {}
        BY <3>2, <3>6, <4>2, <4>3, <4>4 DEF WordSeen
      <4>5. CASE Hits(s, g, o) # {}
        <5>1. PICK y \in Hits(s, g, o) : First(Hits(s, g, o)) = y
          BY <1>0, <3>2, <4>5, HitLine
        <5>2. t.cache[Index(g, o)][y] = s.cache[Index(g, o)][y]
          BY <4>1, <5>1 DEF Hits
        <5> QED BY <3>2, <3>6, <4>2, <4>5, <5>1, <5>2 DEF WordSeen
      <4> QED BY <4>4, <4>5
    <3> QED BY <3>4, <3>5, <3>6
  <2>9. Empty(t, f)
    BY <2>2 DEF Empty
  <2>10. SameRefs(s, t)
    BY <1>0, <2>1, EmptiedLine, LineTyped DEF SameRefs
  <2> QED BY <1>2, <2>1, <2>4, <2>5, <2>6, <2>7, <2>8, <2>9, <2>10 DEF Core, t
<1> QED BY <1>1, <1>2
OnDisk(s, f) == s.mem[f].valid => s.mem[f].data = s.disk[s.mem[f].va]

\* A save writes no page but the one of the frame, which it leaves on the disk.
LEMMA SaveCore ==
  ASSUME NEW s, Core(s), NEW f \in Frame
  PROVE  LET t == Save(s, f) IN
         /\ Core(t) /\ SameWords(s, t) /\ OnDisk(t, f)
         /\ t.PT = s.PT /\ t.TLB = s.TLB /\ t.queue = s.queue /\ t.cache = s.cache
         /\ t.mem = s.mem
         /\ \A v \in Page : t.disk[v] # s.disk[v] => s.mem[f].valid /\ s.mem[f].va = v
<1>0. s \in Side /\ Coherent(s) /\ Current(s) /\ Unique(s) /\ CleanOnDisk(s)
      /\ s.mem[f] \in MemPage
  BY DEF Core, Side
<1>1. CASE ~s.mem[f].dirty
  <2>1. Save(s, f) = s
    BY <1>1 DEF Save
  <2>2. OnDisk(s, f)
    BY <1>0, <1>1 DEF CleanOnDisk, OnDisk
  <2> QED BY <2>1, <2>2 DEF SameWords
<1>2. CASE s.mem[f].dirty
  <2> DEFINE t == Save(s, f)
             w == s.mem[f].va
  <2>1. t = [s EXCEPT !.disk[w] = s.mem[f].data]
    BY <1>2 DEF Save
  <2>2. s.mem[f].valid /\ w \in Page /\ s.mem[f].data \in [PageWord -> Word]
    BY <1>0, <1>2 DEF CleanOnDisk, MemPage
  <2> HIDE DEF t
  <2>3. /\ t.PT = s.PT /\ t.TLB = s.TLB /\ t.queue = s.queue /\ t.cache = s.cache
        /\ t.mem = s.mem /\ t.disk = [s.disk EXCEPT ![w] = s.mem[f].data]
    BY <1>0, <2>1 DEF Side
  <2>4. t \in Side
    BY <1>0, <2>1, <2>2 DEF Side
  <2>5. t.disk[w] = s.mem[f].data /\ \A v \in Page : v # w => t.disk[v] = s.disk[v]
    BY <1>0, <2>2, <2>3 DEF Side
  <2>6. s.PT[w].valid /\ s.PT[w].page = f
    BY <1>0, <2>2 DEF Coherent
  <2>7. Coherent(t) /\ Unique(t) /\ OnDisk(t, f)
    <3>1. Coherent(t)
      BY <1>0, <2>3 DEF Coherent
    <3>2. Unique(t)
      BY <1>0, <2>3 DEF Unique
    <3>3. OnDisk(t, f)
      BY <2>3, <2>5 DEF OnDisk
    <3> QED BY <3>1, <3>2, <3>3
  <2>8. Current(t)
    <3>1. \A c, l : LineCurrent(t, c, l) <=> LineCurrent(s, c, l)
      BY <2>3 DEF LineCurrent
    <3> QED BY <1>0, <2>3, <3>1 DEF Current
  <2>9. CleanOnDisk(t)
    <3>1. SUFFICES ASSUME NEW g \in Frame, s.mem[g].valid, ~s.mem[g].dirty
                   PROVE  s.mem[g].data = t.disk[s.mem[g].va]
      BY <1>0, <2>3 DEF CleanOnDisk
    <3>2. s.PT[s.mem[g].va].page = g /\ s.mem[g].va \in Page
      BY <1>0, <3>1 DEF Coherent, Side, MemPage
    <3>3. g # f
      BY <1>2, <3>1
    <3> QED BY <1>0, <2>5, <2>6, <3>1, <3>2, <3>3 DEF CleanOnDisk
  <2>10. SameWords(s, t)
    <3>1. SUFFICES ASSUME NEW v \in Page, NEW o \in PageWord
                   PROVE  WordSeen(t, v, o) = WordSeen(s, v, o)
      BY DEF SameWords
    <3>2. CASE ~s.PT[v].valid
      BY <2>3, <2>5, <2>6, <3>2 DEF WordSeen
    <3>3. CASE s.PT[v].valid
      <4>1. Hits(t, s.PT[v].page, o) = Hits(s, s.PT[v].page, o)
        BY <2>3 DEF Hits
      <4> QED BY <2>3, <3>3, <4>1 DEF WordSeen
    <3> QED BY <3>2, <3>3
  <2> QED BY <2>2, <2>3, <2>4, <2>5, <2>7, <2>8, <2>9, <2>10 DEF Core, t
<1> QED BY <1>1, <1>2

\* An unmapped page is in the page table and in the TLB no more.
LEMMA UnmapParts ==
  ASSUME NEW s, Core(s), NEW f \in Frame
  PROVE  LET u == Unmap(s, f) IN
         /\ u \in Side
         /\ u.disk = s.disk /\ u.mem = s.mem /\ u.queue = s.queue /\ u.cache = s.cache
         /\ \A x \in Page :
              /\ u.PT[x].page = s.PT[x].page
              /\ u.PT[x].valid <=> s.PT[x].valid /\ ~(s.mem[f].valid /\ x = s.mem[f].va)
         /\ \A i \in TLBIndex :
              /\ u.TLB[i].va = s.TLB[i].va /\ u.TLB[i].page = s.TLB[i].page
              /\ u.TLB[i].ref = s.TLB[i].ref
              /\ u.TLB[i].valid <=> s.TLB[i].valid /\ ~(s.mem[f].valid
                                                        /\ s.TLB[i].va = s.mem[f].va)
<1>0. s \in Side /\ Coherent(s)
  BY DEF Core
<1>1. CASE ~s.mem[f].valid
  BY <1>0, <1>1 DEF Unmap
<1>2. CASE s.mem[f].valid
  <2> DEFINE u == Unmap(s, f)
             v == s.mem[f].va
             held == {i \in TLBIndex : s.TLB[i].valid /\ s.TLB[i].va = v}
             T == [i \in TLBIndex |->
                    [s.TLB[i] EXCEPT !.valid = @ /\ ~(held # {} /\ i = First(held))]]
  <2>1. u = [s EXCEPT !.PT[v].valid = FALSE, !.TLB = T]
    BY <1>2 DEF Unmap
  <2>2. v \in Page
    BY <1>0 DEF Side, MemPage
  <2>3. \A i \in TLBIndex :
          /\ T[i] \in TLBEntry
          /\ T[i].va = s.TLB[i].va /\ T[i].page = s.TLB[i].page /\ T[i].ref = s.TLB[i].ref
          /\ T[i].valid <=> s.TLB[i].valid /\ ~(held # {} /\ i = First(held))
    <3>1. \A i \in TLBIndex : s.TLB[i] \in TLBEntry
      BY <1>0 DEF Side
    <3> HIDE DEF held
    <3> QED BY <3>1 DEF TLBEntry
  <2>4. T \in [TLBIndex -> TLBEntry]
    BY <2>3
  <2>5. \A i \in TLBIndex : i \in held => First(held) = i
    <3>1. TAKE i \in TLBIndex
    <3>2. SUFFICES ASSUME i \in held PROVE First(held) = i
      OBVIOUS
    <3>3. held = {i}
      BY <1>0, <3>2 DEF Coherent
    <3>4. i \in Nat
      BY DEF TLBIndex
    <3> HIDE DEF held
    <3> QED BY <3>3, <3>4, FirstOfOne
  <2>6. \A i \in TLBIndex : i \in held <=> s.TLB[i].valid /\ s.TLB[i].va = v
    OBVIOUS
  <2>7. \A i \in held : i \in TLBIndex
    OBVIOUS
  <2> HIDE DEF held, T, u
  <2>8. \A i \in TLBIndex : T[i].valid <=> s.TLB[i].valid /\ s.TLB[i].va # v
    BY <2>3, <2>5, <2>6, <2>7
  <2>9. /\ u \in Side
        /\ u.disk = s.disk /\ u.mem = s.mem /\ u.queue = s.queue /\ u.cache = s.cache
        /\ u.TLB = T /\ u.PT = [s.PT EXCEPT ![v].valid = FALSE]
    <3>1. [s.PT EXCEPT ![v].valid = FALSE] \in [Page -> PTEntry]
      BY <1>0, <2>2 DEF Side, PTEntry
    <3> QED BY <1>0, <2>1, <2>4, <3>1 DEF Side
  <2>10. \A x \in Page : /\ u.PT[x].page = s.PT[x].page
                         /\ u.PT[x].valid <=> s.PT[x].valid /\ x # v
    BY <1>0, <2>2, <2>9 DEF Side, PTEntry
  <2> QED BY <1>2, <2>3, <2>8, <2>9, <2>10 DEF u
<1> QED BY <1>1, <1>2

\* Lookups in a frame that was flushed miss.
LEMMA NoHitsInEmpty ==
  ASSUME NEW s, Core(s), NEW f \in Frame, Empty(s, f), NEW o \in PageWord
  PROVE  Hits(s, f, o) = {}
<1>1. SUFFICES ASSUME NEW y \in Hits(s, f, o) PROVE FALSE
  OBVIOUS
<1>2. /\ y \in Way /\ s.cache[Index(f, o)][y].valid
      /\ s.cache[Index(f, o)][y].frame = f
  BY <1>1, HitLine DEF Core
<1>3. Index(f, o) \in SetIndex
  BY BlockTyped
<1> QED BY <1>2, <1>3 DEF Empty

\* A frame that is empty in the cache and saved on the disk changes its page.
LEMMA LoadPageCore ==
  ASSUME NEW s, Core(s), NEW f \in Frame, NEW v \in Page,
         Empty(s, f), OnDisk(s, f), ~s.PT[v].valid
  PROVE  LET t == LoadPage(Unmap(s, f), f, v) IN
         /\ Core(t) /\ SameWords(s, t) /\ Empty(t, f) /\ SameRefs(s, t)
         /\ t.PT[v].valid /\ t.PT[v].page = f
         /\ t.disk = s.disk /\ t.queue = s.queue
         /\ s.mem[f].valid => ~t.PT[s.mem[f].va].valid
         /\ \A i \in TLBIndex : t.TLB[i].valid =>
              s.TLB[i].valid /\ t.TLB[i].va = s.TLB[i].va
<1> DEFINE u == Unmap(s, f)
           t == LoadPage(u, f, v)
           w == s.mem[f].va
           m == [s.mem[f] EXCEPT !.valid = TRUE, !.va = v, !.data = s.disk[v]]
<1>0. s \in Side /\ Coherent(s) /\ Current(s) /\ Unique(s) /\ CleanOnDisk(s)
      /\ s.mem[f] \in MemPage /\ w \in Page /\ s.disk[v] \in [PageWord -> Word]
  BY DEF Core, Side, MemPage
<1>1. /\ u \in Side
      /\ u.disk = s.disk /\ u.mem = s.mem /\ u.queue = s.queue /\ u.cache = s.cache
  BY UnmapParts
<1>2. \A x \in Page :
        /\ u.PT[x].page = s.PT[x].page
        /\ u.PT[x].valid <=> s.PT[x].valid /\ ~(s.mem[f].valid /\ x = w)
  BY UnmapParts
<1>3. \A i \in TLBIndex :
        /\ u.TLB[i].va = s.TLB[i].va /\ u.TLB[i].page = s.TLB[i].page
        /\ u.TLB[i].ref = s.TLB[i].ref
        /\ u.TLB[i].valid <=> s.TLB[i].valid /\ ~(s.mem[f].valid /\ s.TLB[i].va = w)
  BY UnmapParts
<1>4. t = [u EXCEPT !.mem[f] = m, !.PT[v] = [valid |-> TRUE, page |-> f]]
  BY <1>1 DEF LoadPage
<1>5. /\ m \in MemPage /\ m.valid /\ m.va = v /\ m.data = s.disk[v]
      /\ m.dirty = s.mem[f].dirty
  BY <1>0 DEF MemPage
<1>6. [valid |-> TRUE, page |-> f] \in PTEntry
  BY DEF PTEntry
<1> HIDE DEF m, t, u
<1>7. /\ t.disk = s.disk /\ t.queue = s.queue /\ t.cache = s.cache /\ t.TLB = u.TLB
      /\ t.mem = [s.mem EXCEPT ![f] = m]
      /\ t.PT = [u.PT EXCEPT ![v] = [valid |-> TRUE, page |-> f]]
  BY <1>1, <1>4 DEF Side
<1>8. t \in Side
  BY <1>1, <1>4, <1>5, <1>6 DEF Side
<1>9. t.mem[f] = m /\ \A g \in Frame : g # f => t.mem[g] = s.mem[g]
  BY <1>0, <1>7 DEF Side
<1>10. /\ t.PT[v].valid /\ t.PT[v].page = f
       /\ \A x \in Page : x # v => t.PT[x] = u.PT[x]
  BY <1>1, <1>7 DEF Side
<1>11. s.mem[f].valid => s.PT[w].valid /\ s.PT[w].page = f /\ w # v
  BY <1>0 DEF Coherent
<1>12. Coherent(t)
  <2>1. ASSUME NEW i \in TLBIndex, t.TLB[i].valid
        PROVE  t.PT[t.TLB[i].va].valid /\ t.PT[t.TLB[i].va].page = t.TLB[i].page
    <3>1. /\ s.TLB[i].valid /\ s.TLB[i].va \in Page
          /\ t.TLB[i].va = s.TLB[i].va /\ t.TLB[i].page = s.TLB[i].page
          /\ ~(s.mem[f].valid /\ s.TLB[i].va = w)
      BY <1>0, <1>3, <1>7, <2>1 DEF Side, TLBEntry
    <3>2. s.PT[s.TLB[i].va].valid /\ s.PT[s.TLB[i].va].page = s.TLB[i].page
      BY <1>0, <3>1 DEF Coherent
    <3> QED BY <1>2, <1>10, <3>1, <3>2
  <2>2. \A i, j \in TLBIndex :
          t.TLB[i].valid /\ t.TLB[j].valid /\ t.TLB[i].va = t.TLB[j].va => i = j
    BY <1>0, <1>3, <1>7 DEF Coherent
  <2>3. ASSUME NEW x \in Page, t.PT[x].valid
        PROVE  t.mem[t.PT[x].page].valid /\ t.mem[t.PT[x].page].va = x
    <3>1. CASE x = v
      BY <1>5, <1>9, <1>10, <3>1
    <3>2. CASE x # v
      <4>1. /\ s.PT[x].valid /\ t.PT[x].page = s.PT[x].page /\ s.PT[x].page \in Frame
            /\ ~(s.mem[f].valid /\ x = w)
        BY <1>0, <1>2, <1>10, <2>3, <3>2 DEF Side, PTEntry
      <4>2. s.mem[s.PT[x].page].valid /\ s.mem[s.PT[x].page].va = x
        BY <1>0, <4>1 DEF Coherent
      <4>3. s.PT[x].page # f
        BY <4>1, <4>2
      <4> QED BY <1>9, <4>1, <4>2, <4>3
    <3> QED BY <3>1, <3>2
  <2>4. ASSUME NEW g \in Frame, t.mem[g].valid
        PROVE  t.PT[t.mem[g].va].valid /\ t.PT[t.mem[g].va].page = g
    <3>1. CASE g = f
      BY <1>5, <1>9, <1>10, <3>1
    <3>2. CASE g # f
      <4>1. /\ t.mem[g] = s.mem[g] /\ s.mem[g].va \in Page
            /\ s.PT[s.mem[g].va].valid /\ s.PT[s.mem[g].va].page = g
        BY <1>0, <1>9, <2>4, <3>2 DEF Coherent, Side, MemPage
      <4>2. s.mem[g].va # v /\ ~(s.mem[f].valid /\ s.mem[g].va = w)
        BY <1>11, <3>2, <4>1
      <4> QED BY <1>2, <1>10, <4>1, <4>2
    <3> QED BY <3>1, <3>2
  <2> QED BY <2>1, <2>2, <2>3, <2>4 DEF Coherent
<1>13. Current(t)
  <2>1. SUFFICES ASSUME NEW c \in SetIndex, NEW y \in Way
                 PROVE  LineCurrent(t, c, s.cache[c][y])
    BY <1>7 DEF Current
  <2> DEFINE l == s.cache[c][y]
  <2>2. l \in Line /\ LineCurrent(s, c, l)
    BY <1>0, LineTyped DEF Current
  <2>3. l.valid => l.frame # f /\ l.frame \in Frame
    BY <2>2 DEF Empty, Line
  <2> HIDE DEF l
  <2>4. l.valid => t.mem[l.frame] = s.mem[l.frame]
    BY <1>9, <2>3
  <2>5. LineCurrent(t, c, l)
    BY <2>2, <2>4 DEF LineCurrent
  <2> QED BY <2>5 DEF l
<1>14. Unique(t) /\ Empty(t, f)
  BY <1>0, <1>7 DEF Unique, Empty
<1>15. CleanOnDisk(t)
  BY <1>0, <1>5, <1>7, <1>9 DEF CleanOnDisk
<1>16. Core(t)
  BY <1>8, <1>12, <1>13, <1>14, <1>15 DEF Core
<1>17. SameWords(s, t)
  <2>1. SUFFICES ASSUME NEW x \in Page, NEW o \in PageWord
                 PROVE  WordSeen(t, x, o) = WordSeen(s, x, o)
    BY DEF SameWords
  <2>2. CASE x = v
    <3>1. WordSeen(s, x, o) = s.disk[v][o]
      BY <2>2 DEF WordSeen
    <3>2. Hits(t, f, o) = {}
      BY <1>14, <1>16, NoHitsInEmpty
    <3>3. WordSeen(t, x, o) = t.mem[f].data[o]
      BY <1>10, <2>2, <3>2 DEF WordSeen
    <3> QED BY <1>5, <1>9, <3>1, <3>3
  <2>3. CASE x # v /\ s.mem[f].valid /\ x = w
    <3>1. ~t.PT[x].valid
      BY <1>2, <1>10, <2>3
    <3>2. WordSeen(t, x, o) = s.disk[w][o]
      BY <1>7, <2>3, <3>1 DEF WordSeen
    <3>3. Hits(s, f, o) = {}
      BY NoHitsInEmpty
    <3>4. WordSeen(s, x, o) = s.mem[f].data[o]
      BY <1>11, <2>3, <3>3 DEF WordSeen
    <3> QED BY <2>3, <3>2, <3>4 DEF OnDisk
  <2>4. CASE x # v /\ ~(s.mem[f].valid /\ x = w)
    <3>1. (t.PT[x].valid <=> s.PT[x].valid) /\ t.PT[x].page = s.PT[x].page
      BY <1>2, <1>10, <2>4
    <3>2. CASE ~s.PT[x].valid
      BY <1>7, <3>1, <3>2 DEF WordSeen
    <3>3. CASE s.PT[x].valid
      <4> DEFINE g == s.PT[x].page
      <4>1. g \in Frame /\ s.mem[g].valid /\ s.mem[g].va = x
        BY <1>0, <3>3 DEF Coherent, Side, PTEntry
      <4>2. t.mem[g] = s.mem[g]
        BY <1>9, <2>4, <4>1
      <4>3. Hits(t, g, o) = Hits(s, g, o)
        BY <1>7 DEF Hits
      <4> QED BY <1>7, <3>1, <3>3, <4>2, <4>3 DEF WordSeen
    <3> QED BY <3>2, <3>3
  <2> QED BY <2>2, <2>3, <2>4
<1>18. SameRefs(s, t)
  BY <1>3, <1>7 DEF SameRefs
<1>19. s.mem[f].valid => ~t.PT[w].valid
  BY <1>0, <1>2, <1>10, <1>11
<1>20. \A i \in TLBIndex : t.TLB[i].valid => s.TLB[i].valid /\ t.TLB[i].va = s.TLB[i].va
  BY <1>3, <1>7
<1> QED BY <1>7, <1>10, <1>14, <1>16, <1>17, <1>18, <1>19, <1>20 DEF t, u

\* A fault maps its page to an empty frame; the page it takes out loses no word.
LEMMA PageFaultCore ==
  ASSUME NEW s, Core(s), NEW v \in Page, ~s.PT[v].valid
  PROVE  LET t == PageFault(s, v) IN
         /\ Core(t) /\ SameWords(s, t) /\ SameRefs(s, t)
         /\ t.PT[v].valid /\ Empty(t, t.PT[v].page)
         /\ \A x \in Page : t.disk[x] # s.disk[x] => s.PT[x].valid /\ ~t.PT[x].valid
         /\ \A i \in TLBIndex : t.TLB[i].valid =>
              s.TLB[i].valid /\ t.TLB[i].va = s.TLB[i].va
<1> DEFINE f == s.queue[0]
           a == Touch(s, f)
           b == Flush(a, f)
           c == Save(b, f)
           t == LoadPage(Unmap(c, f), f, v)
<1>1. f \in Frame /\ s \in Side
  <2>1. s \in Side
    BY DEF Core
  <2>2. s.queue \in [Frame -> Frame]
    BY <2>1 DEF Side
  <2> QED BY <2>1, <2>2, SizesAssumption DEF Frame
<1>2. /\ Core(a) /\ SameWords(s, a)
      /\ a.disk = s.disk /\ a.mem = s.mem /\ a.PT = s.PT /\ a.TLB = s.TLB
      /\ a.cache = s.cache
  BY <1>1, TouchCore DEF Touch, Side
<1> HIDE DEF a
<1>3. /\ Core(b) /\ SameWords(a, b) /\ Empty(b, f) /\ SameRefs(a, b)
      /\ b.PT = a.PT /\ b.TLB = a.TLB /\ b.disk = a.disk
      /\ (b.mem[f].valid <=> a.mem[f].valid) /\ b.mem[f].va = a.mem[f].va
  BY <1>1, <1>2, FlushCore
<1> HIDE DEF b
<1>4. /\ Core(c) /\ SameWords(b, c) /\ OnDisk(c, f)
      /\ c.PT = b.PT /\ c.TLB = b.TLB /\ c.cache = b.cache /\ c.mem = b.mem
      /\ \A x \in Page : c.disk[x] # b.disk[x] => b.mem[f].valid /\ b.mem[f].va = x
  BY <1>1, <1>3, SaveCore
<1> HIDE DEF c
<1>5. Empty(c, f) /\ ~c.PT[v].valid
  BY <1>2, <1>3, <1>4 DEF Empty
<1>6. /\ Core(t) /\ SameWords(c, t) /\ Empty(t, f) /\ SameRefs(c, t)
      /\ t.PT[v].valid /\ t.PT[v].page = f /\ t.disk = c.disk
      /\ c.mem[f].valid => ~t.PT[c.mem[f].va].valid
      /\ \A i \in TLBIndex : t.TLB[i].valid =>
           c.TLB[i].valid /\ t.TLB[i].va = c.TLB[i].va
  BY <1>1, <1>4, <1>5, LoadPageCore
<1> HIDE DEF t
<1>7. SameWords(s, t)
  BY <1>2, <1>3, <1>4, <1>6 DEF SameWords
<1>8. SameRefs(s, t)
  BY <1>2, <1>3, <1>4, <1>6 DEF SameRefs
<1>9. ASSUME NEW x \in Page, t.disk[x] # s.disk[x]
      PROVE  s.PT[x].valid /\ ~t.PT[x].valid
  <2>1. s.mem[f].valid /\ s.mem[f].va = x
    BY <1>2, <1>3, <1>4, <1>6, <1>9
  <2>2. s.PT[x].valid
    BY <1>1, <2>1 DEF Core, Coherent
  <2>3. ~t.PT[x].valid
    BY <1>2, <1>3, <1>4, <1>6, <2>1
  <2> QED BY <2>2, <2>3
<1>10. \A i \in TLBIndex : t.TLB[i].valid => s.TLB[i].valid /\ t.TLB[i].va = s.TLB[i].va
  BY <1>2, <1>3, <1>4, <1>6
<1>11. PageFault(s, v) = t
  BY DEF PageFault, t, c, b, a
<1> QED BY <1>6, <1>7, <1>8, <1>9, <1>10, <1>11

\* The TLB has an entry.
LEMMA TLBSize == TLBEntries \in Nat \ {0} /\ TLBIndex = 0 .. TLBEntries - 1
<1>1. DiskPages \in Nat /\ DiskPages >= 4
  BY SizesAssumption
<1> QED BY <1>1 DEF TLBEntries, TLBIndex

\* A page in the TLB is in the page table, in the frame the TLB says.
LEMMA TLBHitFrame ==
  ASSUME NEW t, Core(t), NEW v \in Page, TLBHits(t, v) # {}
  PROVE  FrameOf(t, v) = t.PT[v].page /\ t.PT[v].valid /\ t.PT[v].page \in Frame
<1> DEFINE H == TLBHits(t, v)
<1>1. H \in SUBSET Nat /\ \A i \in H : i \in TLBIndex /\ t.TLB[i].va = v /\ t.TLB[i].valid
  BY TLBSize DEF TLBHits
<1> HIDE DEF H
<1>2. First(H) \in H
  BY <1>1, FirstIn DEF H
<1>3. t.PT[v].valid /\ t.PT[v].page = t.TLB[First(H)].page
  <2>1. First(H) \in TLBIndex /\ t.TLB[First(H)].va = v /\ t.TLB[First(H)].valid
    BY <1>1, <1>2
  <2>2. Coherent(t)
    BY DEF Core
  <2> QED BY <2>1, <2>2 DEF Coherent
<1>4. t.PT[v].page \in Frame
  BY DEF Core, Side, PTEntry
<1> QED BY <1>3, <1>4 DEF FrameOf, H

\* A TLB fill repeats the page table's entry and moves the rotation on.
LEMMA TLBFillCore ==
  ASSUME NEW s, Core(s), TLBRotates(s), NEW v \in Page, s.PT[v].valid, TLBHits(s, v) = {}
  PROVE  LET t == TLBFill(s, v) IN
         /\ Core(t) /\ TLBRotates(t) /\ SameWords(s, t) /\ TLBHits(t, v) # {}
         /\ t.disk = s.disk /\ t.mem = s.mem /\ t.PT = s.PT /\ t.cache = s.cache
<1> DEFINE new == Victim(TLBIndex, TLBRefs(s))
           e == [valid |-> TRUE, va |-> v, page |-> s.PT[v].page, ref |-> 0]
           T == [i \in TLBIndex |-> IF i = new THEN e ELSE [s.TLB[i] EXCEPT !.ref = @ + 1]]
           t == TLBFill(s, v)
<1>0. s \in Side /\ Coherent(s)
  BY DEF Core
<1>1. TLBRefs(s) \in [0 .. TLBEntries - 1 -> Nat]
  BY <1>0, TLBSize DEF TLBRefs, Side, TLBEntry
<1>2. PICK p \in TLBIndex : Rotation(TLBEntries, p, TLBRefs(s))
  BY DEF TLBRotates
<1>3. new = p
  BY <1>1, <1>2, TLBSize, VictimOfRotation
<1> HIDE DEF new
<1>4. e \in TLBEntry
  BY <1>0 DEF TLBEntry, Side, PTEntry
<1>5. \A i \in TLBIndex : i # p =>
        /\ [s.TLB[i] EXCEPT !.ref = @ + 1] \in TLBEntry
        /\ (T[i].valid <=> s.TLB[i].valid) /\ T[i].va = s.TLB[i].va
        /\ T[i].page = s.TLB[i].page /\ T[i].ref = s.TLB[i].ref + 1
  BY <1>0, <1>3 DEF Side, TLBEntry
<1>6. T[p].valid /\ T[p].va = v /\ T[p].page = s.PT[v].page /\ T[p].ref = 0
  BY <1>3
<1>7. T \in [TLBIndex -> TLBEntry]
  BY <1>3, <1>4, <1>5
<1>8. t = [s EXCEPT !.TLB = T]
  BY DEF TLBFill, new
<1> HIDE DEF T, t
<1>9. /\ t \in Side /\ t.TLB = T
      /\ t.disk = s.disk /\ t.mem = s.mem /\ t.PT = s.PT /\ t.cache = s.cache
  BY <1>0, <1>7, <1>8 DEF Side
<1>10. Coherent(t)
  <2>1. ASSUME NEW i \in TLBIndex, T[i].valid
        PROVE  s.PT[T[i].va].valid /\ s.PT[T[i].va].page = T[i].page
    <3>1. CASE i = p
      BY <1>6, <3>1
    <3>2. CASE i # p
      <4>1. s.TLB[i].valid /\ T[i].va = s.TLB[i].va /\ T[i].page = s.TLB[i].page
        BY <1>5, <2>1, <3>2
      <4>2. s.PT[s.TLB[i].va].valid /\ s.PT[s.TLB[i].va].page = s.TLB[i].page
        BY <1>0, <4>1 DEF Coherent
      <4> QED BY <4>1, <4>2
    <3> QED BY <3>1, <3>2
  <2>2. \A i \in TLBIndex : s.TLB[i].valid => s.TLB[i].va # v
    BY DEF TLBHits
  <2>3. \A i, j \in TLBIndex : T[i].valid /\ T[j].valid /\ T[i].va = T[j].va => i = j
    <3>1. TAKE i, j \in TLBIndex
    <3>2. CASE i = p \/ j = p
      BY <1>5, <1>6, <2>2, <3>2
    <3>3. CASE i # p /\ j # p
      <4>1. /\ T[i].valid <=> s.TLB[i].valid
            /\ T[j].valid <=> s.TLB[j].valid
            /\ T[i].va = s.TLB[i].va /\ T[j].va = s.TLB[j].va
        BY <1>5, <3>3
      <4>2. s.TLB[i].valid /\ s.TLB[j].valid /\ s.TLB[i].va = s.TLB[j].va => i = j
        BY <1>0 DEF Coherent
      <4> QED BY <4>1, <4>2
    <3> QED BY <3>2, <3>3
  <2> QED BY <1>0, <1>9, <2>1, <2>3 DEF Coherent
<1>11. Current(t) /\ Unique(t) /\ CleanOnDisk(t)
  <2>1. \A c, l : LineCurrent(t, c, l) <=> LineCurrent(s, c, l)
    BY <1>9 DEF LineCurrent
  <2>2. Current(t)
    BY <1>9, <2>1 DEF Core, Current
  <2>3. Unique(t)
    BY <1>9 DEF Core, Unique
  <2>4. CleanOnDisk(t)
    BY <1>9 DEF Core, CleanOnDisk
  <2> QED BY <2>2, <2>3, <2>4
<1>12. SameWords(s, t)
  <2>1. \A f, o : Hits(t, f, o) = Hits(s, f, o)
    BY <1>9 DEF Hits
  <2> QED BY <1>9, <2>1 DEF SameWords, WordSeen
<1>13. TLBHits(t, v) # {}
  BY <1>6, <1>9 DEF TLBHits
<1>14. TLBRotates(t)
  <2> DEFINE R == [i \in 0 .. TLBEntries - 1 |-> IF i = p THEN 0 ELSE TLBRefs(s)[i] + 1]
  <2>1. PICK q \in 0 .. TLBEntries - 1 : Rotation(TLBEntries, q, R)
    BY <1>1, <1>2, TLBSize, RotationAdvances
  <2>2. \A i \in TLBIndex : T[i].ref = IF i = p THEN 0 ELSE TLBRefs(s)[i] + 1
    BY <1>5, <1>6 DEF TLBRefs
  <2>3. TLBRefs(t) = R
    BY <1>9, <2>2, TLBSize DEF TLBRefs
  <2> QED BY <2>1, <2>3, TLBSize DEF TLBRotates
<1> QED BY <1>9, <1>10, <1>11, <1>12, <1>13, <1>14 DEF Core, t

SideOK(s) == Core(s) /\ TLBRotates(s) /\ CacheRotates(s)

\* The rotations depend on the counters only.
LEMMA SameRefsRotate ==
  ASSUME NEW s, NEW t, SameRefs(s, t)
  PROVE  /\ TLBRotates(s) => TLBRotates(t)
         /\ CacheRotates(s) => CacheRotates(t)
<1>1. TLBRefs(t) = TLBRefs(s)
  BY DEF SameRefs, TLBRefs
<1>2. \A c \in SetIndex : CacheRefs(t, c) = CacheRefs(s, c)
  BY DEF SameRefs, CacheRefs
<1> QED BY <1>1, <1>2 DEF TLBRotates, CacheRotates

\* Translation leaves the page in the TLB and every word as it was.
LEMMA TranslateOK ==
  ASSUME NEW s, SideOK(s), NEW v \in Page
  PROVE  LET t == Translate(s, v) IN
         /\ SideOK(t) /\ SameWords(s, t)
         /\ TLBHits(t, v) # {}
         /\ TLBHits(s, v) = {} /\ ~s.PT[v].valid => Empty(t, t.PT[v].page)
         /\ \A x \in Page : t.disk[x] # s.disk[x] =>
              /\ TLBHits(s, v) = {} /\ ~s.PT[v].valid
              /\ s.PT[x].valid /\ ~t.PT[x].valid
<1> DEFINE t == Translate(s, v)
<1>1. CASE TLBHits(s, v) # {}
  <2>1. t = s
    BY <1>1 DEF Translate
  <2> QED BY <1>1, <2>1 DEF SameWords
<1>2. CASE TLBHits(s, v) = {} /\ s.PT[v].valid
  <2>1. t = TLBFill(s, v)
    BY <1>2 DEF Translate
  <2> HIDE DEF t
  <2>2. /\ Core(t) /\ TLBRotates(t) /\ SameWords(s, t) /\ TLBHits(t, v) # {}
        /\ t.disk = s.disk /\ t.PT = s.PT /\ t.cache = s.cache
    BY <1>2, <2>1, TLBFillCore DEF SideOK
  <2>3. CacheRotates(t)
    BY <2>2 DEF SideOK, CacheRotates, CacheRefs
  <2> QED BY <1>2, <2>2, <2>3 DEF SideOK, t
<1>3. CASE TLBHits(s, v) = {} /\ ~s.PT[v].valid
  <2> DEFINE u == PageFault(s, v)
  <2>1. t = TLBFill(u, v)
    BY <1>3 DEF Translate
  <2>2. /\ Core(u) /\ SameWords(s, u) /\ SameRefs(s, u)
        /\ u.PT[v].valid /\ Empty(u, u.PT[v].page)
        /\ \A x \in Page : u.disk[x] # s.disk[x] => s.PT[x].valid /\ ~u.PT[x].valid
        /\ \A i \in TLBIndex : u.TLB[i].valid => s.TLB[i].valid /\ u.TLB[i].va = s.TLB[i].va
    BY <1>3, PageFaultCore DEF SideOK
  <2> HIDE DEF t, u
  <2>3. TLBHits(u, v) = {}
    BY <1>3, <2>2 DEF TLBHits
  <2>4. TLBRotates(u) /\ CacheRotates(u)
    BY <2>2, SameRefsRotate DEF SideOK
  <2>5. /\ Core(t) /\ TLBRotates(t) /\ SameWords(u, t) /\ TLBHits(t, v) # {}
        /\ t.disk = u.disk /\ t.PT = u.PT /\ t.cache = u.cache
    BY <2>1, <2>2, <2>3, <2>4, TLBFillCore
  <2>6. CacheRotates(t)
    BY <2>4, <2>5 DEF CacheRotates, CacheRefs
  <2>7. SameWords(s, t)
    BY <2>2, <2>5 DEF SameWords
  <2>8. Empty(t, t.PT[v].page)
    BY <2>2, <2>5 DEF Empty
  <2> QED BY <1>3, <2>2, <2>5, <2>6, <2>7, <2>8 DEF SideOK, t
<1> QED BY <1>1, <1>2, <1>3
=============================================================================
