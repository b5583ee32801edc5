---------------------------- MODULE CacheProofs -----------------------------
(***************************************************************************)
(* What one access does to the cache, stage by stage, and to the side as a *)
(* whole.  Every stage keeps Core, and none but the store itself changes a *)
(* word the program sees: whatever the caches do, a load returns that word *)
(* and a store changes the word it addresses and no other.                 *)
(***************************************************************************)
EXTENDS HierarchyProofs

\* Aging a set changes its counters and nothing else.
LEMMA AgeCore ==
  ASSUME NEW s, Core(s), NEW c \in SetIndex
  PROVE  LET t == Age(s, c) IN
         /\ Core(t) /\ SameWords(s, t)
         /\ t.disk = s.disk /\ t.mem = s.mem /\ t.PT = s.PT /\ t.TLB = s.TLB
         /\ \A d \in SetIndex, y \in Way :
              t.cache[d][y].ref = IF d = c THEN s.cache[d][y].ref + 1 ELSE s.cache[d][y].ref
         /\ \A f, o : Hits(t, f, o) = Hits(s, f, o) \/ ~(Index(f, o) \in SetIndex)
<1> DEFINE R == [y \in Way |-> [s.cache[c][y] EXCEPT !.ref = @ + 1]]
           t == Age(s, c)
<1>0. s \in Side /\ Coherent(s) /\ Current(s) /\ Unique(s) /\ CleanOnDisk(s)
  BY DEF Core
<1>1. \A y \in Way :
        /\ R[y] \in Line /\ R[y].ref = s.cache[c][y].ref + 1
        /\ (R[y].valid <=> s.cache[c][y].valid) /\ (R[y].dirty <=> s.cache[c][y].dirty)
        /\ R[y].tag = s.cache[c][y].tag /\ R[y].va = s.cache[c][y].va
        /\ R[y].frame = s.cache[c][y].frame /\ R[y].start = s.cache[c][y].start
        /\ R[y].data = s.cache[c][y].data
  <2>1. \A y \in Way : s.cache[c][y] \in Line
    BY <1>0, LineTyped
  <2> QED BY <2>1 DEF Line
<1>2. R \in [Way -> Line]
  BY <1>1
<1>3. t = [s EXCEPT !.cache[c] = R]
  BY DEF Age
<1> HIDE DEF R, t
<1>4. /\ t \in Side
      /\ t.disk = s.disk /\ t.mem = s.mem /\ t.PT = s.PT /\ t.TLB = s.TLB
      /\ t.cache = [s.cache EXCEPT ![c] = R]
  BY <1>0, <1>2, <1>3 DEF Side
<1>5. t.cache[c] = R /\ \A d \in SetIndex : d # c => t.cache[d] = s.cache[d]
  BY <1>0, <1>4 DEF Side
<1>6. \A d \in SetIndex, y \in Way :
        /\ (t.cache[d][y].valid <=> s.cache[d][y].valid)
        /\ (t.cache[d][y].dirty <=> s.cache[d][y].dirty)
        /\ t.cache[d][y].tag = s.cache[d][y].tag /\ t.cache[d][y].va = s.cache[d][y].va
        /\ t.cache[d][y].frame = s.cache[d][y].frame
        /\ t.cache[d][y].start = s.cache[d][y].start
        /\ t.cache[d][y].data = s.cache[d][y].data
  BY <1>1, <1>5
<1>7. Current(t)
  <2>1. SUFFICES ASSUME NEW d \in SetIndex, NEW y \in Way
                 PROVE  LineCurrent(t, d, t.cache[d][y])
    BY DEF Current
  <2> DEFINE l == s.cache[d][y]
             k == t.cache[d][y]
  <2>2. /\ (k.valid <=> l.valid) /\ (k.dirty <=> l.dirty) /\ k.tag = l.tag /\ k.va = l.va
        /\ k.frame = l.frame /\ k.start = l.start /\ k.data = l.data
    BY <1>6
  <2>3. LineCurrent(s, d, l)
    BY <1>0 DEF Current
  <2> HIDE DEF l, k
  <2>4. LineCurrent(t, d, k)
    BY <1>4, <2>2, <2>3 DEF LineCurrent, FirstWord
  <2> QED BY <2>4 DEF k
<1>8. Coherent(t) /\ CleanOnDisk(t)
  <2>1. Coherent(t)
    BY <1>0, <1>4 DEF Coherent
  <2>2. CleanOnDisk(t)
    BY <1>0, <1>4 DEF CleanOnDisk
  <2> QED BY <2>1, <2>2
<1>9. Unique(t)
  BY <1>0, <1>6 DEF Unique
<1>10. \A f, o : Index(f, o) \in SetIndex => Hits(t, f, o) = Hits(s, f, o)
  BY <1>6 DEF Hits
<1>11. SameWords(s, t)
  <2>1. SUFFICES ASSUME NEW v \in Page, NEW o \in PageWord
                 PROVE  WordSeen(t, v, o) = WordSeen(s, v, o)
    BY DEF SameWords
  <2> DEFINE f == s.PT[v].page
  <2>2. f \in Frame
    BY <1>0 DEF Side, PTEntry
  <2>3. Index(f, o) \in SetIndex
    BY <2>2, BlockTyped
  <2>4. Hits(t, f, o) = Hits(s, f, o)
    BY <1>10, <2>3
  <2>5. CASE Hits(s, f, o) = {}
    BY <1>4, <2>4, <2>5 DEF WordSeen
  <2>6. CASE Hits(s, f, o) # {}
    <3>1. PICK y \in Hits(s, f, o) : First(Hits(s, f, o)) = y /\ y \in Way
      BY <1>0, <2>2, <2>6, HitLine
    <3>2. t.cache[Index(f, o)][y].data = s.cache[Index(f, o)][y].data
      BY <1>6, <2>3, <3>1
    <3> QED BY <1>4, <2>4, <2>6, <3>1, <3>2 DEF WordSeen
  <2> QED BY <2>5, <2>6
<1>12. \A d \in SetIndex, y \in Way :
         t.cache[d][y].ref = IF d = c THEN s.cache[d][y].ref + 1 ELSE s.cache[d][y].ref
  BY <1>1, <1>5
<1> QED BY <1>4, <1>7, <1>8, <1>9, <1>10, <1>11, <1>12 DEF Core, t
\* The words of a line lie in its frame, and none of them in another block.
LEMMA LineWords ==
  ASSUME NEW l \in Line, FirstWord(l) % BlockWords = 0
  PROVE  /\ StartWord(l.start) = FirstWord(l)
         /\ \A k \in BlockWord : FirstWord(l) + k \in PageWord
         /\ \A o \in PageWord : o \in FirstWord(l) .. FirstWord(l) + BlockWords - 1
              <=> o \div BlockWords = FirstWord(l) \div BlockWords
         /\ \A o \in PageWord : o \in FirstWord(l) .. FirstWord(l) + BlockWords - 1
              => o - FirstWord(l) = o % BlockWords /\ o - FirstWord(l) \in BlockWord
<1> DEFINE b == FirstWord(l)
<1>1. b \in PageWord
  BY FirstWordTyped
<1>2. b + BlockWords <= PageWords
  BY <1>1, BlockFits
<1>3. StartWord(l.start) = b
  <2>1. l.start \in Nat /\ (l.start \div 4) % BlockWords = 0
    BY SizesAssumption DEF Line, Offset, FirstWord
  <2>2. BlockStart(l.start) = l.start
    BY <2>1 DEF BlockStart
  <2> QED BY <2>2 DEF StartWord, FirstWord
<1> HIDE DEF b
<1>4. b \in Nat /\ BlockWords \in Nat \ {0} /\ PageWords \in Nat /\ b % BlockWords = 0
  BY <1>1, SizesAssumption DEF PageWord, b
<1>5. \A k \in BlockWord : b + k \in PageWord
  BY <1>2, <1>4 DEF BlockWord, PageWord
<1>6. ASSUME NEW o \in PageWord, o \in b .. b + BlockWords - 1
      PROVE  o \div BlockWords = b \div BlockWords
             /\ o - b = o % BlockWords /\ o - b \in BlockWord
  <2>1. o - b \in BlockWord /\ b + (o - b) = o
    BY <1>4, <1>6 DEF BlockWord
  <2> DEFINE k == o - b
  <2>2. (b + k) % BlockWords = k /\ (b + k) \div BlockWords = b \div BlockWords
    BY <1>4, <2>1, BlockOffset
  <2> QED BY <2>1, <2>2
<1>7. ASSUME NEW o \in PageWord, o \div BlockWords = b \div BlockWords
      PROVE  o \in b .. b + BlockWords - 1
  <2> DEFINE q == b \div BlockWords
             r == o % BlockWords
  <2>1. o \in Nat
    BY SizesAssumption DEF PageWord
  <2>2. o = BlockWords * q + r /\ r \in 0 .. BlockWords - 1
    BY <1>4, <1>7, <2>1, DivMod
  <2>3. b = BlockWords * q + (b % BlockWords) /\ q \in Nat
    BY <1>4, DivMod
  <2>4. BlockWords * q \in Nat
    BY <1>4, <2>3
  <2> HIDE DEF q, r
  <2>5. b = BlockWords * q
    BY <1>4, <2>3, <2>4
  <2> QED BY <1>4, <2>2, <2>4, <2>5
<1> QED BY <1>3, <1>5, <1>6, <1>7 DEF b

\* Coherence looks at the frames' valid and VA_page only.
LEMMA CoherentSameFrames ==
  ASSUME NEW s, NEW t, s \in Side, Coherent(s), t.PT = s.PT, t.TLB = s.TLB,
         \A f \in Frame : (t.mem[f].valid <=> s.mem[f].valid) /\ t.mem[f].va = s.mem[f].va
  PROVE  Coherent(t)
<1>1. \A v \in Page : s.PT[v].page \in Frame
  BY DEF Side, PTEntry
<1>2. \A i \in TLBIndex : t.TLB[i].valid =>
        t.PT[t.TLB[i].va].valid /\ t.PT[t.TLB[i].va].page = t.TLB[i].page
  BY DEF Coherent
<1>3. \A i, j \in TLBIndex :
        t.TLB[i].valid /\ t.TLB[j].valid /\ t.TLB[i].va = t.TLB[j].va => i = j
  BY DEF Coherent
<1>4. \A v \in Page : t.PT[v].valid =>
        t.mem[t.PT[v].page].valid /\ t.mem[t.PT[v].page].va = v
  BY <1>1 DEF Coherent
<1>5. \A f \in Frame : t.mem[f].valid =>
        t.PT[t.mem[f].va].valid /\ t.PT[t.mem[f].va].page = f
  BY DEF Coherent
<1> QED BY <1>2, <1>3, <1>4, <1>5 DEF Coherent

\* Lookups read valid and tag only.
LEMMA SameHits ==
  ASSUME NEW s, NEW t,
         \A d \in SetIndex, z \in Way :
           (t.cache[d][z].valid <=> s.cache[d][z].valid) /\ t.cache[d][z].tag = s.cache[d][z].tag
  PROVE  \A f, o : Index(f, o) \in SetIndex => Hits(t, f, o) = Hits(s, f, o)
  BY DEF Hits

\* Copying a dirty victim to its frame changes no word: the block it covers
\* is cached nowhere else.
LEMMA WriteBackCore ==
  ASSUME NEW s, Core(s), NEW c \in SetIndex, NEW y \in Way
  PROVE  LET t == WriteBack(s, c, y) IN
         /\ Core(t) /\ SameWords(s, t)
         /\ t.disk = s.disk /\ t.PT = s.PT /\ t.TLB = s.TLB
         /\ ~t.cache[c][y].dirty
         /\ \A d \in SetIndex, z \in Way :
              /\ (t.cache[d][z].valid <=> s.cache[d][z].valid)
              /\ t.cache[d][z].tag = s.cache[d][z].tag
              /\ t.cache[d][z].ref = s.cache[d][z].ref
<1> DEFINE t == WriteBack(s, c, y)
           l == s.cache[c][y]
           g == l.frame
           b == FirstWord(l)
<1>0. s \in Side /\ Coherent(s) /\ Current(s) /\ Unique(s) /\ CleanOnDisk(s)
  BY DEF Core
<1>1. CASE ~l.dirty
  <2>1. t = s
    BY <1>1 DEF WriteBack
  <2> QED BY <1>1, <2>1 DEF SameWords
<1>2. CASE l.dirty
  <2>1. /\ t \in Side
        /\ t.disk = s.disk /\ t.PT = s.PT /\ t.TLB = s.TLB
        /\ l.valid /\ g \in Frame
        /\ \A h \in Frame : h # g => t.mem[h] = s.mem[h]
        /\ (t.mem[g].valid <=> s.mem[g].valid) /\ t.mem[g].va = s.mem[g].va
        /\ t.mem[g].dirty
        /\ \A o \in PageWord :
             t.mem[g].data[o] = IF o \in b .. b + BlockWords - 1
                                THEN l.data[o - b] ELSE s.mem[g].data[o]
        /\ t.cache[c][y].valid /\ ~t.cache[c][y].dirty /\ t.cache[c][y].tag = l.tag
        /\ t.cache[c][y].ref = l.ref /\ t.cache[c][y].va = l.va
        /\ t.cache[c][y].frame = g /\ t.cache[c][y].start = l.start
        /\ t.cache[c][y].data = l.data
        /\ \A d \in SetIndex, z \in Way :
             d # c \/ z # y => t.cache[d][z] = s.cache[d][z]
    <3> DEFINE D == [o \in PageWord |-> IF o \in b .. b + BlockWords - 1
                                        THEN l.data[o - b] ELSE s.mem[g].data[o]]
               m == [valid |-> s.mem[g].valid, dirty |-> TRUE,
                     va |-> IF b = 0 THEN l.va ELSE s.mem[g].va, data |-> D]
               k == [l EXCEPT !.dirty = FALSE]
    <3>0. s \in Side /\ l \in Line /\ LineCurrent(s, c, l)
      BY LineTyped DEF Core, Current
    <3>1. l.valid
      BY <1>2, <3>0 DEF LineCurrent
    <3>2. /\ s.mem[g].valid /\ s.mem[g].va = l.va
          /\ FirstWord(l) % BlockWords = 0
      BY <3>0, <3>1 DEF LineCurrent
    <3>3. StartWord(l.start) = b
          /\ \A o \in PageWord : o \in b .. b + BlockWords - 1 => o - b \in BlockWord
      <4> HIDE DEF l
      <4> QED BY <3>0, <3>2, LineWords
    <3>4. g \in Frame /\ s.mem[g] \in MemPage
      BY <3>0 DEF Line, Side
    <3>5. D \in [PageWord -> Word]
      <4>1. l.data \in [BlockWord -> Word] /\ s.mem[g].data \in [PageWord -> Word]
        BY <3>0, <3>4 DEF Line, MemPage
      <4> HIDE DEF l, g, b
      <4> QED BY <3>3, <4>1
    <3>6. k \in Line
      BY <3>0 DEF Line
    <3>7. t = [s EXCEPT !.mem[g] = m, !.cache[c][y].dirty = FALSE]
      BY <1>2, <3>3 DEF WriteBack
    <3>8. /\ m \in MemPage /\ m.valid = s.mem[g].valid /\ m.dirty /\ m.va = s.mem[g].va
          /\ m.data = D
      <4>1. m.va = s.mem[g].va
        BY <3>2
      <4> QED BY <3>4, <3>5, <4>1 DEF MemPage
    <3>9. t = [s EXCEPT !.mem[g] = m, !.cache[c][y] = k]
      BY <3>0, <3>7 DEF Side
    <3> HIDE DEF t, l, g, b, D, m, k
    <3>10. /\ t.disk = s.disk /\ t.PT = s.PT /\ t.TLB = s.TLB /\ t.queue = s.queue
           /\ t.mem = [s.mem EXCEPT ![g] = m]
           /\ t.cache = [s.cache EXCEPT ![c][y] = k]
      BY <3>0, <3>9 DEF Side
    <3>11. t.mem \in [Frame -> MemPage]
      BY <3>0, <3>4, <3>8, <3>10 DEF Side
    <3>12. t.cache \in [SetIndex -> [Way -> Line]]
      BY <3>0, <3>6, <3>10 DEF Side
    <3>13. t \in Side
      BY <3>0, <3>9, <3>10, <3>11, <3>12 DEF Side
    <3>14. t.mem[g] = m /\ \A h \in Frame : h # g => t.mem[h] = s.mem[h]
      BY <3>0, <3>4, <3>10 DEF Side
    <3>15. /\ t.cache[c][y] = k
           /\ \A d \in SetIndex, z \in Way : d # c \/ z # y => t.cache[d][z] = s.cache[d][z]
      BY <3>0, <3>10 DEF Side
    <3>16. \A o \in PageWord :
             t.mem[g].data[o] = IF o \in b .. b + BlockWords - 1
                                THEN l.data[o - b] ELSE s.mem[g].data[o]
      BY <3>8, <3>14 DEF D
    <3>17. /\ k.valid /\ ~k.dirty /\ k.tag = l.tag /\ k.ref = l.ref /\ k.va = l.va
           /\ k.frame = g /\ k.start = l.start /\ k.data = l.data
      BY <3>0, <3>1 DEF k, g, Line
    <3> QED BY <3>1, <3>4, <3>8, <3>10, <3>13, <3>14, <3>15, <3>16, <3>17 DEF t, l, g, b
  <2>2. l \in Line /\ LineCurrent(s, c, l)
    BY <1>0, LineTyped DEF Current
  <2>3. b \in PageWord /\ b % BlockWords = 0 /\ Index(g, b) = c /\ Tag(g, b) = l.tag
        /\ s.mem[g].valid /\ s.mem[g].va = l.va
    <3>1. b \in PageWord
      BY <2>2, FirstWordTyped
    <3> QED BY <2>1, <2>2, <3>1 DEF LineCurrent
  <2>4. /\ \A k \in BlockWord : b + k \in PageWord
        /\ \A o \in PageWord : o \in b .. b + BlockWords - 1
             <=> o \div BlockWords = b \div BlockWords
        /\ \A o \in PageWord : o \in b .. b + BlockWords - 1 => o - b \in BlockWord
    <3> HIDE DEF l
    <3> QED BY <2>2, <2>3, LineWords
  <2>5. LET k == t.cache[c][y] IN
        /\ k.valid /\ ~k.dirty /\ k.tag = l.tag /\ k.ref = l.ref /\ k.va = l.va
        /\ k.frame = g /\ k.start = l.start /\ k.data = l.data
    BY <2>1
  <2>6. \A d \in SetIndex, z \in Way :
          /\ (t.cache[d][z].valid <=> s.cache[d][z].valid)
          /\ t.cache[d][z].tag = s.cache[d][z].tag
          /\ t.cache[d][z].ref = s.cache[d][z].ref
          /\ t.cache[d][z].data = s.cache[d][z].data
    <3>1. TAKE d \in SetIndex, z \in Way
    <3>2. CASE d = c /\ z = y
      BY <2>1, <2>5, <3>2
    <3>3. CASE d # c \/ z # y
      <4>1. t.cache[d][z] = s.cache[d][z]
        BY <2>1, <3>3
      <4> QED BY <4>1
    <3> QED BY <3>2, <3>3
  <2> HIDE DEF t, l, g, b
  <2>7. \A f \in Frame : (t.mem[f].valid <=> s.mem[f].valid) /\ t.mem[f].va = s.mem[f].va
    BY <2>1
  <2>8. Coherent(t)
    BY <1>0, <2>1, <2>7, CoherentSameFrames
  <2>9. Unique(t)
    BY <1>0, <2>6 DEF Unique
  <2>10. CleanOnDisk(t)
    BY <1>0, <2>1, <2>3 DEF CleanOnDisk
  <2>11. \A f, o : Index(f, o) \in SetIndex => Hits(t, f, o) = Hits(s, f, o)
    BY <2>6, SameHits
  \* A word of the block written back is looked up in the victim only.
  <2>12. \A o \in PageWord : o \in b .. b + BlockWords - 1 =>
           Index(g, o) = c /\ Tag(g, o) = l.tag
    <3>1. TAKE o \in PageWord
    <3>2. HAVE o \in b .. b + BlockWords - 1
    <3>3. o \div BlockWords = b \div BlockWords
      BY <2>4, <3>2
    <3>4. Index(g, o) = Index(g, b) /\ Tag(g, o) = Tag(g, b)
      BY <2>1, <2>3, <3>3, SameBlock
    <3> QED BY <2>3, <3>4
  <2>13. Current(t)
    <3>1. SUFFICES ASSUME NEW d \in SetIndex, NEW z \in Way
                   PROVE  LineCurrent(t, d, t.cache[d][z])
      BY DEF Current
    <3>2. CASE d = c /\ z = y
      <4> DEFINE k == t.cache[c][y]
      <4>1. \A j \in BlockWord : k.data[j] = t.mem[g].data[b + j]
        <5>1. TAKE j \in BlockWord
        <5>2. b + j \in PageWord /\ b + j \in b .. b + BlockWords - 1 /\ (b + j) - b = j
          <6>1. b + j \in PageWord
            BY <2>4
          <6>2. b \in Nat /\ j \in 0 .. BlockWords - 1 /\ BlockWords \in Nat
            BY <2>3, SizesAssumption DEF BlockWord, PageWord
          <6>3. b + j \in b .. b + BlockWords - 1 /\ (b + j) - b = j
            BY <6>2
          <6> QED BY <6>1, <6>3
        <5> QED BY <2>1, <2>5, <5>2
      <4>2. FirstWord(k) = b
        BY <2>5 DEF FirstWord, b
      <4> HIDE DEF k
      <4>3. LineCurrent(t, c, k)
        <5>1. /\ k.valid /\ ~k.dirty /\ k.tag = l.tag /\ k.va = l.va /\ k.frame = g
              /\ t.mem[g].valid /\ t.mem[g].va = l.va
          BY <2>1, <2>3, <2>5 DEF k
        <5> QED BY <2>3, <4>1, <4>2, <5>1 DEF LineCurrent
      <4> QED BY <3>2, <4>3 DEF k
    <3>3. CASE d # c \/ z # y
      <4> DEFINE k == s.cache[d][z]
                 e == FirstWord(k)
      <4>1. t.cache[d][z] = k /\ LineCurrent(s, d, k) /\ k \in Line
        BY <1>0, <2>1, <3>3, LineTyped DEF Current
      <4>2. k.frame \in Frame /\ e \in PageWord
        BY <4>1, FirstWordTyped DEF Line
      <4>3. ASSUME k.valid, ~k.dirty, k.frame = g, NEW j \in BlockWord
            PROVE  t.mem[g].data[e + j] = s.mem[g].data[e + j]
        <5>1. e % BlockWords = 0 /\ Index(g, e) = d /\ Tag(g, e) = k.tag
          BY <4>1, <4>3 DEF LineCurrent
        <5>2. e + j \in PageWord
          <6> HIDE DEF k
          <6> QED BY <4>1, <4>3, <5>1, LineWords
        <5>3. (e + j) \div BlockWords = e \div BlockWords
          BY <4>2, <5>1, BlockOffset, SizesAssumption DEF PageWord
        <5>4. Index(g, e + j) = d /\ Tag(g, e + j) = k.tag
          BY <2>1, <4>2, <5>1, <5>2, <5>3, SameBlock
        <5>5. ASSUME e + j \in b .. b + BlockWords - 1 PROVE FALSE
          <6>1. c = d /\ k.tag = l.tag
            BY <2>12, <5>2, <5>4, <5>5
          <6>2. z = y
            BY <1>0, <2>1, <4>3, <6>1 DEF Unique, l
          <6> QED BY <3>3, <6>1, <6>2
        <5> QED BY <2>1, <5>2, <5>5
      <4> HIDE DEF k, e
      <4>4. ASSUME k.valid, ~k.dirty, NEW j \in BlockWord
            PROVE  t.mem[k.frame].data[e + j] = s.mem[k.frame].data[e + j]
        <5>1. CASE k.frame = g
          BY <4>3, <4>4, <5>1
        <5>2. CASE k.frame # g
          BY <2>1, <4>2, <5>2
        <5> QED BY <5>1, <5>2
      <4>5. LineCurrent(t, d, k)
        BY <2>7, <4>1, <4>2, <4>4 DEF LineCurrent, e
      <4> QED BY <4>1, <4>5
    <3> QED BY <3>2, <3>3
  <2>14. SameWords(s, t)
    <3>1. SUFFICES ASSUME NEW v \in Page, NEW o \in PageWord, s.PT[v].valid
                   PROVE  WordSeen(t, v, o) = WordSeen(s, v, o)
      <4>1. ASSUME NEW v \in Page, NEW o \in PageWord, ~s.PT[v].valid
            PROVE  WordSeen(t, v, o) = WordSeen(s, v, o)
        BY <2>1, <4>1 DEF WordSeen
      <4> QED BY <4>1 DEF SameWords
    <3> DEFINE f == s.PT[v].page
    <3>2. f \in Frame
      BY <1>0 DEF Side, PTEntry
    <3>3. Index(f, o) \in SetIndex
      BY <3>2, BlockTyped
    <3>4. Hits(t, f, o) = Hits(s, f, o)
      BY <2>11, <3>3
    <3>5. CASE Hits(s, f, o) = {}
      <4>1. WordSeen(t, v, o) = t.mem[f].data[o] /\ WordSeen(s, v, o) = s.mem[f].data[o]
        BY <2>1, <3>1, <3>4, <3>5 DEF WordSeen
      <4>2. ASSUME f = g, o \in b .. b + BlockWords - 1 PROVE FALSE
        <5>1. Index(f, o) = c /\ Tag(f, o) = l.tag
          BY <2>12, <4>2
        <5>2. y \in Hits(s, f, o)
          BY <2>1, <5>1 DEF Hits, l
        <5> QED BY <3>5, <5>2
      <4> HIDE DEF f
      <4>3. t.mem[f].data[o] = s.mem[f].data[o]
        <5>1. CASE f = g
          BY <2>1, <4>2, <5>1
        <5>2. CASE f # g
          BY <2>1, <3>2, <5>2
        <5> QED BY <5>1, <5>2
      <4> QED BY <4>1, <4>3
    <3>6. CASE Hits(s, f, o) # {}
      <4>1. PICK z \in Hits(s, f, o) : First(Hits(s, f, o)) = z /\ z \in Way
        BY <1>0, <3>2, <3>6, HitLine
      <4>2. t.cache[Index(f, o)][z].data = s.cache[Index(f, o)][z].data
        BY <2>6, <3>3, <4>1
      <4> DEFINE i == Index(f, o)
      <4>3. WordSeen(s, v, o) = s.cache[i][z].data[o % BlockWords]
        BY <3>1, <3>6, <4>1 DEF WordSeen
      <4>4. WordSeen(t, v, o) = t.cache[i][z].data[o % BlockWords]
        BY <2>1, <3>1, <3>4, <3>6, <4>1 DEF WordSeen
      <4> QED BY <4>2, <4>3, <4>4
    <3> QED BY <3>5, <3>6
  <2>15. ~t.cache[c][y].dirty
    BY <2>5
  <2> QED BY <2>1, <2>6, <2>8, <2>9, <2>10, <2>13, <2>14, <2>15 DEF Core, t
<1> QED BY <1>1, <1>2

\* Lines that stay as they are stay current when their frame keeps its words.
LEMMA LineCurrentKept ==
  ASSUME NEW s, NEW t, NEW c \in SetIndex, NEW l \in Line, LineCurrent(s, c, l),
         l.valid => t.mem[l.frame] = s.mem[l.frame]
  PROVE  LineCurrent(t, c, l)
  BY DEF LineCurrent

\* What the program sees is the dirty copy of a word, else the frame's.
LEMMA SeenIsNewest ==
  ASSUME NEW s, Core(s), NEW v \in Page, NEW o \in PageWord, s.PT[v].valid
  PROVE  WordSeen(s, v, o) = Newest(s, s.PT[v].page, o)
<1> DEFINE f == s.PT[v].page
<1>1. f \in Frame
  BY DEF Core, Side, PTEntry
<1>2. CASE Hits(s, f, o) = {}
  BY <1>1, <1>2, NewestIsSeen DEF WordSeen
<1>3. CASE Hits(s, f, o) # {}
  BY <1>1, <1>3, NewestIsSeen DEF WordSeen
<1> QED BY <1>2, <1>3

\* With one word per block every fill is aligned.
LEMMA AlignedOneWord ==
  ASSUME BlockWords = 1, NEW off \in Offset
  PROVE  Aligned(off)
<1>1. off \in Nat /\ off \div 4 \in Nat
  BY SizesAssumption DEF Offset
<1>2. (off \div 4) % BlockWords = 0
  BY <1>1
<1> QED BY <1>1, <1>2 DEF Aligned, StartWord, BlockStart

\* An address is in a word of its page, and so is the start of its fill.
LEMMA AddressTyped ==
  ASSUME NEW off \in Offset
  PROVE  /\ off \div 4 \in PageWord
         /\ BlockStart(off) \in Offset
<1>1. off \in 0 .. 4 * PageWords - 1 /\ PageWords \in Nat \ {0} /\ BlockWords \in Nat \ {0}
  BY SizesAssumption DEF Offset
<1>2. off \div 4 \in PageWord /\ off \div 4 \in Nat
  BY <1>1 DEF PageWord
<1> DEFINE w == off \div 4
           r == w % BlockWords
<1>3. r \in 0 .. BlockWords - 1 /\ w = BlockWords * (w \div BlockWords) + r
      /\ w \div BlockWords \in Nat
  BY <1>1, <1>2, DivMod
<1>4. BlockWords * (w \div BlockWords) \in Nat
  BY <1>1, <1>3
<1>5. r <= w
  <2> DEFINE m == BlockWords * (w \div BlockWords)
  <2>1. m \in Nat /\ w = m + r /\ r \in Nat
    BY <1>1, <1>3, <1>4
  <2> HIDE DEF m, r
  <2> QED BY <1>2, <2>1
<1>6. w <= off
  BY <1>1
<1>7. BlockStart(off) = off - r /\ r \in Nat
  BY <1>1, <1>3 DEF BlockStart
<1> HIDE DEF w, r
<1> QED BY <1>1, <1>2, <1>5, <1>6, <1>7 DEF Offset, w

\* A fill resets the counter of its way only.
LEMMA InstallRefs ==
  ASSUME NEW s \in Side, NEW f, NEW g, NEW a, NEW c \in SetIndex, NEW y \in Way
  PROVE  LET t == Install(s, f, g, a, c, y) IN
         /\ t.cache[c][y].ref = 0
         /\ \A d \in SetIndex, z \in Way :
              d # c \/ z # y => t.cache[d][z].ref = s.cache[d][z].ref
<1> DEFINE D == [k \in BlockWord |-> s.mem[g].data[StartWord(a.off) + k]]
           n == [valid |-> TRUE, dirty |-> s.cache[c][y].dirty, ref |-> 0, va |-> a.page,
                 tag |-> Tag(f, a.off \div 4), frame |-> g, start |-> BlockStart(a.off),
                 data |-> D]
           t == Install(s, f, g, a, c, y)
<1>1. t = [s EXCEPT !.cache[c][y] = n]
  BY DEF Install
<1>2. n.ref = 0
  OBVIOUS
<1> HIDE DEF n, t
<1>3. t.cache = [s.cache EXCEPT ![c][y] = n] /\ s.cache \in [SetIndex -> [Way -> Line]]
  BY <1>1 DEF Side
<1>4. /\ t.cache[c][y] = n
      /\ \A d \in SetIndex, z \in Way : d # c \/ z # y => t.cache[d][z] = s.cache[d][z]
  BY <1>3
<1> QED BY <1>2, <1>4 DEF t

\* A fill of a block no way holds, over a clean line, changes no word.
LEMMA InstallCore ==
  ASSUME NEW s, Core(s), NEW a, a.page \in Page, a.off \in Offset, Aligned(a.off),
         s.PT[a.page].valid, NEW f, f = s.PT[a.page].page,
         Hits(s, f, a.off \div 4) = {},
         NEW c, c = Index(f, a.off \div 4), NEW y \in Way, ~s.cache[c][y].dirty
  PROVE  LET t == Install(s, f, f, a, c, y) IN
         /\ Core(t) /\ SameWords(s, t)
         /\ t.disk = s.disk /\ t.mem = s.mem /\ t.PT = s.PT /\ t.TLB = s.TLB
<1> DEFINE w == a.off \div 4
           b == StartWord(a.off)
           D == [k \in BlockWord |-> s.mem[f].data[b + k]]
           n == [valid |-> TRUE, dirty |-> s.cache[c][y].dirty, ref |-> 0, va |-> a.page,
                 tag |-> Tag(f, w), frame |-> f, start |-> BlockStart(a.off), data |-> D]
           t == Install(s, f, f, a, c, y)
<1>0. s \in Side /\ Coherent(s) /\ Current(s) /\ Unique(s) /\ CleanOnDisk(s)
  BY DEF Core
<1>1. f \in Frame /\ w \in PageWord /\ BlockStart(a.off) \in Offset
  BY <1>0, AddressTyped DEF Side, PTEntry
<1>2. c \in SetIndex /\ Tag(f, w) \in Nat
  BY <1>1, BlockTyped
<1>3. /\ b \in PageWord /\ b % BlockWords = 0 /\ b \div BlockWords = w \div BlockWords
      /\ b = w - (w % BlockWords)
  <2>1. b = w - (w % BlockWords) /\ w \in Nat
    BY <1>1, SizesAssumption DEF Aligned, PageWord
  <2>2. /\ w % BlockWords \in BlockWord /\ w - (w % BlockWords) \in Nat
        /\ (w - (w % BlockWords)) % BlockWords = 0
        /\ (w - (w % BlockWords)) \div BlockWords = w \div BlockWords
    BY <2>1, BlockBase
  <2>3. b \in PageWord
    <3> DEFINE r == w % BlockWords
    <3>1. b = w - r /\ b \in Nat /\ r \in Nat /\ w \in 0 .. PageWords - 1
      BY <1>1, <2>1, <2>2, SizesAssumption DEF BlockWord, PageWord
    <3> HIDE DEF b, w, r
    <3> QED BY <3>1, SizesAssumption DEF PageWord
  <2> QED BY <2>1, <2>2, <2>3
<1>4. \A k \in BlockWord : b + k \in PageWord
  <2>1. b + BlockWords <= PageWords
    BY <1>3, BlockFits
  <2> HIDE DEF b
  <2> QED BY <1>3, <2>1, SizesAssumption DEF BlockWord, PageWord
<1>5. D \in [BlockWord -> Word]
  <2>1. s.mem[f].data \in [PageWord -> Word]
    BY <1>0, <1>1 DEF Side, MemPage
  <2> QED BY <1>4, <2>1
<1>6. n \in Line
  <2>1. s.cache[c][y].dirty \in BOOLEAN
    BY <1>0, <1>2 DEF Side, Line
  <2> HIDE DEF D
  <2> QED BY <1>1, <1>2, <1>5, <2>1 DEF Line
<1>7. t = [s EXCEPT !.cache[c][y] = n]
  BY DEF Install
<1>8. /\ n.valid /\ ~n.dirty /\ n.ref = 0 /\ n.tag = Tag(f, w) /\ n.frame = f
      /\ n.va = a.page /\ n.data = D /\ FirstWord(n) = b
  BY DEF FirstWord, StartWord
<1> HIDE DEF w, b, D, n, t
<1>9. /\ t.disk = s.disk /\ t.PT = s.PT /\ t.TLB = s.TLB /\ t.queue = s.queue
      /\ t.mem = s.mem
      /\ t.cache = [s.cache EXCEPT ![c][y] = n]
  BY <1>0, <1>7 DEF Side
<1>10. t.cache \in [SetIndex -> [Way -> Line]]
  <2>1. s.cache \in [SetIndex -> [Way -> Line]]
    BY <1>0 DEF Side
  <2>2. [s.cache[c] EXCEPT ![y] = n] \in [Way -> Line]
    BY <1>2, <1>6, <2>1
  <2>3. t.cache = [s.cache EXCEPT ![c] = [s.cache[c] EXCEPT ![y] = n]]
    BY <1>9
  <2> QED BY <1>2, <2>1, <2>2, <2>3
<1>11. t \in Side
  <2>1. t = [s EXCEPT !.cache = t.cache]
    BY <1>0, <1>7, <1>9 DEF Side
  <2> QED BY <1>0, <1>10, <2>1 DEF Side
<1>12. /\ t.cache[c][y] = n
       /\ \A d \in SetIndex, z \in Way : d # c \/ z # y => t.cache[d][z] = s.cache[d][z]
  <2>1. s.cache \in [SetIndex -> [Way -> Line]]
    BY <1>0 DEF Side
  <2>2. t.cache = [s.cache EXCEPT ![c] = [s.cache[c] EXCEPT ![y] = n]]
    BY <1>9
  <2>3. t.cache[c] = [s.cache[c] EXCEPT ![y] = n] /\ s.cache[c] \in [Way -> Line]
    BY <1>2, <2>1, <2>2
  <2>4. \A d \in SetIndex : d # c => t.cache[d] = s.cache[d]
    BY <1>2, <2>1, <2>2
  <2>5. t.cache[c][y] = n /\ \A z \in Way : z # y => t.cache[c][z] = s.cache[c][z]
    BY <2>3
  <2> QED BY <2>4, <2>5
<1>13. Coherent(t)
  BY <1>0, <1>9, CoherentSameFrames
<1>14. CleanOnDisk(t)
  BY <1>0, <1>9 DEF CleanOnDisk
<1>15. Index(f, b) = c /\ Tag(f, b) = Tag(f, w)
  <2>1. c = Index(f, w)
    BY DEF w
  <2> QED BY <1>1, <1>3, <2>1, SameBlock
<1>16. Current(t)
  <2>1. SUFFICES ASSUME NEW d \in SetIndex, NEW z \in Way
                 PROVE  LineCurrent(t, d, t.cache[d][z])
    BY DEF Current
  <2>2. CASE d = c /\ z = y
    <3>0. t.mem = s.mem /\ n.data = D
      BY <1>8, <1>9
    <3>1. t.mem[f].valid /\ t.mem[f].va = a.page
      <4>1. \A v \in Page : s.PT[v].valid =>
              s.mem[s.PT[v].page].valid /\ s.mem[s.PT[v].page].va = v
        BY <1>0 DEF Coherent
      <4> QED BY <3>0, <4>1
    <3>2. \A k \in BlockWord : n.data[k] = t.mem[f].data[b + k]
      BY <3>0 DEF D
    <3>3. LineCurrent(t, c, n)
      BY <1>3, <1>8, <1>15, <3>1, <3>2 DEF LineCurrent
    <3> QED BY <1>12, <2>2, <3>3
  <2>3. CASE d # c \/ z # y
    <3>1. t.cache[d][z] = s.cache[d][z]
      BY <1>12, <2>3
    <3>2. LineCurrent(s, d, s.cache[d][z]) /\ s.cache[d][z] \in Line
      BY <1>0, LineTyped DEF Current
    <3> QED BY <1>9, <3>1, <3>2, LineCurrentKept
  <2> QED BY <2>2, <2>3
<1>17. Unique(t)
  <2>1. ASSUME NEW z \in Way, z # y, t.cache[c][z].valid, t.cache[c][z].tag = n.tag
        PROVE  FALSE
    <3>1. t.cache[c][z] = s.cache[c][z] /\ c = Index(f, w)
      BY <1>2, <1>12, <2>1 DEF w
    <3>2. z \in Hits(s, f, w)
      BY <1>8, <2>1, <3>1 DEF Hits
    <3> QED BY <3>2 DEF w
  <2>2. SUFFICES ASSUME NEW d \in SetIndex, NEW x \in Way, NEW z \in Way,
                        t.cache[d][x].valid, t.cache[d][z].valid,
                        t.cache[d][x].tag = t.cache[d][z].tag
                 PROVE  x = z
    BY DEF Unique
  <2>3. CASE d # c
    <3>1. t.cache[d][x] = s.cache[d][x] /\ t.cache[d][z] = s.cache[d][z]
      BY <1>12, <2>3
    <3> QED BY <1>0, <2>2, <3>1 DEF Unique
  <2>4. CASE d = c /\ (x = y \/ z = y)
    BY <1>12, <2>1, <2>2, <2>4
  <2>5. CASE d = c /\ x # y /\ z # y
    <3>1. t.cache[d][x] = s.cache[d][x] /\ t.cache[d][z] = s.cache[d][z]
      BY <1>12, <2>5
    <3> QED BY <1>0, <2>2, <3>1 DEF Unique
  <2> QED BY <2>3, <2>4, <2>5
<1>18. Core(t)
  BY <1>11, <1>13, <1>14, <1>16, <1>17 DEF Core
<1>19. SameWords(s, t)
  <2>1. ASSUME NEW v \in Page, NEW o \in PageWord, ~s.PT[v].valid
        PROVE  WordSeen(t, v, o) = WordSeen(s, v, o)
    BY <1>9, <2>1 DEF WordSeen
  <2>2. ASSUME NEW v \in Page, NEW o \in PageWord, s.PT[v].valid
        PROVE  WordSeen(t, v, o) = WordSeen(s, v, o)
    <3> DEFINE h == s.PT[v].page
               d == Index(h, o)
    <3>1. h \in Frame /\ d \in SetIndex
      <4>1. h \in Frame
        BY <1>0 DEF Side, PTEntry
      <4> QED BY <4>1, BlockTyped
    <3>2. WordSeen(t, v, o) = Newest(t, h, o) /\ WordSeen(s, v, o) = Newest(s, h, o)
      <4>1. t.PT[v].valid /\ t.PT[v].page = h
        BY <1>9, <2>2
      <4>2. WordSeen(t, v, o) = Newest(t, t.PT[v].page, o)
        BY <1>18, <4>1, SeenIsNewest
      <4>3. WordSeen(s, v, o) = Newest(s, h, o)
        BY <2>2, SeenIsNewest
      <4> QED BY <4>1, <4>2, <4>3
    <3>3. \A z \in Way : t.cache[d][z].dirty \/ s.cache[d][z].dirty =>
            t.cache[d][z] = s.cache[d][z]
      BY <1>8, <1>12, <3>1
    <3> HIDE DEF h
    <3>4. DirtyHits(t, h, o) = DirtyHits(s, h, o)
      BY <3>3 DEF DirtyHits, Hits
    <3>5. DirtyHits(s, h, o) # {} =>
            /\ First(DirtyHits(s, h, o)) \in Way
            /\ s.cache[d][First(DirtyHits(s, h, o))].dirty
      <4>1. DirtyHits(s, h, o) \in SUBSET Nat /\ DirtyHits(s, h, o) \subseteq Way
        BY WayNat DEF DirtyHits, Hits
      <4>2. DirtyHits(s, h, o) # {} => First(DirtyHits(s, h, o)) \in DirtyHits(s, h, o)
        BY <4>1, FirstIn
      <4> QED BY <4>1, <4>2 DEF DirtyHits
    <3>6. Newest(t, h, o) = Newest(s, h, o)
      <4>1. CASE DirtyHits(s, h, o) = {}
        BY <1>9, <3>4, <4>1 DEF Newest
      <4>2. CASE DirtyHits(s, h, o) # {}
        BY <3>3, <3>4, <3>5, <4>2 DEF Newest
      <4> QED BY <4>1, <4>2
    <3> QED BY <3>2, <3>6
  <2> QED BY <2>1, <2>2 DEF SameWords
<1> QED BY <1>9, <1>18, <1>19 DEF t
-----------------------------------------------------------------------------
(* The stores, and the two handlers put together.                          *)

\* A store as the instructions make them.
IsStore(a) ==
  /\ a.page \in Page /\ a.off \in Offset /\ a.op \in {"SB", "SH", "SW"}
  /\ a.word \in Word

\* After the store the word it addresses is combined, every other as before.
Stored(s, t, a) ==
  \A v \in Page, o \in PageWord :
    WordSeen(t, v, o) = IF v = a.page /\ o = a.off \div 4
                        THEN Combine(WordSeen(s, v, o), a) ELSE WordSeen(s, v, o)

\* A store replaces bytes by bytes.
LEMMA CombineTyped ==
  ASSUME NEW old \in Word, NEW a, IsStore(a)
  PROVE  Combine(old, a) \in Word
  BY DEF Combine, Word, IsStore

\* A page in memory is in one frame only.
LEMMA OnePage ==
  ASSUME NEW s, Core(s), NEW v \in Page, NEW x \in Page, s.PT[v].valid, s.PT[x].valid,
         s.PT[v].page = s.PT[x].page
  PROVE  v = x
<1>1. \A u \in Page : s.PT[u].valid => s.mem[s.PT[u].page].va = u
  BY DEF Core, Coherent
<1> QED BY <1>1

\* A store that misses changes its word in the frame, where no line hides it.
LEMMA DepositCore ==
  ASSUME NEW s, Core(s), NEW a, IsStore(a), s.PT[a.page].valid,
         NEW g, g = s.PT[a.page].page, Hits(s, g, a.off \div 4) = {}
  PROVE  LET t == Deposit(s, g, a) IN
         /\ Core(t) /\ Stored(s, t, a)
         /\ t.disk = s.disk /\ t.PT = s.PT /\ t.TLB = s.TLB /\ t.cache = s.cache
<1> DEFINE w == a.off \div 4
           D == [o \in PageWord |-> IF o = w THEN Combine(s.mem[g].data[o], a)
                                    ELSE s.mem[g].data[o]]
           m == [valid |-> s.mem[g].valid, dirty |-> TRUE, va |-> s.mem[g].va, data |-> D]
           t == Deposit(s, g, a)
<1>0. s \in Side /\ Coherent(s) /\ Current(s) /\ Unique(s) /\ CleanOnDisk(s)
  BY DEF Core
<1>1. g \in Frame /\ w \in PageWord /\ a.page \in Page
  BY <1>0, AddressTyped DEF Side, PTEntry, IsStore
<1>2. s.mem[g] \in MemPage /\ s.mem[g].data \in [PageWord -> Word]
  BY <1>0, <1>1 DEF Side, MemPage
<1>3. s.mem[g].valid /\ s.mem[g].va = a.page
  <2>1. \A v \in Page : s.PT[v].valid =>
          s.mem[s.PT[v].page].valid /\ s.mem[s.PT[v].page].va = v
    BY <1>0 DEF Coherent
  <2> QED BY <1>1, <2>1
<1>4. \A o \in PageWord : Combine(s.mem[g].data[o], a) \in Word
  BY <1>2, CombineTyped
<1>5. D \in [PageWord -> Word]
  BY <1>2, <1>4
<1>6. m \in MemPage
  <2> HIDE DEF D
  <2> QED BY <1>2, <1>5 DEF MemPage
<1>7. t = [s EXCEPT !.mem[g] = m]
  BY DEF Deposit
<1>8. m.valid = s.mem[g].valid /\ m.dirty /\ m.va = s.mem[g].va /\ m.data = D
  OBVIOUS
<1> HIDE DEF w, D, m, t
<1>9. /\ t.disk = s.disk /\ t.PT = s.PT /\ t.TLB = s.TLB /\ t.queue = s.queue
      /\ t.cache = s.cache
      /\ t.mem = [s.mem EXCEPT ![g] = m]
  BY <1>0, <1>7 DEF Side
<1>10. t.mem \in [Frame -> MemPage]
  BY <1>0, <1>1, <1>6, <1>9 DEF Side
<1>11. t \in Side
  <2>1. t = [s EXCEPT !.mem = t.mem]
    BY <1>0, <1>7, <1>9 DEF Side
  <2> QED BY <1>0, <1>10, <2>1 DEF Side
<1>12. t.mem[g] = m /\ \A h \in Frame : h # g => t.mem[h] = s.mem[h]
  <2>1. s.mem \in [Frame -> MemPage] /\ t.mem = [s.mem EXCEPT ![g] = m]
    BY <1>0, <1>9 DEF Side
  <2>2. t.mem[g] = m
    BY <1>1, <2>1
  <2>3. \A h \in Frame : h # g => t.mem[h] = s.mem[h]
    BY <2>1
  <2> QED BY <2>2, <2>3
<1>13. \A o \in PageWord :
         t.mem[g].data[o] = IF o = w THEN Combine(s.mem[g].data[o], a) ELSE s.mem[g].data[o]
  <2>1. t.mem[g].data = D
    BY <1>8, <1>12
  <2>2. \A o \in PageWord :
          D[o] = IF o = w THEN Combine(s.mem[g].data[o], a) ELSE s.mem[g].data[o]
    BY DEF D
  <2> QED BY <2>1, <2>2
<1>14. \A f \in Frame : (t.mem[f].valid <=> s.mem[f].valid) /\ t.mem[f].va = s.mem[f].va
  BY <1>8, <1>12
<1>15. Coherent(t)
  BY <1>0, <1>9, <1>14, CoherentSameFrames
<1>16. Unique(t)
  BY <1>0, <1>9 DEF Unique
<1>17. CleanOnDisk(t)
  <2>1. SUFFICES ASSUME NEW f \in Frame
                 PROVE  /\ t.mem[f].valid /\ ~t.mem[f].dirty =>
                             t.mem[f].data = t.disk[t.mem[f].va]
                        /\ ~t.mem[f].valid => ~t.mem[f].dirty
    BY DEF CleanOnDisk
  <2>2. CASE f = g
    BY <1>3, <1>8, <1>12, <2>2
  <2>3. CASE f # g
    <3>1. t.mem[f] = s.mem[f] /\ t.disk = s.disk
      BY <1>9, <1>12, <2>3
    <3> QED BY <1>0, <3>1 DEF CleanOnDisk
  <2> QED BY <2>2, <2>3
<1>18. Current(t)
  <2>1. SUFFICES ASSUME NEW d \in SetIndex, NEW z \in Way
                 PROVE  LineCurrent(t, d, s.cache[d][z])
    BY <1>9 DEF Current
  <2> DEFINE k == s.cache[d][z]
             e == FirstWord(k)
  <2>2. LineCurrent(s, d, k) /\ k \in Line
    BY <1>0, LineTyped DEF Current
  <2>3. k.frame \in Frame /\ e \in PageWord
    BY <2>2, FirstWordTyped DEF Line
  <2>4. ASSUME k.valid, k.frame = g, NEW j \in BlockWord
        PROVE  t.mem[g].data[e + j] = s.mem[g].data[e + j]
    <3>1. e % BlockWords = 0 /\ Index(g, e) = d /\ Tag(g, e) = k.tag
      BY <2>2, <2>4 DEF LineCurrent
    <3>2. e + j \in PageWord
      <4> HIDE DEF k
      <4> QED BY <2>2, <2>4, <3>1, LineWords
    <3>3. (e + j) \div BlockWords = e \div BlockWords
      BY <2>3, <3>1, BlockOffset, SizesAssumption DEF PageWord
    <3>4. Index(g, e + j) = d /\ Tag(g, e + j) = k.tag
      BY <1>1, <2>3, <3>1, <3>2, <3>3, SameBlock
    <3>5. z \in Hits(s, g, e + j)
      BY <2>4, <3>4 DEF Hits
    <3>6. e + j # w
      BY <3>5 DEF w
    <3> QED BY <1>13, <3>2, <3>6
  <2> HIDE DEF k, e
  <2>5. ASSUME k.valid, ~k.dirty, NEW j \in BlockWord
        PROVE  t.mem[k.frame].data[e + j] = s.mem[k.frame].data[e + j]
    <3>1. CASE k.frame = g
      BY <2>4, <2>5, <3>1
    <3>2. CASE k.frame # g
      BY <1>12, <2>3, <3>2
    <3> QED BY <3>1, <3>2
  <2>6. LineCurrent(t, d, k)
    BY <1>14, <2>2, <2>3, <2>5 DEF LineCurrent, e
  <2> QED BY <2>6 DEF k
<1>19. Stored(s, t, a)
  <2>1. SUFFICES ASSUME NEW v \in Page, NEW o \in PageWord
                 PROVE  WordSeen(t, v, o) = IF v = a.page /\ o = w
                          THEN Combine(WordSeen(s, v, o), a) ELSE WordSeen(s, v, o)
    BY DEF Stored, w
  <2> DEFINE h == s.PT[v].page
  <2>a. t.PT = s.PT /\ t.disk = s.disk /\ t.cache = s.cache
    BY <1>9
  <2>b. Hits(t, h, o) = Hits(s, h, o)
    BY <2>a DEF Hits
  <2>2. CASE ~s.PT[v].valid
    BY <2>a, <2>2 DEF WordSeen
  <2>3. CASE s.PT[v].valid /\ Hits(s, h, o) # {}
    <3>1. WordSeen(t, v, o) = WordSeen(s, v, o)
      BY <2>a, <2>b, <2>3 DEF WordSeen
    <3>2. v # a.page \/ o # w
      BY <2>3 DEF w
    <3> QED BY <3>1, <3>2
  <2>4. CASE s.PT[v].valid /\ Hits(s, h, o) = {}
    <3>1. WordSeen(t, v, o) = t.mem[h].data[o] /\ WordSeen(s, v, o) = s.mem[h].data[o]
      BY <2>a, <2>b, <2>4 DEF WordSeen
    <3>2. h \in Frame
      BY <1>0 DEF Side, PTEntry
    <3>3. CASE v = a.page
      BY <1>13, <3>1, <3>3
    <3>4. CASE v # a.page
      <4>1. h # g
        BY <1>1, <2>4, <3>4, OnePage
      <4> QED BY <1>12, <3>1, <3>2, <3>4, <4>1
    <3> QED BY <3>3, <3>4
  <2> QED BY <2>2, <2>3, <2>4
<1>20. Core(t)
  BY <1>11, <1>15, <1>16, <1>17, <1>18 DEF Core
<1> QED BY <1>9, <1>19, <1>20 DEF t

\* A store that hits changes its word in the one line that holds it.
LEMMA MergeCore ==
  ASSUME NEW s, Core(s), NEW a, IsStore(a), s.PT[a.page].valid,
         NEW f, f = s.PT[a.page].page,
         NEW c, c = Index(f, a.off \div 4), NEW y \in Hits(s, f, a.off \div 4)
  PROVE  LET t == Merge(s, c, y, a) IN
         /\ Core(t) /\ Stored(s, t, a)
         /\ t.disk = s.disk /\ t.PT = s.PT /\ t.TLB = s.TLB
         /\ SameRefs(s, t)
<1> DEFINE w == a.off \div 4
           l == s.cache[c][y]
           i == w % BlockWords
           D == [k \in BlockWord |-> IF k = i THEN Combine(l.data[k], a) ELSE l.data[k]]
           n == [l EXCEPT !.dirty = TRUE, !.data = D]
           t == Merge(s, c, y, a)
<1>0. s \in Side /\ Coherent(s) /\ Current(s) /\ Unique(s) /\ CleanOnDisk(s)
  BY DEF Core
<1>1. f \in Frame /\ w \in PageWord /\ a.page \in Page
  BY <1>0, AddressTyped DEF Side, PTEntry, IsStore
<1>2. c \in SetIndex /\ c = Index(f, w)
  BY <1>1, BlockTyped
<1>3. /\ y \in Way /\ l \in Line /\ l.valid /\ l.frame = f
      /\ FirstWord(l) = w - (w % BlockWords)
      /\ Hits(s, f, w) = {y} /\ First(Hits(s, f, w)) = y
  <2>1. y \in Hits(s, f, w)
    OBVIOUS
  <2>2. LET k == s.cache[Index(f, w)][y] IN
        /\ y \in Way /\ k \in Line /\ k.valid /\ k.frame = f
        /\ FirstWord(k) = w - (w % BlockWords)
        /\ Hits(s, f, w) = {y} /\ First(Hits(s, f, w)) = y
    <3> HIDE DEF w
    <3> DEFINE k == s.cache[Index(f, w)][y]
    <3>1. s \in Side /\ Current(s) /\ Unique(s)
      BY <1>0
    <3>2. Hits(s, f, w) = {y} /\ First(Hits(s, f, w)) = y
      BY <1>1, <2>1, <3>1, HitLine
    <3>3. y \in Way /\ k \in Line /\ k.valid
      BY <1>1, <2>1, <3>1, HitLine
    <3>4. k.frame = f /\ FirstWord(k) = w - (w % BlockWords)
      BY <1>1, <2>1, <3>1, HitLine
    <3> HIDE DEF k
    <3> QED BY <3>2, <3>3, <3>4 DEF k
  <2> QED BY <1>2, <2>2
<1>4. l.data \in [BlockWord -> Word] /\ i \in BlockWord /\ w \in Nat
  <2>1. w \in Nat
    BY <1>1, SizesAssumption DEF PageWord
  <2> QED BY <1>3, <2>1, BlockBase DEF Line
<1>5. \A k \in BlockWord : Combine(l.data[k], a) \in Word
  BY <1>4, CombineTyped
<1>6. D \in [BlockWord -> Word]
  BY <1>4, <1>5
<1> HIDE DEF D
<1>7. n \in Line
  BY <1>3, <1>6, Zenon DEF Line
<1>8. /\ n.valid /\ n.dirty /\ n.tag = l.tag /\ n.ref = l.ref /\ n.va = l.va
      /\ n.frame = f /\ n.start = l.start /\ n.data = D
  BY <1>3 DEF Line
<1>9. t = [s EXCEPT !.cache[c][y] = n]
  BY DEF Merge, D
<1> HIDE DEF w, l, i, n, t
<1>10. /\ t.disk = s.disk /\ t.PT = s.PT /\ t.TLB = s.TLB /\ t.queue = s.queue
       /\ t.mem = s.mem
       /\ t.cache = [s.cache EXCEPT ![c] = [s.cache[c] EXCEPT ![y] = n]]
  BY <1>0, <1>9 DEF Side
<1>11. s.cache \in [SetIndex -> [Way -> Line]] /\ s.cache[c] \in [Way -> Line]
  BY <1>0, <1>2 DEF Side
<1>12. /\ t.cache[c][y] = n
       /\ \A d \in SetIndex, z \in Way : d # c \/ z # y => t.cache[d][z] = s.cache[d][z]
  <2>1. t.cache[c] = [s.cache[c] EXCEPT ![y] = n]
    BY <1>2, <1>10, <1>11
  <2>2. \A d \in SetIndex : d # c => t.cache[d] = s.cache[d]
    BY <1>10, <1>11
  <2>3. t.cache[c][y] = n
    BY <1>3, <1>11, <2>1
  <2>4. \A z \in Way : z # y => t.cache[c][z] = s.cache[c][z]
    BY <1>11, <2>1
  <2> QED BY <2>2, <2>3, <2>4
<1>13. t.cache \in [SetIndex -> [Way -> Line]]
  <2>1. [s.cache[c] EXCEPT ![y] = n] \in [Way -> Line]
    BY <1>7, <1>11
  <2> QED BY <1>10, <1>11, <2>1
<1>14. t \in Side
  <2>1. t = [s EXCEPT !.cache = t.cache]
    BY <1>0, <1>9, <1>10 DEF Side
  <2> QED BY <1>0, <1>13, <2>1 DEF Side
<1>15. \A d \in SetIndex, z \in Way :
         /\ (t.cache[d][z].valid <=> s.cache[d][z].valid)
         /\ t.cache[d][z].tag = s.cache[d][z].tag
         /\ t.cache[d][z].ref = s.cache[d][z].ref
  <2>1. TAKE d \in SetIndex, z \in Way
  <2>2. CASE d = c /\ z = y
    <3>1. t.cache[c][y] = n /\ s.cache[c][y] = l /\ l.valid
      BY <1>3, <1>12 DEF l
    <3> QED BY <1>8, <2>2, <3>1
  <2>3. CASE d # c \/ z # y
    <3>1. t.cache[d][z] = s.cache[d][z]
      BY <1>12, <2>3
    <3> QED BY <3>1
  <2> QED BY <2>2, <2>3
<1>16. \A g, o : Index(g, o) \in SetIndex => Hits(t, g, o) = Hits(s, g, o)
  BY <1>15, SameHits
<1>17. Coherent(t)
  BY <1>0, <1>10, CoherentSameFrames
<1>18. Unique(t)
  BY <1>0, <1>15 DEF Unique
<1>19. CleanOnDisk(t)
  <2>1. t.mem = s.mem /\ t.disk = s.disk
    BY <1>10
  <2> QED BY <1>0, <2>1 DEF CleanOnDisk
<1>20. Current(t)
  <2>1. SUFFICES ASSUME NEW d \in SetIndex, NEW z \in Way
                 PROVE  LineCurrent(t, d, t.cache[d][z])
    BY DEF Current
  <2>2. t.mem = s.mem
    BY <1>10
  <2>3. CASE d = c /\ z = y
    <3>1. LineCurrent(s, c, l)
      BY <1>0, <1>2, <1>3 DEF Current, l
    <3>2. FirstWord(n) = FirstWord(l)
      BY <1>8 DEF FirstWord
    <3>3. LineCurrent(t, c, n)
      BY <1>3, <1>8, <2>2, <3>1, <3>2 DEF LineCurrent
    <3> QED BY <1>12, <2>3, <3>3
  <2>4. CASE d # c \/ z # y
    <3>1. t.cache[d][z] = s.cache[d][z]
      BY <1>12, <2>4
    <3>2. LineCurrent(s, d, s.cache[d][z]) /\ s.cache[d][z] \in Line
      BY <1>0, LineTyped DEF Current
    <3> QED BY <2>2, <3>1, <3>2, LineCurrentKept
  <2> QED BY <2>3, <2>4
<1>21. Core(t)
  BY <1>14, <1>17, <1>18, <1>19, <1>20 DEF Core
<1>22. Stored(s, t, a)
  <2>1. SUFFICES ASSUME NEW v \in Page, NEW o \in PageWord
                 PROVE  WordSeen(t, v, o) = IF v = a.page /\ o = w
                          THEN Combine(WordSeen(s, v, o), a) ELSE WordSeen(s, v, o)
    BY DEF Stored, w
  <2> DEFINE h == s.PT[v].page
             d == Index(h, o)
  <2>2. h \in Frame
    BY <1>0 DEF Side, PTEntry
  <2>3. d \in SetIndex
    BY <2>2, BlockTyped
  <2>4. t.PT = s.PT /\ t.disk = s.disk /\ t.mem = s.mem /\ Hits(t, h, o) = Hits(s, h, o)
    BY <1>10, <1>16, <2>3
  <2>5. CASE ~s.PT[v].valid
    <3>1. WordSeen(t, v, o) = WordSeen(s, v, o)
      BY <2>4, <2>5 DEF WordSeen
    <3>2. v # a.page
      BY <2>5
    <3> QED BY <3>1, <3>2
  <2>6. CASE s.PT[v].valid /\ Hits(s, h, o) = {}
    <3>1. WordSeen(t, v, o) = WordSeen(s, v, o)
      BY <2>4, <2>6 DEF WordSeen
    <3>2. v # a.page \/ o # w
      BY <1>3, <2>6
    <3> QED BY <3>1, <3>2
  <2>7. CASE s.PT[v].valid /\ Hits(s, h, o) # {}
    <3>1. PICK z \in Hits(s, h, o) :
            /\ z \in Way /\ First(Hits(s, h, o)) = z
            /\ s.cache[d][z].frame = h
            /\ FirstWord(s.cache[d][z]) = o - (o % BlockWords)
      BY <1>0, <2>2, <2>7, HitLine
    <3>2. /\ WordSeen(t, v, o) = t.cache[d][z].data[o % BlockWords]
          /\ WordSeen(s, v, o) = s.cache[d][z].data[o % BlockWords]
      BY <2>4, <2>7, <3>1 DEF WordSeen
    <3>3. o \in Nat /\ o % BlockWords \in BlockWord
      BY BlockBase, SizesAssumption DEF PageWord
    <3>4. CASE d = c /\ z = y
      <4>1. h = f
        BY <1>3, <3>1, <3>4 DEF l
      <4>2. v = a.page
        BY <1>1, <2>7, <4>1, OnePage
      <4>3. o - (o % BlockWords) = w - i
        BY <1>3, <3>1, <3>4 DEF l, i
      <4>4. t.cache[d][z].data = D /\ s.cache[d][z] = l
        BY <1>8, <1>12, <3>4 DEF l
      <4>5. D[o % BlockWords] = IF o % BlockWords = i THEN Combine(l.data[o % BlockWords], a)
                                ELSE l.data[o % BlockWords]
        BY <3>3 DEF D
      <4>6. (o % BlockWords = i) <=> (o = w)
        <5> DEFINE r == o % BlockWords
        <5>1. r \in Nat /\ i \in Nat /\ o \in Nat /\ w \in Nat /\ o - r = w - i
          BY <1>4, <3>3, <4>3, SizesAssumption DEF BlockWord
        <5>2. o = w => r = i
          BY DEF i
        <5> HIDE DEF r
        <5>3. r = i => o = w
          BY <5>1
        <5> QED BY <5>2, <5>3 DEF r
      <4> QED BY <3>2, <4>2, <4>4, <4>5, <4>6
    <3>5. CASE d # c \/ z # y
      <4>1. t.cache[d][z] = s.cache[d][z]
        BY <1>12, <2>3, <3>1, <3>5
      <4>2. v # a.page \/ o # w
        <5>1. ASSUME v = a.page, o = w PROVE FALSE
          <6>1. h = f /\ d = c
            BY <1>2, <5>1
          <6>2. z \in Hits(s, f, w)
            BY <5>1, <6>1
          <6>3. z = y
            BY <1>3, <6>2
          <6> QED BY <3>5, <6>1, <6>3
        <5> QED BY <5>1
      <4> QED BY <3>2, <4>1, <4>2
    <3> QED BY <3>4, <3>5
  <2> QED BY <2>5, <2>6, <2>7
<1>23. SameRefs(s, t)
  BY <1>10, <1>15 DEF SameRefs
<1> QED BY <1>10, <1>21, <1>22, <1>23 DEF t

\* A fill of the victim's way keeps the ways of every set in rotation.
LEMMA FillRotates ==
  ASSUME NEW s \in Side, NEW t, CacheRotates(s), NEW c \in SetIndex,
         NEW y \in Way, y = VictimWay(s, c),
         \A d \in SetIndex, z \in Way :
           t.cache[d][z].ref = IF d # c THEN s.cache[d][z].ref
                               ELSE IF z = y THEN 0 ELSE s.cache[d][z].ref + 1
  PROVE  CacheRotates(t)
<1>1. Ways \in Nat \ {0} /\ Way = 0 .. Ways - 1
  BY SizesAssumption DEF Way
<1>2. \A d \in SetIndex : CacheRefs(s, d) \in [0 .. Ways - 1 -> Nat]
  <2>1. \A d \in SetIndex, z \in Way : s.cache[d][z].ref \in Nat
    BY DEF Side, Line
  <2> QED BY <1>1, <2>1 DEF CacheRefs
<1>3. \A d \in SetIndex : d # c => CacheRefs(t, d) = CacheRefs(s, d)
  BY DEF CacheRefs
<1>4. PICK p \in Way : Rotation(Ways, p, CacheRefs(s, c))
  BY DEF CacheRotates
<1>5. y = p
  BY <1>1, <1>2, <1>4, VictimOfRotation DEF VictimWay
<1>6. CacheRefs(t, c) = [i \in 0 .. Ways - 1 |-> IF i = p THEN 0 ELSE CacheRefs(s, c)[i] + 1]
  BY <1>1, <1>5 DEF CacheRefs
<1>7. \E q \in Way : Rotation(Ways, q, CacheRefs(t, c))
  BY <1>1, <1>2, <1>4, <1>6, RotationAdvances
<1> QED BY <1>3, <1>7 DEF CacheRotates

\* What a handler starts from: the page is in the TLB.
Ready(t, v) == SideOK(t) /\ TLBHits(t, v) # {}

\* The victim scan finds a way.
LEMMA VictimIsWay ==
  ASSUME NEW s \in Side, CacheRotates(s), NEW c \in SetIndex
  PROVE  VictimWay(s, c) \in Way
<1>1. Ways \in Nat \ {0} /\ Way = 0 .. Ways - 1
  BY SizesAssumption DEF Way
<1>2. CacheRefs(s, c) \in [0 .. Ways - 1 -> Nat]
  <2>1. \A z \in Way : s.cache[c][z].ref \in Nat
    BY DEF Side, Line
  <2> QED BY <1>1, <2>1 DEF CacheRefs
<1>3. PICK p \in Way : Rotation(Ways, p, CacheRefs(s, c))
  BY DEF CacheRotates
<1>4. Victim(0 .. Ways - 1, CacheRefs(s, c)) = p
  BY <1>1, <1>2, <1>3, VictimOfRotation
<1> QED BY <1>1, <1>4 DEF VictimWay

\* Only Touch moves a frame of the queue.
LEMMA QueueKept ==
  ASSUME NEW s \in Side, NEW f, NEW g, NEW a, NEW c, NEW y
  PROVE  /\ Age(s, c).queue = s.queue
         /\ WriteBack(s, c, y).queue = s.queue
         /\ Install(s, f, g, a, c, y).queue = s.queue
         /\ Deposit(s, f, a).queue = s.queue
         /\ Merge(s, c, y, a).queue = s.queue
         /\ Touch(s, f).queue = MoveToEnd(s.queue, f)
<1>1. Age(s, c).queue = s.queue
  BY DEF Age, Side
<1>2. WriteBack(s, c, y).queue = s.queue
  BY DEF WriteBack, Side
<1>3. Install(s, f, g, a, c, y).queue = s.queue
  BY DEF Install, Side
<1>4. Deposit(s, f, a).queue = s.queue
  BY DEF Deposit, Side
<1>5. Merge(s, c, y, a).queue = s.queue
  BY DEF Merge, Side
<1>6. Touch(s, f).queue = MoveToEnd(s.queue, f)
  BY DEF Touch, Side
<1> QED BY <1>1, <1>2, <1>3, <1>4, <1>5, <1>6

\* A read changes no word, neither the disk nor the page table, and makes the
\* frame of its page the last of the queue.
LEMMA CacheReadOK ==
  ASSUME NEW s, NEW a, a.page \in Page, a.off \in Offset, Aligned(a.off),
         Ready(s, a.page)
  PROVE  LET t == CacheRead(s, a) IN
         /\ SideOK(t) /\ SameWords(s, t)
         /\ t.disk = s.disk /\ t.PT = s.PT
         /\ t.queue = MoveToEnd(s.queue, s.PT[a.page].page)
         /\ Hits(s, s.PT[a.page].page, a.off \div 4) = {} =>
              t.mem[s.PT[a.page].page].data[a.off \div 4] = WordSeen(s, a.page, a.off \div 4)
<1> DEFINE w == a.off \div 4
           f == s.PT[a.page].page
           c == Index(f, w)
           y == VictimWay(s, c)
           A == Age(s, c)
           B == WriteBack(A, c, y)
           I == Install(B, f, f, a, c, y)
           t == CacheRead(s, a)
<1>0. Core(s) /\ s \in Side /\ TLBRotates(s) /\ CacheRotates(s) /\ TLBHits(s, a.page) # {}
  BY DEF Ready, SideOK, Core
<1>1. FrameOf(s, a.page) = f /\ s.PT[a.page].valid /\ f \in Frame
  BY <1>0, TLBHitFrame
<1>2. w \in PageWord /\ c \in SetIndex
  BY <1>1, AddressTyped, BlockTyped
<1>3. CASE Hits(s, f, w) # {}
  <2> DEFINE z == First(Hits(s, f, w))
             g == s.cache[c][z].frame
  <2>1. t = Touch(s, g)
    BY <1>1, <1>3 DEF CacheRead
  <2>2. g \in Frame /\ g = f
    <3>1. PICK x \in Hits(s, f, w) : z = x /\ s.cache[c][x].frame = f
      <4>1. Current(s) /\ Unique(s)
        BY <1>0 DEF Core
      <4> HIDE DEF w, f
      <4> QED BY <1>0, <1>1, <1>2, <1>3, <4>1, HitLine
    <3> QED BY <1>1, <3>1
  <2> HIDE DEF t, g
  <2>3. Core(t) /\ SameWords(s, t)
    BY <1>0, <2>1, <2>2, TouchCore
  <2>4. t.disk = s.disk /\ t.PT = s.PT /\ t.TLB = s.TLB /\ t.cache = s.cache
    BY <1>0, <2>1 DEF Touch, Side
  <2>5. TLBRotates(t) /\ CacheRotates(t)
    BY <1>0, <2>4 DEF TLBRotates, TLBRefs, CacheRotates, CacheRefs
  <2>6. t.queue = MoveToEnd(s.queue, f)
    BY <1>0, <2>1, <2>2, QueueKept
  <2> QED BY <1>3, <2>3, <2>4, <2>5, <2>6 DEF SideOK, t
<1>4. CASE Hits(s, f, w) = {}
  <2>1. t = Touch(I, f)
    BY <1>1, <1>4 DEF CacheRead
  <2> HIDE DEF t, I, B, A, y, c, f, w
  <2>2. y \in Way
    BY <1>0, <1>2, VictimIsWay DEF y
  <2>3. /\ Core(A) /\ SameWords(s, A)
        /\ A.disk = s.disk /\ A.PT = s.PT /\ A.TLB = s.TLB
        /\ \A d \in SetIndex, z \in Way :
             A.cache[d][z].ref = IF d = c THEN s.cache[d][z].ref + 1 ELSE s.cache[d][z].ref
        /\ Hits(A, f, w) = {}
    <3>1. Index(f, w) \in SetIndex
      BY <1>2 DEF c
    <3> QED BY <1>0, <1>2, <1>4, <3>1, AgeCore DEF A
  <2>4. /\ Core(B) /\ SameWords(A, B)
        /\ B.disk = A.disk /\ B.PT = A.PT /\ B.TLB = A.TLB
        /\ ~B.cache[c][y].dirty
        /\ \A d \in SetIndex, z \in Way :
             /\ (B.cache[d][z].valid <=> A.cache[d][z].valid)
             /\ B.cache[d][z].tag = A.cache[d][z].tag
             /\ B.cache[d][z].ref = A.cache[d][z].ref
    BY <1>2, <2>2, <2>3, WriteBackCore DEF B
  <2>5. Hits(B, f, w) = {}
    <3>1. Index(f, w) \in SetIndex
      BY <1>2 DEF c
    <3>2. \A d \in SetIndex, z \in Way :
            (B.cache[d][z].valid <=> A.cache[d][z].valid)
            /\ B.cache[d][z].tag = A.cache[d][z].tag
      BY <2>4
    <3>3. \A g, o : Index(g, o) \in SetIndex => Hits(B, g, o) = Hits(A, g, o)
      BY <3>2, SameHits
    <3> QED BY <2>3, <3>1, <3>3
  <2>6. /\ Core(I) /\ SameWords(B, I)
        /\ I.disk = B.disk /\ I.mem = B.mem /\ I.PT = B.PT /\ I.TLB = B.TLB
        /\ I.cache[c][y].ref = 0
        /\ \A d \in SetIndex, z \in Way :
             d # c \/ z # y => I.cache[d][z].ref = B.cache[d][z].ref
    <3>1. B.PT[a.page].valid /\ f = B.PT[a.page].page
      BY <1>1, <2>3, <2>4 DEF f
    <3>2. Hits(B, f, a.off \div 4) = {} /\ c = Index(f, a.off \div 4)
      BY <2>5 DEF w, c
    <3>3. Core(B) /\ ~B.cache[c][y].dirty
      BY <2>4
    <3>4. I = Install(B, f, f, a, c, y)
      BY DEF I
    <3>a. a.page \in Page /\ a.off \in Offset /\ Aligned(a.off) /\ y \in Way
      BY <2>2
    <3>5. Core(I) /\ SameWords(B, I)
      <4>1. Core(I)
        BY <3>a, <3>1, <3>2, <3>3, <3>4, InstallCore
      <4>2. SameWords(B, I)
        BY <3>a, <3>1, <3>2, <3>3, <3>4, InstallCore
      <4> QED BY <4>1, <4>2
    <3>6. I.disk = B.disk /\ I.mem = B.mem /\ I.PT = B.PT /\ I.TLB = B.TLB
      <4>1. B \in Side
        BY <3>3 DEF Core
      <4> QED BY <3>4, <4>1 DEF Install, Side
    <3>7. /\ I.cache[c][y].ref = 0
          /\ \A d \in SetIndex, z \in Way :
               d # c \/ z # y => I.cache[d][z].ref = B.cache[d][z].ref
      <4>1. B \in Side
        BY <2>4 DEF Core
      <4> QED BY <1>2, <2>2, <3>4, <4>1, InstallRefs
    <3> QED BY <3>5, <3>6, <3>7
  <2>7. Core(t) /\ SameWords(I, t)
    BY <1>1, <2>1, <2>6, TouchCore
  <2>8. t.disk = I.disk /\ t.mem = I.mem /\ t.PT = I.PT /\ t.TLB = I.TLB /\ t.cache = I.cache
    BY <2>1, <2>6 DEF Touch, Core, Side
  <2>9. SameWords(s, t)
    BY <2>3, <2>4, <2>6, <2>7 DEF SameWords
  <2>10. TLBRotates(t)
    BY <1>0, <2>3, <2>4, <2>6, <2>8 DEF TLBRotates, TLBRefs
  <2>11. CacheRotates(t)
    <3>1. \A d \in SetIndex, z \in Way :
            t.cache[d][z].ref = IF d # c THEN s.cache[d][z].ref
                                ELSE IF z = y THEN 0 ELSE s.cache[d][z].ref + 1
      <4>1. TAKE d \in SetIndex, z \in Way
      <4>2. A.cache[d][z].ref = IF d = c THEN s.cache[d][z].ref + 1 ELSE s.cache[d][z].ref
        BY <2>3
      <4>3. t.cache[d][z].ref = IF d = c /\ z = y THEN 0 ELSE A.cache[d][z].ref
        BY <2>4, <2>6, <2>8
      <4> QED BY <4>2, <4>3
    <3>2. y = VictimWay(s, c)
      BY DEF y
    <3> QED BY <1>0, <1>2, <2>2, <3>1, <3>2, FillRotates
  <2>12. t.mem[f].data[w] = WordSeen(s, a.page, w)
    <3>1. B.PT[a.page].valid /\ f = B.PT[a.page].page
      BY <1>1, <2>3, <2>4 DEF f
    <3>2. WordSeen(B, a.page, w) = B.mem[f].data[w]
      BY <2>5, <3>1 DEF WordSeen
    <3>3. WordSeen(B, a.page, w) = WordSeen(s, a.page, w)
      BY <1>2, <2>3, <2>4 DEF SameWords
    <3> QED BY <2>6, <2>8, <3>2, <3>3
  <2>13. t.disk = s.disk /\ t.PT = s.PT
    BY <2>3, <2>4, <2>6, <2>8
  <2>14. t.queue = MoveToEnd(s.queue, f)
    <3>1. A \in Side /\ B \in Side /\ I \in Side
      BY <2>3, <2>4, <2>6 DEF Core
    <3>2. A.queue = s.queue
      BY <1>0, QueueKept DEF A
    <3>3. B.queue = A.queue
      BY <3>1, QueueKept DEF B
    <3>4. I.queue = B.queue
      BY <3>1, QueueKept DEF I
    <3> QED BY <2>1, <3>1, <3>2, <3>3, <3>4, QueueKept
  <2> QED BY <2>7, <2>9, <2>10, <2>11, <2>12, <2>13, <2>14 DEF SideOK, t, f, w
<1> QED BY <1>3, <1>4

\* A load returns the word the program sees, whether or not it hits.
LEMMA WordReadOK ==
  ASSUME NEW s, SideOK(s), NEW a, a.page \in Page, a.off \in Offset, Aligned(a.off)
  PROVE  WordRead(s, a) = WordSeen(s, a.page, a.off \div 4)
<1> DEFINE w == a.off \div 4
           t == Translate(s, a.page)
           f == t.PT[a.page].page
           u == CacheRead(t, a)
<1>1. SideOK(t) /\ SameWords(s, t) /\ TLBHits(t, a.page) # {}
  BY TranslateOK
<1> HIDE DEF t
<1>2. FrameOf(t, a.page) = f /\ t.PT[a.page].valid
  BY <1>1, TLBHitFrame DEF SideOK
<1>3. w \in PageWord
  BY AddressTyped
<1>4. WordSeen(t, a.page, w) = WordSeen(s, a.page, w)
  BY <1>1, <1>3 DEF SameWords
<1>5. u.PT = t.PT /\ (Hits(t, f, w) = {} => u.mem[f].data[w] = WordSeen(t, a.page, w))
  <2>1. Ready(t, a.page)
    BY <1>1 DEF Ready
  <2> QED BY <2>1, CacheReadOK
<1>6. StartWord(a.off) + (w % BlockWords) = w
  <2>1. w \in Nat /\ StartWord(a.off) = w - (w % BlockWords)
    BY <1>3, SizesAssumption DEF Aligned, PageWord
  <2> DEFINE r == w % BlockWords
  <2>2. r \in Nat
    BY <2>1, BlockBase, SizesAssumption DEF BlockWord
  <2> HIDE DEF r, w
  <2>3. StartWord(a.off) + r = w
    BY <2>1, <2>2 DEF r
  <2> QED BY <2>3 DEF r
<1> HIDE DEF w, f, u
<1>7. CASE Hits(t, f, w) # {}
  <2>1. WordRead(s, a) = t.cache[Index(f, w)][First(Hits(t, f, w))].data[w % BlockWords]
    BY <1>2, <1>7 DEF WordRead, t, w
  <2>2. WordSeen(t, a.page, w)
          = t.cache[Index(f, w)][First(Hits(t, f, w))].data[w % BlockWords]
    BY <1>2, <1>7 DEF WordSeen, f
  <2> QED BY <1>4, <2>1, <2>2 DEF w
<1>8. CASE Hits(t, f, w) = {}
  <2>1. WordRead(s, a) = u.mem[u.PT[a.page].page].data[StartWord(a.off) + (w % BlockWords)]
    BY <1>2, <1>8 DEF WordRead, t, w, u
  <2>2. u.PT[a.page].page = f
    BY <1>5 DEF f
  <2> QED BY <1>4, <1>5, <1>6, <1>8, <2>1, <2>2 DEF w
<1> QED BY <1>7, <1>8

\* A store changes the word it addresses and no other.
LEMMA CacheWriteOK ==
  ASSUME NEW s, NEW a, IsStore(a), Aligned(a.off), Ready(s, a.page)
  PROVE  LET t == CacheWrite(s, a) IN
         /\ SideOK(t) /\ Stored(s, t, a)
         /\ t.disk = s.disk /\ t.PT = s.PT
         /\ t.queue = MoveToEnd(s.queue, s.PT[a.page].page)
<1> DEFINE w == a.off \div 4
           f == s.PT[a.page].page
           c == Index(f, w)
           y == VictimWay(s, c)
           A == Age(s, c)
           B == WriteBack(A, c, y)
           E == Deposit(B, f, a)
           I == Install(E, f, f, a, c, y)
           t == CacheWrite(s, a)
<1>0. /\ Core(s) /\ s \in Side /\ TLBRotates(s) /\ CacheRotates(s)
      /\ TLBHits(s, a.page) # {} /\ a.page \in Page /\ a.off \in Offset
  BY DEF Ready, SideOK, Core, IsStore
<1>1. FrameOf(s, a.page) = f /\ s.PT[a.page].valid /\ f \in Frame
  BY <1>0, TLBHitFrame
<1>2. w \in PageWord /\ c \in SetIndex
  BY <1>0, <1>1, AddressTyped, BlockTyped
<1>3. CASE Hits(s, f, w) # {}
  <2> DEFINE z == First(Hits(s, f, w))
             g == s.cache[c][z].frame
             M == Merge(s, c, z, a)
  <2>1. t = Touch(M, g)
    BY <1>1, <1>3 DEF CacheWrite
  <2>2. g \in Frame /\ g = f /\ z \in Hits(s, f, w)
    <3>1. PICK x \in Hits(s, f, w) : z = x /\ s.cache[c][x].frame = f
      <4>1. Current(s) /\ Unique(s)
        BY <1>0 DEF Core
      <4> HIDE DEF w, f
      <4> QED BY <1>0, <1>1, <1>2, <1>3, <4>1, HitLine
    <3> QED BY <1>1, <3>1
  <2> HIDE DEF t, g, M, z
  <2>3. /\ Core(M) /\ Stored(s, M, a)
        /\ M.disk = s.disk /\ M.PT = s.PT /\ M.TLB = s.TLB
        /\ SameRefs(s, M)
    BY <1>0, <1>1, <2>2, MergeCore DEF M
  <2>4. Core(t) /\ SameWords(M, t)
    BY <2>1, <2>2, <2>3, TouchCore
  <2>5. t.disk = M.disk /\ t.PT = M.PT /\ t.TLB = M.TLB /\ t.cache = M.cache
    BY <2>1, <2>3 DEF Touch, Core, Side
  <2>6. TLBRotates(t) /\ CacheRotates(t)
    <3>1. TLBRotates(M) /\ CacheRotates(M)
      BY <1>0, <2>3, SameRefsRotate
    <3> QED BY <2>5, <3>1 DEF TLBRotates, TLBRefs, CacheRotates, CacheRefs
  <2>7. Stored(s, t, a)
    BY <2>3, <2>4 DEF SameWords, Stored
  <2>8. t.queue = MoveToEnd(s.queue, f)
    <3>1. M \in Side
      BY <2>3 DEF Core
    <3>2. M.queue = s.queue
      BY <1>0, QueueKept DEF M
    <3> QED BY <2>1, <2>2, <3>1, <3>2, QueueKept
  <2> QED BY <2>3, <2>4, <2>5, <2>6, <2>7, <2>8 DEF SideOK, t
<1>4. CASE Hits(s, f, w) = {}
  <2>1. t = Touch(I, f)
    BY <1>1, <1>4 DEF CacheWrite
  <2> HIDE DEF t, I, E, B, A, y, c, f, w
  <2>2. y \in Way
    BY <1>0, <1>2, VictimIsWay DEF y
  <2>3. /\ Core(A) /\ SameWords(s, A)
        /\ A.disk = s.disk /\ A.PT = s.PT /\ A.TLB = s.TLB
        /\ \A d \in SetIndex, z \in Way :
             A.cache[d][z].ref = IF d = c THEN s.cache[d][z].ref + 1 ELSE s.cache[d][z].ref
        /\ Hits(A, f, w) = {}
    <3>1. Index(f, w) \in SetIndex
      BY <1>2 DEF c
    <3> QED BY <1>0, <1>2, <1>4, <3>1, AgeCore DEF A
  <2>4. /\ Core(B) /\ SameWords(A, B)
        /\ B.disk = A.disk /\ B.PT = A.PT /\ B.TLB = A.TLB
        /\ ~B.cache[c][y].dirty
        /\ \A d \in SetIndex, z \in Way :
             /\ (B.cache[d][z].valid <=> A.cache[d][z].valid)
             /\ B.cache[d][z].tag = A.cache[d][z].tag
             /\ B.cache[d][z].ref = A.cache[d][z].ref
    BY <1>2, <2>2, <2>3, WriteBackCore DEF B
  <2>5. Hits(B, f, w) = {}
    <3>1. Index(f, w) \in SetIndex
      BY <1>2 DEF c
    <3>2. \A d \in SetIndex, z \in Way :
            (B.cache[d][z].valid <=> A.cache[d][z].valid)
            /\ B.cache[d][z].tag = A.cache[d][z].tag
      BY <2>4
    <3>3. \A g, o : Index(g, o) \in SetIndex => Hits(B, g, o) = Hits(A, g, o)
      BY <3>2, SameHits
    <3> QED BY <2>3, <3>1, <3>3
  <2>6. /\ Core(E) /\ Stored(B, E, a)
        /\ E.disk = B.disk /\ E.PT = B.PT /\ E.TLB = B.TLB /\ E.cache = B.cache
    <3>1. B.PT[a.page].valid /\ f = B.PT[a.page].page
      BY <1>1, <2>3, <2>4 DEF f
    <3>2. Hits(B, f, a.off \div 4) = {}
      BY <2>5 DEF w
    <3> QED BY <2>4, <3>1, <3>2, DepositCore DEF E
  <2>7. /\ Core(I) /\ SameWords(E, I)
        /\ I.disk = E.disk /\ I.PT = E.PT /\ I.TLB = E.TLB
        /\ I.cache[c][y].ref = 0
        /\ \A d \in SetIndex, z \in Way :
             d # c \/ z # y => I.cache[d][z].ref = E.cache[d][z].ref
    <3>1. E.PT[a.page].valid /\ f = E.PT[a.page].page
      BY <1>1, <2>3, <2>4, <2>6 DEF f
    <3>2. Hits(E, f, a.off \div 4) = {} /\ c = Index(f, a.off \div 4)
      <4>1. Hits(E, f, w) = Hits(B, f, w)
        BY <2>6 DEF Hits
      <4> QED BY <2>5, <4>1 DEF w, c
    <3>3. Core(E) /\ ~E.cache[c][y].dirty
      BY <2>4, <2>6
    <3>4. I = Install(E, f, f, a, c, y)
      BY DEF I
    <3>5. Core(I) /\ SameWords(E, I)
      <4>1. Core(I)
        BY <1>0, <2>2, <3>1, <3>2, <3>3, <3>4, InstallCore
      <4>2. SameWords(E, I)
        BY <1>0, <2>2, <3>1, <3>2, <3>3, <3>4, InstallCore
      <4> QED BY <4>1, <4>2
    <3>6. I.disk = E.disk /\ I.PT = E.PT /\ I.TLB = E.TLB
      <4>1. E \in Side
        BY <3>3 DEF Core
      <4> QED BY <3>4, <4>1 DEF Install, Side
    <3>7. /\ I.cache[c][y].ref = 0
          /\ \A d \in SetIndex, z \in Way :
               d # c \/ z # y => I.cache[d][z].ref = E.cache[d][z].ref
      <4>1. E \in Side
        BY <2>6 DEF Core
      <4> QED BY <1>2, <2>2, <3>4, <4>1, InstallRefs
    <3> QED BY <3>5, <3>6, <3>7
  <2>8. Core(t) /\ SameWords(I, t)
    BY <1>1, <2>1, <2>7, TouchCore
  <2>9. t.disk = I.disk /\ t.PT = I.PT /\ t.TLB = I.TLB /\ t.cache = I.cache
    BY <2>1, <2>7 DEF Touch, Core, Side
  <2>10. Stored(s, t, a)
    <3>1. \A v \in Page, o \in PageWord :
            WordSeen(B, v, o) = WordSeen(s, v, o) /\ WordSeen(t, v, o) = WordSeen(E, v, o)
      BY <2>3, <2>4, <2>7, <2>8 DEF SameWords
    <3> QED BY <2>6, <3>1 DEF Stored
  <2>11. TLBRotates(t)
    BY <1>0, <2>3, <2>4, <2>6, <2>7, <2>9 DEF TLBRotates, TLBRefs
  <2>12. CacheRotates(t)
    <3>1. \A d \in SetIndex, z \in Way :
            t.cache[d][z].ref = IF d # c THEN s.cache[d][z].ref
                                ELSE IF z = y THEN 0 ELSE s.cache[d][z].ref + 1
      <4>1. TAKE d \in SetIndex, z \in Way
      <4>2. A.cache[d][z].ref = IF d = c THEN s.cache[d][z].ref + 1 ELSE s.cache[d][z].ref
        BY <2>3
      <4>3. t.cache[d][z].ref = IF d = c /\ z = y THEN 0 ELSE A.cache[d][z].ref
        BY <2>4, <2>6, <2>7, <2>9
      <4> QED BY <4>2, <4>3
    <3>2. y = VictimWay(s, c)
      BY DEF y
    <3> QED BY <1>0, <1>2, <2>2, <3>1, <3>2, FillRotates
  <2>13. t.disk = s.disk /\ t.PT = s.PT
    BY <2>3, <2>4, <2>6, <2>7, <2>9
  <2>14. t.queue = MoveToEnd(s.queue, f)
    <3>1. A \in Side /\ B \in Side /\ E \in Side /\ I \in Side
      BY <2>3, <2>4, <2>6, <2>7 DEF Core
    <3>2. A.queue = s.queue
      BY <1>0, QueueKept DEF A
    <3>3. B.queue = A.queue
      BY <3>1, QueueKept DEF B
    <3>4. E.queue = B.queue
      BY <3>1, QueueKept DEF E
    <3>5. I.queue = E.queue
      BY <3>1, QueueKept DEF I
    <3> QED BY <2>1, <3>1, <3>2, <3>3, <3>4, <3>5, QueueKept
  <2> QED BY <2>8, <2>10, <2>11, <2>12, <2>13, <2>14 DEF SideOK, t, f
<1> QED BY <1>3, <1>4
-----------------------------------------------------------------------------
\* The program sees words.
LEMMA SeenTyped ==
  ASSUME NEW s, Core(s), NEW v \in Page, NEW o \in PageWord
  PROVE  WordSeen(s, v, o) \in Word
<1>1. s \in Side
  BY DEF Core
<1>2. CASE s.PT[v].valid
  <2>1. s.PT[v].page \in Frame
    BY <1>1 DEF Side, PTEntry
  <2> QED BY <1>2, <2>1, SeenIsNewest, NewestIsSeen
<1>3. CASE ~s.PT[v].valid
  BY <1>1, <1>3 DEF WordSeen, Side
<1> QED BY <1>2, <1>3

\* Nothing is valid at first, and the disk holds the image.
LEMMA InitOK ==
  ASSUME NEW image \in [Page -> [PageWord -> Word]]
  PROVE  LET s == InitSide(image) IN
         SideOK(s) /\ \A v \in Page, o \in PageWord : WordSeen(s, v, o) = image[v][o]
<1> DEFINE s == InitSide(image)
<1>1. /\ 0 \in Page /\ 0 \in Frame /\ 0 \in Offset /\ 0 \in TLBIndex /\ 0 \in Way
      /\ Frame \subseteq Nat
  <2>1. TLBEntries \in Nat \ {0}
    BY TLBSize
  <2> QED BY <2>1, SizesAssumption DEF Page, Frame, Offset, TLBIndex, Way
<1>2. ZeroWord \in Word
  BY ByteAssumption DEF ZeroWord, Word
<1>3. /\ s.disk = image
      /\ \A f \in Frame : ~s.mem[f].valid /\ ~s.mem[f].dirty
      /\ \A v \in Page : ~s.PT[v].valid
      /\ \A i \in TLBIndex : ~s.TLB[i].valid /\ s.TLB[i].ref = 0
      /\ \A c \in SetIndex, y \in Way :
           ~s.cache[c][y].valid /\ ~s.cache[c][y].dirty /\ s.cache[c][y].ref = 0
  BY DEF InitSide
<1>4. s \in Side
  <2>1. s.mem \in [Frame -> MemPage]
    BY <1>1, <1>2 DEF InitSide, MemPage
  <2>2. s.cache \in [SetIndex -> [Way -> Line]]
    BY <1>1, <1>2 DEF InitSide, Line
  <2>3. s.queue \in [Frame -> Frame]
    BY DEF InitSide
  <2>4. s.PT \in [Page -> PTEntry] /\ s.TLB \in [TLBIndex -> TLBEntry]
    BY <1>1 DEF InitSide, PTEntry, TLBEntry
  <2>5. s = [disk |-> s.disk, mem |-> s.mem, queue |-> s.queue, PT |-> s.PT,
             TLB |-> s.TLB, cache |-> s.cache]
    BY DEF InitSide
  <2> HIDE DEF s
  <2> QED BY <1>3, <2>1, <2>2, <2>3, <2>4, <2>5 DEF Side
<1> HIDE DEF s
<1>5. Coherent(s) /\ Current(s) /\ Unique(s) /\ CleanOnDisk(s)
  <2>1. Coherent(s)
    BY <1>3 DEF Coherent
  <2>2. Current(s)
    BY <1>3 DEF Current, LineCurrent
  <2>3. Unique(s)
    BY <1>3 DEF Unique
  <2>4. CleanOnDisk(s)
    BY <1>3 DEF CleanOnDisk
  <2> QED BY <2>1, <2>2, <2>3, <2>4
<1>6. TLBRotates(s)
  <2>1. Rotation(TLBEntries, 0, TLBRefs(s))
    <3>1. \A i \in 0 .. TLBEntries - 1 : TLBRefs(s)[i] = 0
      BY <1>3, TLBSize DEF TLBRefs
    <3> QED BY <3>1, TLBSize DEF Rotation
  <2> QED BY <1>1, <2>1 DEF TLBRotates
<1>7. CacheRotates(s)
  <2>1. SUFFICES ASSUME NEW c \in SetIndex PROVE Rotation(Ways, 0, CacheRefs(s, c))
    BY <1>1 DEF CacheRotates
  <2>2. \A i \in 0 .. Ways - 1 : CacheRefs(s, c)[i] = 0
    BY <1>3 DEF CacheRefs, Way
  <2> QED BY <2>2, SizesAssumption DEF Rotation
<1>8. \A v \in Page, o \in PageWord : WordSeen(s, v, o) = image[v][o]
  BY <1>3 DEF WordSeen
<1> QED BY <1>4, <1>5, <1>6, <1>7, <1>8 DEF SideOK, Core, s

\* A byte of memory is a byte of the word the program sees.
LEMMA BytesAt ==
  ASSUME NEW s, NEW v \in Page, NEW o \in Offset
  PROVE  Bytes(s)[v][o] = WordSeen(s, v, o \div 4)[o % 4] /\ o \div 4 \in PageWord
<1>1. o \div 4 \in PageWord
  BY AddressTyped
<1> QED BY <1>1 DEF Bytes

\* The bytes of a word.
LEMMA WordBytes ==
  ASSUME NEW w \in PageWord, NEW k \in Lane
  PROVE  4 * w + k \in Offset /\ (4 * w + k) \div 4 = w /\ (4 * w + k) % 4 = k
<1>1. w \in Nat /\ w <= PageWords - 1 /\ PageWords \in Nat /\ k \in 0 .. 3
  BY SizesAssumption DEF PageWord, Lane
<1> QED BY <1>1 DEF Offset
-----------------------------------------------------------------------------
(* The queue of frames.                                                    *)

\* r is q with frame f taken out of its place and put last.
MovedLast(q, r, f) ==
  /\ OnceEach(r)
  /\ \A g, h \in Frame : Before(r, g, h) <=> g # f /\ (h = f \/ Before(q, g, h))

\* Frames are in the queue at one place, so the order has no cycle.
LEMMA OneOrder ==
  ASSUME NEW q, OnceEach(q), NEW f \in Frame, NEW g \in Frame
  PROVE  /\ Before(q, f, g) => f # g /\ ~Before(q, g, f)
         /\ f # g => Before(q, f, g) \/ Before(q, g, f)
<1>1. PICK i \in Frame : q[i] = f /\ \A k \in Frame : q[k] = f => k = i
  BY DEF OnceEach
<1>2. PICK j \in Frame : q[j] = g /\ \A k \in Frame : q[k] = g => k = j
  BY DEF OnceEach
<1>3. i \in Int /\ j \in Int
  BY SizesAssumption DEF Frame
<1>4. Before(q, f, g) <=> i < j
  BY <1>1, <1>2 DEF Before
<1>5. Before(q, g, f) <=> j < i
  BY <1>1, <1>2 DEF Before
<1> QED BY <1>1, <1>2, <1>3, <1>4, <1>5

\* What MoveToEnd does to the order.
LEMMA MoveToEndOrder ==
  ASSUME NEW q, OnceEach(q), NEW f \in Frame
  PROVE  MovedLast(q, MoveToEnd(q, f), f)
<1> DEFINE at == First({i \in Frame : q[i] = f})
           n == Frames - 1
           r == MoveToEnd(q, f)
<1>1. Frame = 0 .. n /\ n \in Nat
  BY SizesAssumption DEF Frame
<1>2. PICK p \in Frame : q[p] = f /\ \A j \in Frame : q[j] = f => j = p
  BY DEF OnceEach
<1>3. at = p
  <2>1. {i \in Frame : q[i] = f} = {p}
    BY <1>2
  <2> QED BY <1>1, <2>1, FirstOfOne
<1>4. r = [i \in Frame |-> IF i < p THEN q[i] ELSE IF i < n THEN q[i + 1] ELSE f]
  BY <1>3 DEF MoveToEnd
<1> HIDE DEF at, r
<1>5. \A i \in Frame : /\ i < p => r[i] = q[i]
                       /\ i >= p /\ i < n => i + 1 \in Frame /\ r[i] = q[i + 1]
                       /\ i = n => r[i] = f
  BY <1>1, <1>2, <1>4
<1> DEFINE T(i) == IF i < p THEN i ELSE IF i = p THEN n ELSE i - 1
<1>6. \A i \in Frame : T(i) \in Frame /\ r[T(i)] = q[i]
  BY <1>1, <1>2, <1>5
<1>7. \A k \in Frame : \E i \in Frame : k = T(i)
  <2>1. TAKE k \in Frame
  <2>2. CASE k < p
    BY <1>1, <2>2
  <2>3. CASE k >= p /\ k < n
    BY <1>1, <2>3
  <2>4. CASE k >= p /\ k = n
    BY <1>1, <2>4
  <2> QED BY <1>1, <2>2, <2>3, <2>4
<1>8. OnceEach(r)
  <2>1. r \in [Frame -> Frame]
    <3>1. \A i \in Frame : r[i] \in Frame
      <4>1. \A i \in Frame : q[i] \in Frame
        BY DEF OnceEach
      <4> HIDE DEF T
      <4> QED BY <1>6, <1>7, <4>1
    <3> QED BY <1>4, <3>1
  <2>2. ASSUME NEW g \in Frame
        PROVE  \E i \in Frame : r[i] = g /\ \A j \in Frame : r[j] = g => j = i
    <3>1. PICK i \in Frame : q[i] = g /\ \A j \in Frame : q[j] = g => j = i
      BY DEF OnceEach
    <3>2. ASSUME NEW j \in Frame, r[j] = g PROVE j = T(i)
      BY <1>6, <1>7, <3>1, <3>2
    <3> HIDE DEF T
    <3> QED BY <1>6, <3>1, <3>2
  <2> QED BY <2>1, <2>2 DEF OnceEach
<1>9. ASSUME NEW g \in Frame, NEW h \in Frame
      PROVE  Before(r, g, h) <=> g # f /\ (h = f \/ Before(q, g, h))
  <2>1. PICK i \in Frame : q[i] = g /\ \A k \in Frame : q[k] = g => k = i
    BY DEF OnceEach
  <2>2. PICK j \in Frame : q[j] = h /\ \A k \in Frame : q[k] = h => k = j
    BY DEF OnceEach
  <2>3. Before(q, g, h) <=> i < j
    BY <2>1, <2>2 DEF Before
  <2>4. Before(r, g, h) <=> T(i) < T(j)
    <3>1. T(i) \in Frame /\ T(j) \in Frame /\ r[T(i)] = g /\ r[T(j)] = h
      BY <1>6, <2>1, <2>2
    <3>2. \A k \in Frame : r[k] = g => k = T(i)
      BY <1>8, <3>1 DEF OnceEach
    <3>3. \A k \in Frame : r[k] = h => k = T(j)
      BY <1>8, <3>1 DEF OnceEach
    <3> HIDE DEF T
    <3> QED BY <3>1, <3>2, <3>3 DEF Before
  <2>5. (g = f <=> i = p) /\ (h = f <=> j = p)
    BY <1>2, <2>1, <2>2
  <2>6. T(i) < T(j) <=> i # p /\ (j = p \/ i < j)
    BY <1>1, <1>2
  <2> HIDE DEF T
  <2> QED BY <2>3, <2>4, <2>5, <2>6
<1> QED BY <1>8, <1>9 DEF MovedLast, r

\* Moving a frame to the end twice is moving it once.
LEMMA MovedTwice ==
  ASSUME NEW q, NEW r, NEW w, NEW f \in Frame, MovedLast(q, r, f), MovedLast(r, w, f)
  PROVE  MovedLast(q, w, f)
BY DEF MovedLast

\* The frame an access to page v uses.
Target(s, v) == IF s.PT[v].valid THEN s.PT[v].page ELSE s.queue[0]

\* What an access to page v does to the queue and the page table.
Accessed(s, t, v) ==
  LET f == Target(s, v)
  IN  /\ MovedLast(s.queue, t.queue, f)
      /\ s.PT[v].valid => t.PT = s.PT
      /\ ~s.PT[v].valid =>
           /\ t.PT[v].valid /\ t.PT[v].page = f
           /\ \A x \in Page \ {v} :
                /\ t.PT[x].valid <=> s.PT[x].valid /\ s.PT[x].page # f
                /\ t.PT[x].page = s.PT[x].page

\* The target is a frame, and a page that faults takes the first of the queue.
LEMMA TargetFrame ==
  ASSUME NEW s \in Side, OnceEach(s.queue), NEW v \in Page
  PROVE  /\ Target(s, v) \in Frame
         /\ s.queue[0] \in Frame
         /\ \A g \in Frame \ {s.queue[0]} : Before(s.queue, s.queue[0], g)
<1>1. 0 \in Frame /\ \A i \in Frame : i \in Nat
  BY SizesAssumption DEF Frame
<1>2. s.queue[0] \in Frame
  BY <1>1 DEF OnceEach
<1>3. s.PT[v].page \in Frame
  BY DEF Side, PTEntry
<1>4. ASSUME NEW g \in Frame, g # s.queue[0] PROVE Before(s.queue, s.queue[0], g)
  <2>1. PICK i \in Frame : s.queue[i] = g
    BY DEF OnceEach
  <2>2. 0 < i
    BY <1>1, <1>4, <2>1
  <2> QED BY <1>1, <2>1, <2>2 DEF Before
<1> QED BY <1>2, <1>3, <1>4 DEF Target

\* A translation moves no frame, or the frame that takes the faulting page.
LEMMA TranslateQueue ==
  ASSUME NEW s, SideOK(s), OnceEach(s.queue), NEW v \in Page
  PROVE  LET t == Translate(s, v) IN
         /\ s.PT[v].valid => t.queue = s.queue /\ t.PT = s.PT
         /\ ~s.PT[v].valid => Accessed(s, t, v)
<1> DEFINE f == s.queue[0]
           p == PageFault(s, v)
<1>0. Core(s) /\ s \in Side /\ f \in Frame
  BY TargetFrame DEF SideOK, Core
<1>1. CASE TLBHits(s, v) # {}
  <2>1. s.PT[v].valid
    BY <1>0, <1>1, TLBHitFrame
  <2> QED BY <1>1, <2>1 DEF Translate
<1>2. ASSUME NEW u, u \in Side
      PROVE  TLBFill(u, v).queue = u.queue /\ TLBFill(u, v).PT = u.PT
  BY <1>2 DEF TLBFill, Side
<1>3. CASE TLBHits(s, v) = {} /\ s.PT[v].valid
  BY <1>0, <1>2, <1>3 DEF Translate
<1>4. CASE ~s.PT[v].valid
  <2> DEFINE a == Touch(s, f)
             b == Flush(a, f)
             c == Save(b, f)
             u == Unmap(c, f)
  <2>1. Core(a) /\ a.queue = MoveToEnd(s.queue, f) /\ a.PT = s.PT /\ a.mem = s.mem
    <3>1. a.queue = MoveToEnd(s.queue, f) /\ a.PT = s.PT /\ a.mem = s.mem
      BY <1>0 DEF Touch, Side
    <3> QED BY <1>0, <3>1, TouchCore
  <2>2. p = LoadPage(Unmap(Save(Flush(a, f), f), f), f, v)
    BY DEF PageFault
  <2> HIDE DEF a, p
  <2>3. /\ Core(b) /\ b.queue = a.queue /\ b.PT = a.PT
        /\ (b.mem[f].valid <=> a.mem[f].valid) /\ b.mem[f].va = a.mem[f].va
    BY <1>0, <2>1, FlushCore
  <2> HIDE DEF b
  <2>4. Core(c) /\ c.queue = b.queue /\ c.PT = b.PT /\ c.mem = b.mem
    BY <1>0, <2>3, SaveCore
  <2> HIDE DEF c
  <2>5. /\ u \in Side /\ u.queue = c.queue
        /\ \A x \in Page :
              /\ u.PT[x].page = c.PT[x].page
              /\ u.PT[x].valid <=> c.PT[x].valid /\ ~(c.mem[f].valid /\ x = c.mem[f].va)
    BY <1>0, <2>4, UnmapParts
  <2>6. p = LoadPage(u, f, v)
    BY <2>2 DEF u, c, b
  <2> HIDE DEF u
  <2>7. p.queue = u.queue /\ p.PT = [u.PT EXCEPT ![v] = [valid |-> TRUE, page |-> f]]
    BY <2>5, <2>6 DEF LoadPage, Side
  <2>8. u.PT \in [Page -> PTEntry]
    BY <2>5 DEF Side
  <2>9. p.PT[v].valid /\ p.PT[v].page = f /\ \A x \in Page \ {v} : p.PT[x] = u.PT[x]
    BY <2>7, <2>8
  <2>10. \A x \in Page : s.PT[x].valid =>
           (s.mem[f].valid /\ x = s.mem[f].va <=> s.PT[x].page = f)
    BY <1>0 DEF Core, Coherent
  <2>11. \A x \in Page \ {v} : /\ p.PT[x].valid <=> s.PT[x].valid /\ s.PT[x].page # f
                               /\ p.PT[x].page = s.PT[x].page
    BY <2>1, <2>3, <2>4, <2>5, <2>9, <2>10
  <2>12. MovedLast(s.queue, p.queue, f)
    BY <1>0, <2>1, <2>3, <2>4, <2>5, <2>7, MoveToEndOrder
  <2>13. p \in Side
    BY <1>0, <1>4, PageFaultCore DEF Core, p
  <2>14. Translate(s, v) = TLBFill(p, v)
    <3>1. TLBHits(s, v) = {}
      BY <1>0, <1>4, TLBHitFrame
    <3> QED BY <1>4, <3>1 DEF Translate, p
  <2>15. Translate(s, v).queue = p.queue /\ Translate(s, v).PT = p.PT
    BY <1>2, <2>13, <2>14
  <2>16. Target(s, v) = f
    BY <1>4 DEF Target
  <2> HIDE DEF f
  <2> QED BY <1>4, <2>9, <2>11, <2>12, <2>15, <2>16 DEF Accessed
<1> QED BY <1>1, <1>3, <1>4

\* An access to page v, whole: what the translation moves the cache moves again.
LEMMA AccessQueue ==
  ASSUME NEW s, SideOK(s), OnceEach(s.queue), NEW v \in Page, NEW t, t = Translate(s, v),
         NEW u, u.PT = t.PT, u.queue = MoveToEnd(t.queue, t.PT[v].page)
  PROVE  Accessed(s, u, v)
<1> DEFINE f == Target(s, v)
<1>1. f \in Frame
  BY TargetFrame DEF SideOK, Core
<1>2. CASE s.PT[v].valid
  <2>1. t.queue = s.queue /\ t.PT = s.PT
    BY <1>2, TranslateQueue
  <2>2. f = s.PT[v].page
    BY <1>2 DEF Target
  <2>3. MovedLast(s.queue, u.queue, f)
    BY <1>1, <2>1, <2>2, MoveToEndOrder
  <2> QED BY <1>2, <2>1, <2>3 DEF Accessed
<1>3. CASE ~s.PT[v].valid
  <2>1. Accessed(s, t, v)
    BY <1>3, TranslateQueue
  <2>2. MovedLast(s.queue, t.queue, f) /\ t.PT[v].page = f
    BY <1>3, <2>1 DEF Accessed
  <2>3. MovedLast(t.queue, u.queue, f)
    BY <1>1, <2>2, MoveToEndOrder DEF MovedLast
  <2>4. MovedLast(s.queue, u.queue, f)
    BY <1>1, <2>2, <2>3, MovedTwice
  <2> HIDE DEF f
  <2> QED BY <1>3, <2>1, <2>4 DEF Accessed, f
<1> QED BY <1>2, <1>3

\* The frames in use are those of the page table.
LEMMA InUse ==
  ASSUME NEW s, Core(s), NEW f \in Frame
  PROVE  /\ s.mem[f].valid =>
              s.mem[f].va \in Page /\ s.PT[s.mem[f].va].valid /\ s.PT[s.mem[f].va].page = f
         /\ \A v \in Page : s.PT[v].valid /\ s.PT[v].page = f =>
              s.mem[f].valid /\ s.mem[f].va = v
BY DEF Core, Coherent, Side, MemPage

\* What an access does to the frames.
LEMMA AccessFrames ==
  ASSUME NEW s, Core(s), OnceEach(s.queue), NEW u, Core(u), NEW v \in Page, Accessed(s, u, v)
  PROVE  LET f == Target(s, v) IN
         /\ u.mem[f].valid /\ u.mem[f].va = v
         /\ \A g \in Frame \ {f} : /\ u.mem[g].valid <=> s.mem[g].valid
                                   /\ s.mem[g].valid => u.mem[g].va = s.mem[g].va /\ s.mem[g].va # v
<1> DEFINE f == Target(s, v)
<1>1. f \in Frame
  BY TargetFrame DEF Core
<1>2. u.PT[v].valid /\ u.PT[v].page = f
  BY DEF Accessed, Target
<1>3. \A x \in Page \ {v} : /\ u.PT[x].valid <=> s.PT[x].valid /\ s.PT[x].page # f
                            /\ u.PT[x].page = s.PT[x].page
  <2>1. CASE s.PT[v].valid
    <3>1. u.PT = s.PT /\ f = s.PT[v].page
      BY <2>1 DEF Accessed, Target
    <3>2. \A x \in Page \ {v} : s.PT[x].valid => s.PT[x].page # f
      BY <2>1, <3>1, OnePage
    <3> QED BY <3>1, <3>2
  <2>2. CASE ~s.PT[v].valid
    BY <2>2 DEF Accessed
  <2> QED BY <2>1, <2>2
<1> HIDE DEF f
<1>4. ASSUME NEW g \in Frame, g # f, s.mem[g].valid
      PROVE  u.mem[g].valid /\ u.mem[g].va = s.mem[g].va /\ s.mem[g].va # v
  <2> DEFINE x == s.mem[g].va
  <2>1. x \in Page /\ s.PT[x].valid /\ s.PT[x].page = g
    BY <1>4, InUse
  <2>2. x # v
    <3>1. s.PT[v].valid => f = s.PT[v].page
      BY DEF f, Target
    <3> QED BY <1>4, <2>1, <3>1
  <2>3. u.PT[x].valid /\ u.PT[x].page = g
    BY <1>3, <1>4, <2>1, <2>2
  <2> QED BY <2>1, <2>2, <2>3, InUse
<1>5. ASSUME NEW g \in Frame, g # f, u.mem[g].valid PROVE s.mem[g].valid
  <2> DEFINE x == u.mem[g].va
  <2>1. x \in Page /\ u.PT[x].valid /\ u.PT[x].page = g
    BY <1>5, InUse
  <2>2. x # v
    BY <1>2, <1>5, <2>1
  <2>3. s.PT[x].valid /\ s.PT[x].page = g
    BY <1>3, <2>1, <2>2
  <2> QED BY <2>1, <2>3, InUse
<1>6. u.mem[f].valid /\ u.mem[f].va = v
  BY <1>1, <1>2, InUse
<1> QED BY <1>4, <1>5, <1>6 DEF f

\* The queue stays in order: a frame that comes into use goes behind the others.
LEMMA AccessKeepsOrder ==
  ASSUME NEW s, Core(s), QueueOK(s), NEW u, Core(u), NEW v \in Page, Accessed(s, u, v)
  PROVE  QueueOK(u)
<1> DEFINE f == Target(s, v)
<1>1. f \in Frame /\ OnceEach(s.queue)
  BY TargetFrame DEF Core, QueueOK
<1>2. MovedLast(s.queue, u.queue, f)
  BY DEF Accessed
<1>3. u.mem[f].valid /\ \A g \in Frame \ {f} : u.mem[g].valid <=> s.mem[g].valid
  BY <1>1, AccessFrames
<1> HIDE DEF f
<1>4. ASSUME NEW g \in Frame, NEW h \in Frame, Before(u.queue, g, h), ~u.mem[h].valid
      PROVE  ~u.mem[g].valid /\ g < h
  <2>1. g # f /\ h # f /\ Before(s.queue, g, h)
    BY <1>2, <1>3, <1>4 DEF MovedLast
  <2> QED BY <1>3, <1>4, <2>1 DEF QueueOK, FreeFirst
<1> QED BY <1>2, <1>4 DEF MovedLast, QueueOK, FreeFirst

\* What Older says of two pages in memory.
LEMMA OlderPair ==
  ASSUME NEW s, NEW x, NEW y
  PROVE  <<x, y>> \in Older(s) <=>
           /\ x \in Page /\ y \in Page /\ s.PT[x].valid /\ s.PT[y].valid
           /\ Before(s.queue, s.PT[x].page, s.PT[y].page)
BY DEF Older

\* The pages in memory, and the order once v is used and stay are the others.
Resident(s) == {v \in Page : s.PT[v].valid}

UsedLast(s, v, stay) == (Older(s) \cap (stay \X stay)) \cup (stay \X {v})

\* An access to page v from side s to side u, as LRUPaging sees it.
LRUStep(s, u, v) ==
  \/ /\ v \in Resident(s)
     /\ Held(u) = Held(s)
     /\ Older(u) = UsedLast(s, v, Resident(s) \ {v})
  \/ /\ v \notin Resident(s)
     /\ \E f \in Frame : /\ Held(s)[f] = DiskPages
                         /\ \A g \in Frame : Held(s)[g] = DiskPages => f <= g
                         /\ Held(u) = [Held(s) EXCEPT ![f] = v]
     /\ Older(u) = UsedLast(s, v, Resident(s))
  \/ /\ v \notin Resident(s)
     /\ \A g \in Frame : Held(s)[g] # DiskPages
     /\ \E f \in Frame : /\ \A g \in Frame \ {f} : <<Held(s)[f], Held(s)[g]>> \in Older(s)
                         /\ Held(u) = [Held(s) EXCEPT ![f] = v]
                         /\ Older(u) = UsedLast(s, v, Resident(s) \ {Held(s)[f]})

\* Held holds a page of memory, or the number no page has.
LEMMA HeldAt ==
  ASSUME NEW s, Core(s), NEW f \in Frame
  PROVE  /\ s.mem[f].valid => Held(s)[f] = s.mem[f].va /\ Held(s)[f] \in Resident(s)
                              /\ s.PT[Held(s)[f]].page = f
         /\ Held(s)[f] = DiskPages <=> ~s.mem[f].valid
<1>1. DiskPages \notin Page
  BY SizesAssumption DEF Page
<1>2. Held(s)[f] = IF s.mem[f].valid THEN s.mem[f].va ELSE DiskPages
  BY DEF Held
<1> QED BY <1>1, <1>2, InUse DEF Resident

\* The pages the frames hold are the pages the page table knows.
LEMMA ResidentPages ==
  ASSUME NEW s, Core(s)
  PROVE  Resident(s) = {Held(s)[f] : f \in Frame \ {g \in Frame : Held(s)[g] = DiskPages}}
<1>1. ASSUME NEW v \in Resident(s)
      PROVE  \E f \in Frame \ {g \in Frame : Held(s)[g] = DiskPages} : v = Held(s)[f]
  <2>1. v \in Page /\ s.PT[v].valid /\ s.PT[v].page \in Frame
    BY DEF Resident, Core, Side, PTEntry
  <2>2. s.mem[s.PT[v].page].valid /\ s.mem[s.PT[v].page].va = v
    BY <2>1, InUse
  <2> QED BY <2>1, <2>2, HeldAt
<1>2. ASSUME NEW f \in Frame \ {g \in Frame : Held(s)[g] = DiskPages}
      PROVE  Held(s)[f] \in Resident(s)
  BY HeldAt
<1> QED BY <1>1, <1>2

\* The page used comes last, the others that stay keep their order.
LEMMA AccessOlder ==
  ASSUME NEW s, Core(s), OnceEach(s.queue), NEW u, Core(u), NEW v \in Page, Accessed(s, u, v),
         NEW stay, stay = {x \in Resident(s) : x # v /\ s.PT[x].page # Target(s, v)}
  PROVE  Older(u) = UsedLast(s, v, stay)
<1> DEFINE f == Target(s, v)
<1>1. f \in Frame /\ \A x \in Page : s.PT[x].page \in Frame /\ u.PT[x].page \in Frame
  BY TargetFrame DEF Core, Side, PTEntry
<1>2. u.PT[v].valid /\ u.PT[v].page = f
  BY DEF Accessed, Target
<1>3. \A g, h \in Frame : Before(u.queue, g, h) <=> g # f /\ (h = f \/ Before(s.queue, g, h))
  BY DEF Accessed, MovedLast
<1>4. \A x \in Page \ {v} : /\ u.PT[x].valid <=> x \in stay
                            /\ x \in stay => u.PT[x].page = s.PT[x].page
  <2>1. CASE s.PT[v].valid
    <3>1. u.PT = s.PT /\ f = s.PT[v].page
      BY <2>1 DEF Accessed, Target
    <3>2. \A x \in Page \ {v} : s.PT[x].valid => s.PT[x].page # f
      BY <2>1, <3>1, OnePage
    <3> QED BY <3>1, <3>2 DEF Resident
  <2>2. CASE ~s.PT[v].valid
    BY <2>2 DEF Accessed, Resident
  <2> QED BY <2>1, <2>2
<1>5. \A x \in stay : x \in Page /\ x # v /\ s.PT[x].valid /\ s.PT[x].page # f
  BY DEF Resident
<1> HIDE DEF f
<1>6. ASSUME NEW x, NEW y
      PROVE  <<x, y>> \in Older(u) <=> <<x, y>> \in UsedLast(s, v, stay)
  <2>1. <<x, y>> \in UsedLast(s, v, stay) <=>
          \/ <<x, y>> \in Older(s) /\ x \in stay /\ y \in stay
          \/ x \in stay /\ y = v
    BY DEF UsedLast
  <2>2. CASE x \in Page /\ y \in Page
    <3>1. CASE x = v
      BY <1>1, <1>2, <1>3, <1>5, <2>1, <2>2, <3>1, OlderPair
    <3>2. CASE x # v /\ y = v
      BY <1>1, <1>2, <1>3, <1>4, <1>5, <2>1, <2>2, <3>2, OlderPair
    <3>3. CASE x # v /\ y # v
      BY <1>1, <1>3, <1>4, <1>5, <2>1, <2>2, <3>3, OlderPair
    <3> QED BY <3>1, <3>2, <3>3
  <2>3. CASE ~(x \in Page /\ y \in Page)
    BY <1>5, <2>1, <2>3, OlderPair
  <2> QED BY <2>2, <2>3
<1>7. Older(u) \subseteq Page \X Page /\ UsedLast(s, v, stay) \subseteq Page \X Page
  BY <1>5 DEF Older, UsedLast
<1>8. ASSUME NEW p \in Page \X Page PROVE p \in Older(u) <=> p \in UsedLast(s, v, stay)
  <2>1. p = <<p[1], p[2]>>
    OBVIOUS
  <2> QED BY <1>6, <2>1
<1> QED BY <1>7, <1>8

\* Every access is a step of LRU paging.
LEMMA AccessLRU ==
  ASSUME NEW s, Core(s), QueueOK(s), NEW u, Core(u), NEW v \in Page, Accessed(s, u, v)
  PROVE  LRUStep(s, u, v)
<1> DEFINE f == Target(s, v)
           stay == {x \in Resident(s) : x # v /\ s.PT[x].page # f}
<1>1. /\ f \in Frame /\ OnceEach(s.queue) /\ s \in Side
      /\ \A g \in Frame \ {s.queue[0]} : Before(s.queue, s.queue[0], g)
  BY TargetFrame DEF Core, QueueOK
<1>2. /\ u.mem[f].valid /\ u.mem[f].va = v
      /\ \A g \in Frame \ {f} : /\ u.mem[g].valid <=> s.mem[g].valid
                                /\ s.mem[g].valid => u.mem[g].va = s.mem[g].va /\ s.mem[g].va # v
  BY <1>1, AccessFrames
<1>3. Older(u) = UsedLast(s, v, stay)
  BY <1>1, AccessOlder
<1> HIDE DEF f
<1>4. Held(u) = [Held(s) EXCEPT ![f] = v]
  <2>1. \A g \in Frame : Held(u)[g] = IF g = f THEN v ELSE Held(s)[g]
    BY <1>1, <1>2 DEF Held
  <2>2. Held(u) = [g \in Frame |-> Held(u)[g]] /\ DOMAIN Held(s) = Frame
    BY DEF Held
  <2> QED BY <2>1, <2>2
<1>5. CASE s.PT[v].valid
  <2>1. f = s.PT[v].page /\ v \in Resident(s)
    BY <1>5 DEF f, Target, Resident
  <2>2. s.mem[f].valid /\ s.mem[f].va = v
    BY <1>1, <1>5, <2>1, InUse
  <2>3. Held(s)[f] = v
    BY <1>1, <2>2, HeldAt
  <2>4. Held(u) = Held(s)
    <3>1. Held(s) = [g \in Frame |-> Held(s)[g]]
      BY DEF Held
    <3> QED BY <1>4, <2>3, <3>1
  <2>5. stay = Resident(s) \ {v}
    BY <1>5, <2>1, OnePage DEF Resident
  <2> QED BY <1>3, <2>1, <2>4, <2>5 DEF LRUStep
<1>6. CASE ~s.PT[v].valid
  <2>1. f = s.queue[0] /\ v \notin Resident(s)
    BY <1>6 DEF f, Target, Resident
  <2>2. CASE ~s.mem[f].valid
    <3>1. \A g \in Frame : ~s.mem[g].valid => f <= g
      <4>1. \A g \in Frame : g \in Nat
        BY SizesAssumption DEF Frame
      <4>2. \A g \in Frame \ {f} : ~s.mem[g].valid => f < g
        BY <1>1, <2>1 DEF QueueOK, FreeFirst
      <4> QED BY <1>1, <4>1, <4>2
    <3>2. Held(s)[f] = DiskPages /\ \A g \in Frame : Held(s)[g] = DiskPages => f <= g
      BY <1>1, <2>2, <3>1, HeldAt
    <3>3. stay = Resident(s)
      BY <1>1, <2>1, <2>2, InUse DEF Resident
    <3> QED BY <1>1, <1>3, <1>4, <2>1, <3>2, <3>3 DEF LRUStep
  <2>3. CASE s.mem[f].valid
    <3>1. \A g \in Frame : s.mem[g].valid
      BY <1>1, <2>1, <2>3 DEF QueueOK, FreeFirst
    <3>2. \A g \in Frame : /\ Held(s)[g] # DiskPages /\ Held(s)[g] \in Resident(s)
                           /\ s.PT[Held(s)[g]].page = g
      BY <3>1, HeldAt
    <3>3. \A g \in Frame \ {f} : <<Held(s)[f], Held(s)[g]>> \in Older(s)
      BY <1>1, <2>1, <3>2, OlderPair DEF Resident
    <3>4. stay = Resident(s) \ {Held(s)[f]}
      <4>1. \A x \in Resident(s) : s.PT[x].page = f <=> x = Held(s)[f]
        BY <1>1, <3>2, OnePage DEF Resident
      <4> QED BY <2>1, <4>1
    <3> QED BY <1>1, <1>3, <1>4, <2>1, <3>2, <3>3, <3>4 DEF LRUStep
  <2> QED BY <2>2, <2>3
<1> QED BY <1>5, <1>6

\* A load is a step of LRU paging.
LEMMA ReadPages ==
  ASSUME NEW s, SideOK(s), QueueOK(s), NEW a, a.page \in Page, a.off \in Offset,
         Aligned(a.off), NEW u, u = CacheRead(Translate(s, a.page), a)
  PROVE  QueueOK(u) /\ LRUStep(s, u, a.page)
<1> DEFINE t == Translate(s, a.page)
<1>1. Ready(t, a.page)
  BY TranslateOK DEF Ready
<1>2. Core(u) /\ u.PT = t.PT /\ u.queue = MoveToEnd(t.queue, t.PT[a.page].page)
  <2> HIDE DEF t
  <2>1. u = CacheRead(t, a)
    BY DEF t
  <2> QED BY <1>1, <2>1, CacheReadOK DEF SideOK
<1>3. Accessed(s, u, a.page)
  BY <1>2, AccessQueue DEF QueueOK
<1> QED BY <1>2, <1>3, AccessKeepsOrder, AccessLRU DEF SideOK

\* So is a store.
LEMMA WritePages ==
  ASSUME NEW s, SideOK(s), QueueOK(s), NEW a, IsStore(a), Aligned(a.off),
         NEW u, u = CacheWrite(Translate(s, a.page), a)
  PROVE  QueueOK(u) /\ LRUStep(s, u, a.page)
<1> DEFINE t == Translate(s, a.page)
<1>0. a.page \in Page
  BY DEF IsStore
<1>1. Ready(t, a.page)
  BY <1>0, TranslateOK DEF Ready
<1>2. Core(u) /\ u.PT = t.PT /\ u.queue = MoveToEnd(t.queue, t.PT[a.page].page)
  <2> HIDE DEF t
  <2>1. u = CacheWrite(t, a)
    BY DEF t
  <2> QED BY <1>1, <2>1, CacheWriteOK DEF SideOK
<1>3. Accessed(s, u, a.page)
  BY <1>0, <1>2, AccessQueue DEF QueueOK
<1> QED BY <1>0, <1>2, <1>3, AccessKeepsOrder, AccessLRU DEF SideOK

\* At first the queue holds the frames in order, all free.
LEMMA InitQueue ==
  ASSUME NEW image
  PROVE  LET s == InitSide(image) IN
         QueueOK(s) /\ Held(s) = [f \in Frame |-> DiskPages] /\ Older(s) = {}
<1> DEFINE s == InitSide(image)
<1>1. /\ s.queue = [i \in Frame |-> i]
      /\ \A f \in Frame : ~s.mem[f].valid
      /\ \A v \in Page : ~s.PT[v].valid
  BY DEF InitSide
<1> HIDE DEF s
<1>2. OnceEach(s.queue)
  BY <1>1 DEF OnceEach
<1>3. FreeFirst(s)
  BY <1>1 DEF FreeFirst, Before
<1>4. Held(s) = [f \in Frame |-> DiskPages]
  BY <1>1 DEF Held
<1>5. Older(s) = {}
  BY <1>1 DEF Older
<1> QED BY <1>2, <1>3, <1>4, <1>5 DEF QueueOK, s
=============================================================================
