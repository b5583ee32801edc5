--------------------------- MODULE DatapathProofs ---------------------------
(***************************************************************************)
(* What the units of Datapath compute is what Instructions defines, for    *)
(* words of any width: the carry chains find exactly the sums and          *)
(* differences that do not fit, the masks and shifts of the loads and      *)
(* stores move the bytes they name, SRA fills with the sign, and addresses *)
(* and branch targets in ints are those of unsigned words.                 *)
(*                                                                         *)
(* A chain of bits is a recursive function; what it computes is shown from *)
(* its first value and its step (UpTo, Agree), which rest on the least     *)
(* element of a set of numbers.                                            *)
(***************************************************************************)
EXTENDS Datapath, WellFoundedInduction, TLAPS

\* Every set of numbers that is not empty has a least one.
LEMMA Least ==
  ASSUME NEW T \in SUBSET Nat, T # {}
  PROVE  \E m \in T : \A k \in T : m <= k
<1>1. PICK m \in T : \A k \in T : ~(<<k, m>> \in OpToRel(<, Nat))
  BY NatLessThanWellFounded, WFMin, Zenon
<1>2. \A k \in T : ~(k < m)
  BY <1>1 DEF OpToRel
<1> QED BY <1>2

\* A set that has 0 and the successors of its elements has all numbers up to n.
LEMMA UpTo ==
  ASSUME NEW n \in Nat, NEW T, 0 \in T,
         \A k \in 0 .. n - 1 : k \in T => k + 1 \in T
  PROVE  \A k \in 0 .. n : k \in T
<1> SUFFICES ASSUME NEW j \in 0 .. n, j \notin T PROVE FALSE
  OBVIOUS
<1> DEFINE Out == {k \in 0 .. n : k \notin T}
<1>1. PICK m \in Out : \A k \in Out : m <= k
  <2>1. Out \in SUBSET Nat /\ Out # {}
    OBVIOUS
  <2> HIDE DEF Out
  <2> QED BY <2>1, Least
<1>2. m - 1 \in 0 .. n - 1 /\ m - 1 \notin Out
  BY <1>1
<1> QED BY <1>1, <1>2

\* Two functions that start alike and go on alike are alike up to n.
LEMMA Agree ==
  ASSUME NEW n \in Nat, NEW f, NEW g, f[0] = g[0],
         \A k \in 0 .. n - 1 : f[k] = g[k] => f[k + 1] = g[k + 1]
  PROVE  \A k \in 0 .. n : f[k] = g[k]
<1> DEFINE T == {k \in 0 .. n : f[k] = g[k]}
<1>1. 0 \in T
  OBVIOUS
<1>2. ASSUME NEW k \in 0 .. n - 1, k \in T PROVE k + 1 \in T
  BY <1>2
<1> HIDE DEF T
<1>3. \A k \in 0 .. n : k \in T
  BY <1>1, <1>2, UpTo
<1> QED BY <1>3 DEF T
-----------------------------------------------------------------------------
(* Powers of two.                                                          *)

\* Words have four bytes.
LEMMA Widths ==
  /\ Bits \in Nat \ {0} /\ ByteBits \in Nat \ {0} /\ Bits = 4 * ByteBits
BY WidthAssumption DEF Bits

\* The next power of two.
LEMMA PowNext ==
  ASSUME NEW k \in 0 .. Bits - 1 PROVE 2 ^ (k + 1) = 2 * 2 ^ k
BY PowerAssumption

\* Powers of two are not zero.
LEMMA PowPositive ==
  ASSUME NEW k \in 0 .. Bits PROVE 2 ^ k \in Nat \ {0}
<1> DEFINE T == {j \in 0 .. Bits : 2 ^ j \in Nat \ {0}}
<1>1. 0 \in T
  BY Widths
<1>2. ASSUME NEW j \in 0 .. Bits - 1, j \in T PROVE j + 1 \in T
  BY <1>2, Widths, PowNext
<1> HIDE DEF T
<1>3. k \in T
  BY <1>1, <1>2, UpTo, Widths
<1> QED BY <1>3 DEF T

\* A product of powers of two.
LEMMA PowSum ==
  ASSUME NEW j \in 0 .. Bits, NEW k \in 0 .. Bits - j
  PROVE  2 ^ (j + k) = 2 ^ j * 2 ^ k
<1> DEFINE T == {i \in 0 .. Bits - j : 2 ^ (j + i) = 2 ^ j * 2 ^ i}
<1>1. 0 \in T
  <2>1. 2 ^ j \in Nat /\ 2 ^ 0 = 1 /\ j + 0 = j
    BY PowPositive, Widths
  <2> QED BY <2>1, Widths
<1>2. ASSUME NEW i \in 0 .. (Bits - j) - 1, i \in T PROVE i + 1 \in T
  <2>1. 2 ^ (j + i) = 2 ^ j * 2 ^ i /\ 2 ^ (i + 1) = 2 * 2 ^ i
    BY <1>2, PowNext, Widths
  <2>2. 2 ^ ((j + i) + 1) = 2 * 2 ^ (j + i)
    BY PowNext, Widths
  <2>3. 2 ^ j \in Nat /\ 2 ^ i \in Nat
    BY PowPositive, Widths
  <2>4. 2 * (2 ^ j * 2 ^ i) = 2 ^ j * (2 * 2 ^ i)
    BY <2>3
  <2>5. (j + i) + 1 = j + (i + 1)
    BY Widths
  <2> QED BY <2>1, <2>2, <2>4, <2>5, Widths
<1> HIDE DEF T
<1>3. k \in T
  <2>1. Bits - j \in Nat
    BY Widths
  <2> QED BY <1>1, <1>2, <2>1, UpTo
<1> QED BY <1>3 DEF T
-----------------------------------------------------------------------------
(* Division.                                                               *)

\* Quotient and remainder.
LEMMA DivMod ==
  ASSUME NEW a \in Int, NEW d \in Nat \ {0}
  PROVE  /\ a \div d \in Int /\ a % d \in 0 .. d - 1
         /\ a = d * (a \div d) + (a % d)
         /\ a >= 0 => a \div d >= 0
OBVIOUS

\* Quotient and remainder are the only ones.
LEMMA Unique ==
  ASSUME NEW d \in Nat \ {0}, NEW q \in Int, NEW r \in 0 .. d - 1
  PROVE  (d * q + r) \div d = q /\ (d * q + r) % d = r
<1> DEFINE a == d * q + r
<1>1. a \in Int
  OBVIOUS
<1> DEFINE x == a \div d
           y == a % d
<1>2. x \in Int /\ y \in 0 .. d - 1 /\ d * q + r = d * x + y
  BY <1>1, DivMod
<1> HIDE DEF x, y
<1>3. CASE q = x
  BY <1>2, <1>3 DEF x, y
<1>4. CASE q < x
  <2>1. x - q >= 1 /\ d * (x - q) >= d
    BY <1>2, <1>4
  <2>2. d * (x - q) = d * x - d * q
    BY <1>2
  <2> QED BY <1>2, <2>1, <2>2
<1>5. CASE q > x
  <2>1. q - x >= 1 /\ d * (q - x) >= d
    BY <1>2, <1>5
  <2>2. d * (q - x) = d * q - d * x
    BY <1>2
  <2> QED BY <1>2, <2>1, <2>2
<1> QED BY <1>2, <1>3, <1>4, <1>5

\* Dividing in two steps.
LEMMA TwoSteps ==
  ASSUME NEW a \in Nat, NEW d \in Nat \ {0}, NEW e \in Nat \ {0}
  PROVE  /\ a \div (d * e) = (a \div d) \div e
         /\ a % (d * e) = (a % d) + d * ((a \div d) % e)
<1> DEFINE q == a \div d
           r == a % d
           s == q \div e
           t == q % e
<1>1. /\ q \in Nat /\ r \in 0 .. d - 1 /\ a = d * q + r
      /\ s \in Nat /\ t \in 0 .. e - 1 /\ q = e * s + t
  <2>1. q \in Nat /\ r \in 0 .. d - 1 /\ a = d * q + r
    OBVIOUS
  <2> HIDE DEF q, r
  <2>2. s \in Nat /\ t \in 0 .. e - 1 /\ q = e * s + t
    BY <2>1
  <2> QED BY <2>1, <2>2
<1> HIDE DEF q, r, s, t
<1>2. a = (d * e) * s + (r + d * t)
  <2>1. d * (e * s + t) = (d * e) * s + d * t
    BY <1>1
  <2> QED BY <1>1, <2>1
<1>3. r + d * t \in 0 .. d * e - 1
  <2>1. d * t <= d * (e - 1) /\ d * t >= 0
    BY <1>1
  <2>2. d * (e - 1) = d * e - d
    OBVIOUS
  <2>3. d * t \in Int /\ d * e \in Int
    BY <1>1
  <2> QED BY <1>1, <2>1, <2>2, <2>3
<1>4. d * e \in Nat \ {0}
  OBVIOUS
<1>5. a \div (d * e) = s /\ a % (d * e) = r + d * t
  BY <1>1, <1>2, <1>3, <1>4, Unique
<1> QED BY <1>5 DEF q, r, s, t

\* The low bits of a word, one more at a time.
LEMMA NextBit ==
  ASSUME NEW w \in Nat, NEW k \in 0 .. Bits - 1
  PROVE  /\ Bit(w, k) \in {0, 1}
         /\ w % (2 ^ (k + 1)) = (w % (2 ^ k)) + Bit(w, k) * 2 ^ k
<1> DEFINE P == 2 ^ k
<1>1. P \in Nat \ {0} /\ 2 ^ (k + 1) = P * 2
  BY PowPositive, PowNext, Widths
<1> HIDE DEF P
<1>2. w % (P * 2) = (w % P) + P * ((w \div P) % 2)
  <2> DEFINE e == 2
  <2>1. e \in Nat \ {0}
    OBVIOUS
  <2> HIDE DEF e
  <2>2. w % (P * e) = (w % P) + P * ((w \div P) % e)
    BY <1>1, <2>1, TwoSteps
  <2> QED BY <2>2 DEF e
<1>3. w \div P \in Int
  BY <1>1, DivMod
<1>4. (w \div P) % 2 \in {0, 1}
  BY <1>3
<1>5. P * ((w \div P) % 2) = ((w \div P) % 2) * P
  BY <1>1, <1>4
<1> QED BY <1>1, <1>2, <1>4, <1>5 DEF Bit, P

\* What the bits below a place are worth is less than the place is.
LEMMA LowBits ==
  ASSUME NEW w \in Nat, NEW k \in 0 .. Bits
  PROVE  w % (2 ^ k) \in 0 .. (2 ^ k) - 1 /\ w % (2 ^ 0) = 0
<1> DEFINE P == 2 ^ k
<1>1. P \in Nat \ {0}
  BY PowPositive
<1>2. w % P \in 0 .. P - 1
  <2> HIDE DEF P
  <2> QED BY <1>1
<1>3. 2 ^ 0 = 1
  OBVIOUS
<1>4. w % 1 = 0
  OBVIOUS
<1> QED BY <1>2, <1>3, <1>4
-----------------------------------------------------------------------------
(* The carry chains.                                                       *)

\* The carry out of the low n bits tells whether their sum has more.
LEMMA CarryOut ==
  ASSUME NEW a \in Nat, NEW b \in Nat, NEW n \in 0 .. Bits
  PROVE  Carry(a, b, n) = IF (a % (2 ^ n)) + (b % (2 ^ n)) >= 2 ^ n THEN 1 ELSE 0
<1> DEFINE Out(i)  == IF (a % (2 ^ i)) + (b % (2 ^ i)) >= 2 ^ i THEN 1 ELSE 0
           Next(f, i) == IF i = 0 THEN 0
                         ELSE LET x == Bit(a, i - 1)
                                  y == Bit(b, i - 1)
                              IN  IF x = y THEN x ELSE f[i - 1]
           Chain(f) == f = [i \in 0 .. n |-> Next(f, i)]
           h == [i \in 0 .. n |-> Out(i)]
           c == CHOOSE f : Chain(f)
<1>1. Out(0) = 0
  <2>1. a % (2 ^ 0) = 0 /\ b % (2 ^ 0) = 0 /\ 2 ^ 0 = 1
    BY LowBits
  <2> QED BY <2>1
<1>2. ASSUME NEW k \in 0 .. n - 1
      PROVE  Out(k + 1) = IF Bit(a, k) = Bit(b, k) THEN Bit(a, k) ELSE Out(k)
  <2> DEFINE P == 2 ^ k
             u == a % (2 ^ k)
             v == b % (2 ^ k)
             x == Bit(a, k)
             y == Bit(b, k)
  <2>1. k \in 0 .. Bits - 1
    BY Widths
  <2>2. x \in {0, 1} /\ y \in {0, 1} /\ u \in 0 .. P - 1 /\ v \in 0 .. P - 1 /\ P \in Nat \ {0}
    <3>1. k \in 0 .. Bits
      BY <2>1, Widths
    <3>2. x \in {0, 1} /\ y \in {0, 1}
      BY <2>1, NextBit
    <3>3. u \in 0 .. P - 1 /\ v \in 0 .. P - 1
      BY <3>1, LowBits
    <3>4. P \in Nat \ {0}
      BY <3>1, PowPositive
    <3> QED BY <3>2, <3>3, <3>4
  <2>3. a % (2 ^ (k + 1)) = u + x * P /\ b % (2 ^ (k + 1)) = v + y * P
        /\ 2 ^ (k + 1) = 2 * P
    BY <2>1, NextBit, PowNext
  <2>4. Out(k + 1) = IF (u + x * P) + (v + y * P) >= 2 * P THEN 1 ELSE 0
    BY <2>3
  <2>5. Out(k) = IF u + v >= P THEN 1 ELSE 0
    OBVIOUS
  <2> HIDE DEF P, u, v, x, y, Out
  <2>6. (IF (u + x * P) + (v + y * P) >= 2 * P THEN 1 ELSE 0)
          = IF x = y THEN x ELSE IF u + v >= P THEN 1 ELSE 0
    <3>1. CASE x = 0 /\ y = 0
      BY <2>2, <3>1
    <3>2. CASE x = 1 /\ y = 1
      BY <2>2, <3>2
    <3>3. CASE x # y
      <4>1. (u + x * P) + (v + y * P) = u + v + P
        BY <2>2, <3>3
      <4> QED BY <2>2, <3>3, <4>1
    <3> QED BY <2>2, <3>1, <3>2, <3>3
  <2> QED BY <2>4, <2>5, <2>6 DEF x, y
<1> HIDE DEF Out
<1>3. Chain(h)
  <2>1. ASSUME NEW i \in 0 .. n PROVE Out(i) = Next(h, i)
    <3>1. CASE i = 0
      BY <1>1, <3>1
    <3>2. CASE i # 0
      <4>1. i - 1 \in 0 .. n - 1 /\ (i - 1) + 1 = i /\ h[i - 1] = Out(i - 1)
        BY <3>2
      <4>2. Out(i) = IF Bit(a, i - 1) = Bit(b, i - 1) THEN Bit(a, i - 1) ELSE Out(i - 1)
        BY <1>2, <4>1
      <4> QED BY <3>2, <4>1, <4>2
    <3> QED BY <3>1, <3>2
  <2> HIDE DEF Next
  <2> QED BY <2>1
<1>4. Chain(c)
  <2> HIDE DEF h, Chain
  <2> QED BY <1>3
<1>5. Carry(a, b, n) = c[n]
  BY DEF Carry
<1>6. n \in Nat
  BY Widths
<1>7. \A i \in 0 .. n : c[i] = h[i]
  <2>1. \A i \in 0 .. n : c[i] = Next(c, i) /\ h[i] = Out(i)
    <3> HIDE DEF Next, c
    <3> QED BY <1>4
  <2> HIDE DEF c, h
  <2>2. c[0] = h[0]
    BY <1>1, <1>6, <2>1
  <2>3. ASSUME NEW k \in 0 .. n - 1, c[k] = h[k] PROVE c[k + 1] = h[k + 1]
    <3>1. k + 1 \in 0 .. n /\ k \in 0 .. n /\ (k + 1) - 1 = k /\ k + 1 # 0
      BY <1>6
    <3>2. c[k + 1] = IF Bit(a, k) = Bit(b, k) THEN Bit(a, k) ELSE c[k]
      BY <2>1, <3>1
    <3> QED BY <1>2, <2>1, <2>3, <3>1, <3>2
  <2> QED BY <1>6, <2>2, <2>3, Agree
<1>8. c[n] = Out(n)
  <2> HIDE DEF c
  <2> QED BY <1>6, <1>7
<1> QED BY <1>5, <1>8 DEF Out

\* The carry out of the low n bits of a + ~b compares them.
LEMMA BorrowOut ==
  ASSUME NEW a \in Nat, NEW b \in Nat, NEW n \in 0 .. Bits, NEW first \in {0, 1}
  PROVE  Borrow(a, b, n, first) =
           IF (a % (2 ^ n)) + first > b % (2 ^ n) THEN 1 ELSE 0
<1> DEFINE Out(i)  == IF (a % (2 ^ i)) + first > b % (2 ^ i) THEN 1 ELSE 0
           Next(f, i) == IF i = 0 THEN first
                         ELSE LET x == Bit(a, i - 1)
                                  y == 1 - Bit(b, i - 1)
                              IN  IF x = y THEN x ELSE f[i - 1]
           Chain(f) == f = [i \in 0 .. n |-> Next(f, i)]
           h == [i \in 0 .. n |-> Out(i)]
           c == CHOOSE f : Chain(f)
<1>1. Out(0) = first
  <2>1. a % (2 ^ 0) = 0 /\ b % (2 ^ 0) = 0 /\ 2 ^ 0 = 1
    BY LowBits
  <2> QED BY <2>1
<1>2. ASSUME NEW k \in 0 .. n - 1
      PROVE  Out(k + 1) = IF Bit(a, k) = 1 - Bit(b, k) THEN Bit(a, k) ELSE Out(k)
  <2> DEFINE P == 2 ^ k
             u == a % (2 ^ k)
             v == b % (2 ^ k)
             x == Bit(a, k)
             y == 1 - Bit(b, k)
  <2>1. k \in 0 .. Bits - 1
    BY Widths
  <2>2. x \in {0, 1} /\ y \in {0, 1} /\ u \in 0 .. P - 1 /\ v \in 0 .. P - 1 /\ P \in Nat \ {0}
    <3>1. k \in 0 .. Bits
      BY <2>1, Widths
    <3>2. x \in {0, 1} /\ y \in {0, 1}
      BY <2>1, NextBit
    <3>3. u \in 0 .. P - 1 /\ v \in 0 .. P - 1
      BY <3>1, LowBits
    <3>4. P \in Nat \ {0}
      BY <3>1, PowPositive
    <3> QED BY <3>2, <3>3, <3>4
  <2>3. a % (2 ^ (k + 1)) = u + x * P /\ b % (2 ^ (k + 1)) = v + (1 - y) * P
        /\ 2 ^ (k + 1) = 2 * P
    BY <2>1, NextBit, PowNext
  <2>4. Out(k + 1) = IF (u + x * P) + first > v + (1 - y) * P THEN 1 ELSE 0
    BY <2>3
  <2>5. Out(k) = IF u + first > v THEN 1 ELSE 0
    OBVIOUS
  <2> HIDE DEF P, u, v, x, y, Out
  <2>6. (IF (u + x * P) + first > v + (1 - y) * P THEN 1 ELSE 0)
          = IF x = y THEN x ELSE IF u + first > v THEN 1 ELSE 0
    <3>1. CASE x = 0 /\ y = 0
      BY <2>2, <3>1
    <3>2. CASE x = 1 /\ y = 1
      BY <2>2, <3>2
    <3>3. CASE x # y
      <4>1. 1 - y = x /\ x * P \in Int
        BY <2>2, <3>3
      <4> QED BY <2>2, <3>3, <4>1
    <3> QED BY <2>2, <3>1, <3>2, <3>3
  <2> QED BY <2>4, <2>5, <2>6 DEF x, y
<1> HIDE DEF Out
<1>3. Chain(h)
  <2>1. ASSUME NEW i \in 0 .. n PROVE Out(i) = Next(h, i)
    <3>1. CASE i = 0
      BY <1>1, <3>1
    <3>2. CASE i # 0
      <4>1. i - 1 \in 0 .. n - 1 /\ (i - 1) + 1 = i /\ h[i - 1] = Out(i - 1)
        BY <3>2
      <4>2. Out(i) = IF Bit(a, i - 1) = 1 - Bit(b, i - 1) THEN Bit(a, i - 1) ELSE Out(i - 1)
        BY <1>2, <4>1
      <4> QED BY <3>2, <4>1, <4>2
    <3> QED BY <3>1, <3>2
  <2> HIDE DEF Next
  <2> QED BY <2>1
<1>4. Chain(c)
  <2> HIDE DEF h, Chain
  <2> QED BY <1>3
<1>5. Borrow(a, b, n, first) = c[n]
  BY DEF Borrow
<1>6. n \in Nat
  BY Widths
<1>7. \A i \in 0 .. n : c[i] = h[i]
  <2>1. \A i \in 0 .. n : c[i] = Next(c, i) /\ h[i] = Out(i)
    <3> HIDE DEF Next, c
    <3> QED BY <1>4
  <2> HIDE DEF c, h
  <2>2. c[0] = h[0]
    BY <1>1, <1>6, <2>1
  <2>3. ASSUME NEW k \in 0 .. n - 1, c[k] = h[k] PROVE c[k + 1] = h[k + 1]
    <3>1. k + 1 \in 0 .. n /\ k \in 0 .. n /\ (k + 1) - 1 = k /\ k + 1 # 0
      BY <1>6
    <3>2. c[k + 1] = IF Bit(a, k) = 1 - Bit(b, k) THEN Bit(a, k) ELSE c[k]
      BY <2>1, <3>1
    <3> QED BY <1>2, <2>1, <2>3, <3>1, <3>2
  <2> QED BY <1>6, <2>2, <2>3, Agree
<1>8. c[n] = Out(n)
  <2> HIDE DEF c
  <2> QED BY <1>6, <1>7
<1> QED BY <1>5, <1>8 DEF Out
-----------------------------------------------------------------------------
(* Bits in common.                                                         *)

\* Whatever goes up as the sums of And do is And.
LEMMA AndIs ==
  ASSUME NEW a, NEW b, NEW h \in [0 .. Bits -> Int], h[0] = 0,
         \A k \in 0 .. Bits - 1 : h[k + 1] = h[k] + Bit(a, k) * Bit(b, k) * 2 ^ k
  PROVE  And(a, b) = h[Bits]
<1> DEFINE Next(f, k) == IF k = 0 THEN 0
                         ELSE f[k - 1] + Bit(a, k - 1) * Bit(b, k - 1) * 2 ^ (k - 1)
           Chain(f) == f = [k \in 0 .. Bits |-> Next(f, k)]
           c == CHOOSE f : Chain(f)
<1>1. Chain(h)
  <2>1. ASSUME NEW k \in 0 .. Bits PROVE h[k] = Next(h, k)
    <3>1. CASE k = 0
      BY <3>1
    <3>2. CASE k # 0
      <4>1. k - 1 \in 0 .. Bits - 1 /\ (k - 1) + 1 = k
        BY <3>2, Widths
      <4> QED BY <3>2, <4>1
    <3> QED BY <3>1, <3>2
  <2> HIDE DEF Next
  <2> QED BY <2>1
<1>2. Chain(c)
  <2> HIDE DEF Chain
  <2> QED BY <1>1
<1>3. And(a, b) = c[Bits]
  BY DEF And
<1>4. \A k \in 0 .. Bits : c[k] = h[k]
  <2>1. \A k \in 0 .. Bits : c[k] = Next(c, k)
    <3> HIDE DEF Next, c
    <3> QED BY <1>2
  <2> HIDE DEF c
  <2>2. c[0] = h[0]
    <3>1. 0 \in 0 .. Bits
      BY Widths
    <3>2. c[0] = Next(c, 0)
      BY <2>1, <3>1
    <3> QED BY <3>2
  <2>3. ASSUME NEW k \in 0 .. Bits - 1, c[k] = h[k] PROVE c[k + 1] = h[k + 1]
    <3>1. k + 1 \in 0 .. Bits /\ (k + 1) - 1 = k /\ k + 1 # 0
      BY Widths
    <3>2. c[k + 1] = c[k] + Bit(a, k) * Bit(b, k) * 2 ^ k
      BY <2>1, <3>1
    <3> QED BY <2>3, <3>2
  <2>4. Bits \in Nat
    BY Widths
  <2> QED BY <2>2, <2>3, <2>4, Agree, ZenonT(30)
<1> HIDE DEF c
<1>5. Bits \in 0 .. Bits
  BY Widths
<1> QED BY <1>3, <1>4, <1>5

\* And is no more than either number, and what both have does not count twice.
LEMMA AndBounds ==
  ASSUME NEW a \in Nat, NEW b \in Nat, a < 2 ^ Bits, b < 2 ^ Bits
  PROVE  And(a, b) \in Nat /\ And(a, b) <= a /\ And(a, b) <= b
         /\ (a + b) - And(a, b) < 2 ^ Bits
<1> DEFINE Good(v, k) ==
             v \in Nat /\ v <= a % (2 ^ k) /\ v <= b % (2 ^ k)
             /\ (a % (2 ^ k)) + (b % (2 ^ k)) - v < 2 ^ k
           Up(h, n) == /\ h \in [0 .. n -> Nat] /\ h[0] = 0
                       /\ \A k \in 0 .. n : Good(h[k], k)
                       /\ \A k \in 0 .. n - 1 :
                            h[k + 1] = h[k] + Bit(a, k) * Bit(b, k) * 2 ^ k
           T == {n \in 0 .. Bits : \E h : Up(h, n)}
<1>1. Good(0, 0)
  <2>1. a % (2 ^ 0) = 0 /\ b % (2 ^ 0) = 0 /\ 2 ^ 0 = 1
    BY LowBits, Widths
  <2> QED BY <2>1
<1>2. ASSUME NEW k \in 0 .. Bits - 1, NEW v, Good(v, k)
      PROVE  Good(v + Bit(a, k) * Bit(b, k) * 2 ^ k, k + 1)
  <2> DEFINE P == 2 ^ k
             x == Bit(a, k)
             y == Bit(b, k)
             s == a % (2 ^ k)
             t == b % (2 ^ k)
  <2>1. x \in {0, 1} /\ y \in {0, 1}
    BY NextBit
  <2>2. P \in Nat \ {0} /\ s \in Nat /\ t \in Nat
    <3>1. k \in 0 .. Bits
      BY Widths
    <3> HIDE DEF P
    <3>2. P \in Nat \ {0}
      BY <3>1, PowPositive DEF P
    <3> QED BY <3>2 DEF P
  <2>3. a % (2 ^ (k + 1)) = s + x * P /\ b % (2 ^ (k + 1)) = t + y * P
        /\ 2 ^ (k + 1) = 2 * P
    BY NextBit, PowNext
  <2>4. v \in Nat /\ v <= s /\ v <= t /\ s + t - v < P
    BY <1>2
  <2> HIDE DEF P, x, y, s, t
  <2>5. v + x * y * P \in Nat /\ v + x * y * P <= s + x * P /\ v + x * y * P <= t + y * P
        /\ (s + x * P) + (t + y * P) - (v + x * y * P) < 2 * P
    <3>1. CASE x = 0 /\ y = 0
      BY <2>2, <2>4, <3>1
    <3>2. CASE x = 1 /\ y = 1
      BY <2>2, <2>4, <3>2
    <3>3. CASE x = 1 /\ y = 0
      BY <2>2, <2>4, <3>3
    <3>4. CASE x = 0 /\ y = 1
      BY <2>2, <2>4, <3>4
    <3> QED BY <2>1, <3>1, <3>2, <3>3, <3>4
  <2> QED BY <2>3, <2>5 DEF x, y, P
<1> HIDE DEF Good
<1>3. 0 \in T
  <2>1. Up([k \in 0 .. 0 |-> 0], 0)
    BY <1>1
  <2> HIDE DEF Up
  <2> QED BY <2>1, Widths
<1>4. ASSUME NEW n \in 0 .. Bits - 1, n \in T PROVE n + 1 \in T
  <2>1. PICK h : Up(h, n)
    BY <1>4
  <2> DEFINE g == [k \in 0 .. n + 1 |->
                     IF k = n + 1 THEN h[n] + Bit(a, n) * Bit(b, n) * 2 ^ n ELSE h[k]]
  <2>2. n \in Nat /\ n + 1 \in 0 .. Bits
    BY Widths
  <2>3. \A k \in 0 .. n : g[k] = h[k]
    BY <2>2
  <2>4. g[n + 1] = h[n] + Bit(a, n) * Bit(b, n) * 2 ^ n
    BY <2>2
  <2>5. g \in [0 .. n + 1 -> Nat]
    <3>1. h[n] + Bit(a, n) * Bit(b, n) * 2 ^ n \in Nat
      BY <1>2, <2>1, <2>2 DEF Good
    <3>2. \A k \in 0 .. n : h[k] \in Nat
      BY <2>1
    <3> QED BY <2>2, <3>1, <3>2
  <2> HIDE DEF g
  <2>6. g[0] = 0
    BY <2>1, <2>2, <2>3
  <2>7. \A k \in 0 .. n + 1 : Good(g[k], k)
    <3>1. \A k \in 0 .. n : Good(g[k], k)
      BY <2>1, <2>3
    <3>2. Good(g[n + 1], n + 1)
      BY <1>2, <2>1, <2>2, <2>4
    <3> QED BY <2>2, <3>1, <3>2
  <2>8. \A k \in 0 .. (n + 1) - 1 : g[k + 1] = g[k] + Bit(a, k) * Bit(b, k) * 2 ^ k
    <3> TAKE k \in 0 .. (n + 1) - 1
    <3>1. CASE k = n
      BY <2>2, <2>3, <2>4, <3>1
    <3>2. CASE k # n
      <4>1. k \in 0 .. n - 1 /\ k + 1 \in 0 .. n /\ k \in 0 .. n
        BY <2>2, <3>2
      <4> QED BY <2>1, <2>3, <4>1
    <3> QED BY <3>1, <3>2
  <2> QED BY <2>2, <2>5, <2>6, <2>7, <2>8
<1> HIDE DEF Up
<1>5. Bits \in T
  <2> HIDE DEF T
  <2> QED BY <1>3, <1>4, UpTo, Widths
<1>6. PICK h : Up(h, Bits)
  BY <1>5
<1>7. And(a, b) = h[Bits]
  <2>1. /\ h \in [0 .. Bits -> Int] /\ h[0] = 0
        /\ \A k \in 0 .. Bits - 1 : h[k + 1] = h[k] + Bit(a, k) * Bit(b, k) * 2 ^ k
    BY <1>6 DEF Up
  <2> QED BY <2>1, AndIs
<1>8. Good(h[Bits], Bits)
  BY <1>6, Widths DEF Up
<1>9. a % (2 ^ Bits) = a /\ b % (2 ^ Bits) = b
  <2> DEFINE P == 2 ^ Bits
  <2>1. P \in Nat \ {0}
    BY PowPositive, Widths
  <2> HIDE DEF P
  <2>2. a < P /\ b < P
    BY DEF P
  <2>3. a % P = a /\ b % P = b
    BY <2>1, <2>2
  <2> QED BY <2>3 DEF P
<1> QED BY <1>7, <1>8, <1>9 DEF Good

\* Powers in the order of their exponents, and which of them are even.
LEMMA PowOrder ==
  ASSUME NEW j \in 0 .. Bits, NEW k \in 0 .. Bits, j <= k
  PROVE  /\ 2 ^ (k - j) \in Nat \ {0}
         /\ 2 ^ k = 2 ^ j * 2 ^ (k - j) /\ 2 ^ j <= 2 ^ k
         /\ j < k => 2 ^ (k - j) = 2 * 2 ^ (k - j - 1) /\ 2 ^ (k - j - 1) \in Nat \ {0}
<1>1. k - j \in 0 .. Bits - j /\ k - j \in 0 .. Bits /\ j + (k - j) = k
  BY Widths
<1>2. 2 ^ j \in Nat \ {0} /\ 2 ^ (k - j) \in Nat \ {0}
  BY <1>1, PowPositive
<1>3. 2 ^ k = 2 ^ j * 2 ^ (k - j)
  BY <1>1, PowSum
<1>4. 2 ^ j <= 2 ^ k
  <2> DEFINE P == 2 ^ j
             Q == 2 ^ (k - j)
             R == 2 ^ k
  <2>1. P \in Nat \ {0} /\ Q \in Nat \ {0} /\ R = P * Q
    BY <1>2, <1>3
  <2> HIDE DEF P, Q, R
  <2>2. P * Q >= P
    BY <2>1
  <2>3. P <= R
    BY <2>1, <2>2
  <2> QED BY <2>3 DEF P, R
<1>5. ASSUME j < k
      PROVE  2 ^ (k - j) = 2 * 2 ^ (k - j - 1) /\ 2 ^ (k - j - 1) \in Nat \ {0}
  <2>1. k - j - 1 \in 0 .. Bits - 1 /\ (k - j - 1) + 1 = k - j /\ k - j - 1 \in 0 .. Bits
    BY <1>5, Widths
  <2> QED BY <2>1, PowNext, PowPositive
<1> QED BY <1>2, <1>3, <1>4, <1>5

\* A power of two is the product of a lower one and an even number, or twice it.
LEMMA Halves ==
  ASSUME NEW j \in 0 .. Bits, NEW k \in 0 .. Bits, j < k
  PROVE  2 ^ k = 2 ^ j * (2 * 2 ^ (k - j - 1)) /\ 2 ^ (k - j - 1) \in Nat
BY PowOrder

\* The mask of the bits below lo and from hi on.
Keep(lo, hi) == (2 ^ lo - 1) + (2 ^ Bits - 2 ^ hi)

\* Its bits.
LEMMA KeepBits ==
  ASSUME NEW lo \in 0 .. Bits, NEW hi \in 0 .. Bits, lo <= hi, NEW k \in 0 .. Bits - 1
  PROVE  Bit(Keep(lo, hi), k) = IF k < lo \/ k >= hi THEN 1 ELSE 0
<1> DEFINE P == 2 ^ k
           m == Keep(lo, hi)
<1>1. k \in 0 .. Bits /\ Bits \in 0 .. Bits /\ k < Bits /\ Bits \in Nat
  BY Widths
<1>2. P \in Nat \ {0}
  BY <1>1, PowPositive
<1>3. \A q \in Int, r \in 0 .. P - 1 : m = P * q + r => m \div P = q
  <2> HIDE DEF P, m
  <2> QED BY <1>2, Unique
<1>4. CASE k < lo
  <2> DEFINE L == 2 ^ (lo - k - 1)
             H == 2 ^ (hi - k - 1)
             B == 2 ^ (Bits - k - 1)
             q == 2 * (L + B - H) - 1
  <2>1. 2 ^ lo = P * (2 * L) /\ L \in Nat
    BY <1>1, <1>4, Halves
  <2>2. 2 ^ hi = P * (2 * H) /\ H \in Nat
    BY <1>1, <1>4, Halves
  <2>3. 2 ^ Bits = P * (2 * B) /\ B \in Nat
    BY <1>1, <1>4, Halves
  <2>4. m = (P * (2 * L) - 1) + (P * (2 * B) - P * (2 * H))
    BY <2>1, <2>2, <2>3 DEF Keep
  <2> HIDE DEF P, m, L, H, B
  <2>5. m = P * q + (P - 1)
    BY <1>2, <2>1, <2>2, <2>3, <2>4
  <2>6. m \div P = q
    BY <1>2, <1>3, <2>1, <2>2, <2>3, <2>5
  <2>7. q % 2 = 1
    BY <2>1, <2>2, <2>3
  <2> QED BY <1>4, <2>6, <2>7 DEF Bit, P, m
<1>5. CASE lo <= k /\ k < hi
  <2> DEFINE L == 2 ^ lo
             H == 2 ^ (hi - k - 1)
             B == 2 ^ (Bits - k - 1)
             q == 2 * (B - H)
  <2>1. L \in Nat \ {0} /\ L <= P
    BY <1>1, <1>5, PowOrder, PowPositive
  <2>2. 2 ^ hi = P * (2 * H) /\ H \in Nat
    BY <1>1, <1>5, Halves
  <2>3. 2 ^ Bits = P * (2 * B) /\ B \in Nat
    BY <1>1, <1>5, Halves
  <2>4. m = (L - 1) + (P * (2 * B) - P * (2 * H))
    BY <2>1, <2>2, <2>3 DEF Keep
  <2> HIDE DEF P, m, L, H, B
  <2>5. m = P * q + (L - 1)
    BY <1>2, <2>1, <2>2, <2>3, <2>4
  <2>6. m \div P = q
    BY <1>2, <1>3, <2>1, <2>2, <2>3, <2>5
  <2>7. q % 2 = 0
    BY <2>1, <2>2, <2>3
  <2> QED BY <1>5, <2>6, <2>7 DEF Bit, P, m
<1>6. CASE k >= hi
  <2> DEFINE L == 2 ^ lo
             H == 2 ^ hi
             B == 2 ^ (Bits - k - 1)
             q == 2 * B - 1
  <2>1. L \in Nat \ {0} /\ L <= H /\ H <= P
    BY <1>1, <1>6, PowOrder, PowPositive
  <2>2. H \in Nat \ {0}
    BY PowPositive
  <2>3. 2 ^ Bits = P * (2 * B) /\ B \in Nat
    BY <1>1, <1>6, Halves
  <2>4. m = (L - 1) + (P * (2 * B) - H)
    BY <2>1, <2>2, <2>3 DEF Keep
  <2> HIDE DEF P, m, L, H, B
  <2>5. m = P * q + ((P - H) + (L - 1))
    BY <1>2, <2>1, <2>2, <2>3, <2>4
  <2>6. m \div P = q
    BY <1>2, <1>3, <2>1, <2>2, <2>3, <2>5
  <2>7. q % 2 = 1
    BY <2>1, <2>2, <2>3
  <2> QED BY <1>6, <2>6, <2>7 DEF Bit, P, m
<1> QED BY <1>4, <1>5, <1>6, Widths

\* A mask keeps the bits below lo and from hi up.
LEMMA Masked ==
  ASSUME NEW w \in Nat, w < 2 ^ Bits,
         NEW lo \in 0 .. Bits, NEW hi \in 0 .. Bits, lo <= hi
  PROVE  And(w, Keep(lo, hi)) = (w % (2 ^ lo)) + (w - (w % (2 ^ hi)))
<1> DEFINE m == Keep(lo, hi)
           low(k) == w % (2 ^ k)
           h == [k \in 0 .. Bits |->
                   IF k <= lo THEN low(k) ELSE IF k <= hi THEN low(lo)
                   ELSE low(lo) + (low(k) - low(hi))]
<1>1. \A k \in 0 .. Bits : low(k) \in Nat
  BY LowBits, PowPositive
<1>2. low(0) = 0
  BY LowBits, Widths
<1>3. \A k \in 0 .. Bits - 1 : Bit(w, k) \in {0, 1} /\ low(k + 1) = low(k) + Bit(w, k) * 2 ^ k
  BY NextBit
<1>4. \A k \in 0 .. Bits - 1 : Bit(m, k) = IF k < lo \/ k >= hi THEN 1 ELSE 0
  BY KeepBits
<1>5. low(Bits) = w
  <2> DEFINE P == 2 ^ Bits
  <2>1. P \in Nat \ {0} /\ w < P
    BY PowPositive, Widths
  <2> HIDE DEF P
  <2>2. w % P = w
    BY <2>1
  <2> QED BY <2>2 DEF P
<1> HIDE DEF low, m
<1>6. h \in [0 .. Bits -> Int] /\ h[0] = 0
  BY <1>1, <1>2, Widths
<1>7. ASSUME NEW k \in 0 .. Bits - 1
      PROVE  h[k + 1] = h[k] + Bit(w, k) * Bit(m, k) * 2 ^ k
  <2> DEFINE P == 2 ^ k
  <2>1. k \in 0 .. Bits /\ k + 1 \in 0 .. Bits /\ k \in Nat
    BY Widths
  <2>2. P \in Nat
    BY <2>1, PowPositive
  <2>3. low(k + 1) = low(k) + Bit(w, k) * P /\ Bit(w, k) \in {0, 1}
    BY <1>3
  <2>4. Bit(m, k) = IF k < lo \/ k >= hi THEN 1 ELSE 0
    BY <1>4
  <2>5. low(k) \in Nat /\ low(k + 1) \in Nat /\ low(lo) \in Nat /\ low(hi) \in Nat
    BY <1>1, <2>1
  <2> HIDE DEF P
  <2>6. CASE k < lo
    <3>1. h[k] = low(k) /\ h[k + 1] = low(k + 1)
      BY <2>1, <2>6
    <3> HIDE DEF h
    <3>2. Bit(w, k) * Bit(m, k) * P = Bit(w, k) * P
      BY <2>2, <2>3, <2>4, <2>6
    <3> QED BY <2>3, <3>1, <3>2 DEF P
  <2>7. CASE k >= lo /\ k < hi
    <3>1. h[k] = low(lo) /\ h[k + 1] = low(lo)
      BY <2>1, <2>7
    <3> HIDE DEF h
    <3>2. Bit(w, k) * Bit(m, k) * P = 0
      BY <2>2, <2>3, <2>4, <2>7
    <3> QED BY <2>5, <3>1, <3>2 DEF P
  <2>8. CASE k >= hi
    <3>1. h[k] = low(lo) + (low(k) - low(hi)) /\ h[k + 1] = low(lo) + (low(k + 1) - low(hi))
      BY <2>1, <2>5, <2>8
    <3> HIDE DEF h
    <3>2. Bit(w, k) * Bit(m, k) * P = Bit(w, k) * P /\ Bit(w, k) * P \in Int
      BY <2>2, <2>3, <2>4, <2>8
    <3>3. h[k + 1] = h[k] + Bit(w, k) * P
      BY <2>3, <2>5, <3>1, <3>2
    <3> QED BY <3>2, <3>3 DEF P
  <2> QED BY <2>1, <2>6, <2>7, <2>8
<1>8. And(w, m) = h[Bits]
  <2> HIDE DEF h
  <2> QED BY <1>6, <1>7, AndIs
<1>9. h[Bits] = low(lo) + (w - low(hi))
  <2>1. Bits \in 0 .. Bits
    BY Widths
  <2>2. low(lo) \in Nat /\ low(hi) \in Nat /\ low(Bits) = w
    BY <1>1, <1>5
  <2> QED BY <2>1, <2>2
<1> QED BY <1>8, <1>9 DEF low, m
-----------------------------------------------------------------------------
(* Bytes and half-words.                                                   *)

\* Bytes, half-words and words as powers of two and of each other.
LEMMA Sizes ==
  /\ ByteSize \in Nat \ {0} /\ ByteSize = 2 * 2 ^ (ByteBits - 1)
  /\ 2 ^ (ByteBits - 1) \in Nat \ {0}
  /\ ByteSize = 2 ^ ByteBits
  /\ HalfSize = ByteSize * ByteSize /\ HalfSize = 2 ^ (2 * ByteBits)
  /\ WordSize = HalfSize * HalfSize /\ WordSize = 2 ^ Bits
  /\ ByteSize ^ 0 = 1 /\ ByteSize ^ 1 = ByteSize
  /\ ByteSize ^ 3 = ByteSize * HalfSize /\ ByteSize ^ 3 = 2 ^ (3 * ByteBits)
  /\ WordSize = ByteSize * ByteSize ^ 3
<1>1. /\ ByteBits \in 0 .. Bits /\ ByteBits \in 0 .. Bits - ByteBits
      /\ 2 * ByteBits \in 0 .. Bits /\ 2 * ByteBits \in 0 .. Bits - 2 * ByteBits
      /\ 2 * ByteBits \in 0 .. Bits - ByteBits /\ ByteBits - 1 \in 0 .. Bits - 1
      /\ ByteBits + ByteBits = 2 * ByteBits /\ ByteBits + 2 * ByteBits = 3 * ByteBits
      /\ 2 * ByteBits + 2 * ByteBits = Bits /\ (ByteBits - 1) + 1 = ByteBits
      /\ ByteBits - 1 \in 0 .. Bits
  BY Widths
<1> DEFINE B == ByteSize
           P1 == 2 ^ ByteBits
           P2 == 2 ^ (2 * ByteBits)
           P3 == 2 ^ (3 * ByteBits)
           P4 == 2 ^ Bits
<1>2. P1 \in Nat \ {0} /\ P2 = P1 * P1 /\ P3 = P1 * P2 /\ P4 = P2 * P2
  BY <1>1, PowPositive, PowSum, ZenonT(30)
<1>3. P1 = 2 * 2 ^ (ByteBits - 1) /\ 2 ^ (ByteBits - 1) \in Nat \ {0}
  BY <1>1, PowNext, PowPositive
<1>4. B = P1
  BY DEF ByteSize
<1>5. B ^ 1 = B * B ^ 0 /\ B ^ 2 = B * B ^ 1 /\ B ^ 3 = B * B ^ 2 /\ B ^ 4 = B * B ^ 3
  <2>1. \A k \in 0 .. 3 : B ^ (k + 1) = B * B ^ k
    BY PowerAssumption
  <2> HIDE DEF B
  <2>2. 0 \in 0 .. 3 /\ 1 \in 0 .. 3 /\ 2 \in 0 .. 3 /\ 3 \in 0 .. 3
        /\ 0 + 1 = 1 /\ 1 + 1 = 2 /\ 2 + 1 = 3 /\ 3 + 1 = 4
    OBVIOUS
  <2> QED BY <2>1, <2>2
<1>6. B ^ 0 = 1
  BY PowerAssumption
<1>7. HalfSize = B ^ 2 /\ WordSize = B ^ 4
  BY DEF HalfSize, WordSize
<1> HIDE DEF B, P1, P2, P3, P4
<1>8. HalfSize = B * B
  <2>1. B ^ 1 = B
    BY <1>2, <1>4, <1>5, <1>6
  <2> QED BY <1>5, <1>7, <2>1
<1>9. B ^ 3 = B * HalfSize /\ WordSize = B * (B * HalfSize)
  BY <1>5, <1>7
<1>10. B * (B * HalfSize) = HalfSize * HalfSize
  BY <1>2, <1>4, <1>8
<1>11. B ^ 1 = B
  BY <1>2, <1>4, <1>5, <1>6
<1>12. HalfSize = P2 /\ B ^ 3 = P3 /\ WordSize = P4
  BY <1>2, <1>4, <1>8, <1>9, <1>10
<1> QED BY <1>2, <1>3, <1>4, <1>6, <1>8, <1>9, <1>10, <1>11, <1>12 DEF B, P1, P2, P3, P4

\* The places of the bytes: byte k has lo bits to its right.
LEMMA BytePlace ==
  ASSUME NEW k \in 0 .. 3
  PROVE  LET lo == 3 * ByteBits - ByteBits * k
         IN  /\ lo \in 0 .. Bits /\ lo + ByteBits \in 0 .. Bits
             /\ 2 ^ lo = ByteSize ^ (3 - k) /\ 2 ^ lo \in Nat \ {0}
             /\ 2 ^ (lo + ByteBits) = 2 ^ lo * ByteSize
             /\ \A w \in Word : w \div 2 ^ lo \in Word
<1> DEFINE lo == 3 * ByteBits - ByteBits * k
<1>1. lo \in 0 .. Bits /\ lo + ByteBits \in 0 .. Bits /\ ByteBits \in 0 .. Bits - lo
  <2>1. CASE k = 0
    BY <2>1, Widths
  <2>2. CASE k = 1
    BY <2>2, Widths
  <2>3. CASE k = 2
    BY <2>3, Widths
  <2>4. CASE k = 3
    BY <2>4, Widths
  <2> QED BY <2>1, <2>2, <2>3, <2>4
<1>2. 2 ^ lo = ByteSize ^ (3 - k)
  <2>1. CASE k = 0
    <3>1. lo = 3 * ByteBits /\ 3 - k = 3
      BY <2>1, Widths
    <3> HIDE DEF lo
    <3> QED BY <3>1, Sizes
  <2>2. CASE k = 1
    <3>1. lo = 2 * ByteBits /\ 3 - k = 2
      BY <2>2, Widths
    <3> HIDE DEF lo
    <3> QED BY <3>1, Sizes DEF HalfSize
  <2>3. CASE k = 2
    <3>1. lo = ByteBits /\ 3 - k = 1
      BY <2>3, Widths
    <3> HIDE DEF lo
    <3> QED BY <3>1, Sizes
  <2>4. CASE k = 3
    <3>1. lo = 0 /\ 3 - k = 0
      BY <2>4, Widths
    <3> HIDE DEF lo
    <3> QED BY <3>1, Sizes
  <2> QED BY <2>1, <2>2, <2>3, <2>4
<1> HIDE DEF lo
<1>3. 2 ^ lo \in Nat \ {0}
  BY <1>1, PowPositive
<1>4. 2 ^ (lo + ByteBits) = 2 ^ lo * ByteSize
  BY <1>1, PowSum, Sizes
<1>5. ASSUME NEW w \in Word PROVE w \div 2 ^ lo \in Word
  <2> DEFINE P == 2 ^ lo
  <2>1. P \in Nat \ {0} /\ w \in 0 .. WordSize - 1 /\ WordSize \in Nat
    BY <1>3, Sizes DEF Word
  <2> HIDE DEF P
  <2>2. w \div P \in Nat /\ w \div P <= w
    BY <2>1
  <2> QED BY <2>1, <2>2 DEF Word, P
<1> QED BY <1>1, <1>2, <1>3, <1>4, <1>5 DEF lo

\* Masks of the low bits.
LEMMA MaskLow ==
  ASSUME NEW w \in Word, NEW n \in 0 .. Bits
  PROVE  And(w, Mask(n)) = w % (2 ^ n)
<1>1. Mask(n) = Keep(n, Bits)
  <2>1. 2 ^ n \in Nat /\ 2 ^ Bits \in Nat
    BY PowPositive, Widths
  <2> QED BY <2>1 DEF Mask, Keep
<1>2. w \in Nat /\ w < 2 ^ Bits
  BY Sizes DEF Word
<1>3. And(w, Keep(n, Bits)) = (w % (2 ^ n)) + (w - (w % (2 ^ Bits)))
  <2>1. Bits \in 0 .. Bits /\ n <= Bits
    BY Widths
  <2> QED BY <1>2, <2>1, Masked
<1>4. w % (2 ^ Bits) = w
  <2> DEFINE P == 2 ^ Bits
  <2>1. P \in Nat \ {0} /\ w < P /\ w \in Nat
    BY <1>2, PowPositive, Widths
  <2> HIDE DEF P
  <2>2. w % P = w
    BY <2>1
  <2> QED BY <2>2 DEF P
<1>5. w % (2 ^ n) \in Nat
  BY <1>2, LowBits, PowPositive
<1> QED BY <1>1, <1>2, <1>3, <1>4, <1>5

\* The n low bits of a word, filled up with zeros and with their highest bit.
LEMMA Fill ==
  ASSUME NEW x \in Word, NEW n \in 1 .. Bits
  PROVE  LET low == And(x, Mask(n))
             signed == low + (IF Bit(x, n - 1) = 1 THEN HighMask(n) ELSE 0)
         IN  /\ low = x % (2 ^ n) /\ low \in Word
             /\ signed = Extend(x % (2 ^ n), 2 ^ n) /\ signed \in Word
<1> DEFINE S == 2 ^ n
           h == 2 ^ (n - 1)
           y == Bit(x, n - 1)
           W == WordSize
           v == x % S
<1>1. n \in 0 .. Bits /\ n - 1 \in 0 .. Bits - 1 /\ (n - 1) + 1 = n /\ n - 1 \in 0 .. Bits
  BY Widths
<1>2. h \in Nat \ {0} /\ S = 2 * h
  BY <1>1, PowNext, PowPositive
<1>3. S <= W /\ W \in Nat
  <2>1. Bits \in 0 .. Bits /\ n <= Bits
    BY Widths
  <2> QED BY <1>1, <2>1, PowOrder, PowPositive, Sizes
<1>4. x \in Nat
  BY Sizes DEF Word
<1>5. v = (x % h) + y * h /\ y \in {0, 1}
  BY <1>1, <1>4, NextBit
<1>6. And(x, Mask(n)) = v
  BY <1>1, MaskLow
<1>7. HighMask(n) = W - S
  BY DEF HighMask
<1> HIDE DEF S, h, y, W, v
<1>8. x % h \in 0 .. h - 1
  BY <1>2, <1>4
<1>9. (y = 1 <=> v >= h) /\ v \in 0 .. S - 1
  <2>1. CASE y = 0
    BY <1>2, <1>5, <1>8, <2>1
  <2>2. CASE y = 1
    BY <1>2, <1>5, <1>8, <2>2
  <2> QED BY <1>5, <2>1, <2>2
<1>10. S \div 2 = h
  BY <1>2
<1>11. Extend(v, S) = v + (IF y = 1 THEN W - S ELSE 0)
  BY <1>2, <1>3, <1>9, <1>10 DEF Extend, W
<1>12. v \in Word /\ v + (IF y = 1 THEN W - S ELSE 0) \in Word
  BY <1>2, <1>3, <1>9 DEF Word, W
<1> QED BY <1>6, <1>7, <1>11, <1>12 DEF S, y, v

\* exec_lb .. exec_lhu take the bytes that the load names.
LEMMA LoadsAgree ==
  ASSUME NEW op \in Loads, NEW w \in Word, NEW a \in Nat, a % (Further(op) + 1) = 0
  PROVE  ExecLoad(op, w, a) = Loaded(op, w, a % 4) /\ ExecLoad(op, w, a) \in Word
<1> DEFINE k == a % 4
<1>1. k \in 0 .. 3
  OBVIOUS
<1>2. CASE op = "LW"
  BY <1>2 DEF ExecLoad, Loaded
<1>3. CASE op \in {"LB", "LBU"}
  <2> DEFINE x == ByteDown(w, a)
  <2>1. x = w \div ByteSize ^ (3 - k) /\ x \in Word
    BY <1>1, BytePlace DEF ByteDown
  <2>2. ByteBits \in 1 .. Bits /\ ByteSize = 2 ^ ByteBits
    BY Widths, Sizes
  <2>3. ByteAt(w, k) = x % ByteSize
    BY <2>1 DEF ByteAt
  <2>4. ExecLoad(op, w, a) =
          IF op = "LBU" THEN And(x, Mask(ByteBits))
          ELSE And(x, Mask(ByteBits))
                 + (IF Bit(x, ByteBits - 1) = 1 THEN HighMask(ByteBits) ELSE 0)
    BY <1>3 DEF ExecLoad
  <2>5. Loaded(op, w, k) = IF op = "LBU" THEN ByteAt(w, k) ELSE Extend(ByteAt(w, k), ByteSize)
    BY <1>3 DEF Loaded
  <2> HIDE DEF x, k
  <2>6. /\ And(x, Mask(ByteBits)) = x % ByteSize /\ And(x, Mask(ByteBits)) \in Word
        /\ And(x, Mask(ByteBits)) + (IF Bit(x, ByteBits - 1) = 1 THEN HighMask(ByteBits) ELSE 0)
             = Extend(x % ByteSize, ByteSize)
        /\ And(x, Mask(ByteBits)) + (IF Bit(x, ByteBits - 1) = 1 THEN HighMask(ByteBits) ELSE 0)
             \in Word
    BY <2>1, <2>2, Fill
  <2> QED BY <2>3, <2>4, <2>5, <2>6 DEF k
<1>4. CASE op \in {"LH", "LHU"}
  <2> DEFINE x == HalfDown(w, a)
             n == 2 * ByteBits
  <2>1. k \in {0, 2}
    <3>1. a % 2 = 0
      BY <1>4 DEF Further
    <3> QED BY <3>1
  <2>2. n \in 1 .. Bits /\ HalfSize = 2 ^ n
    BY Widths, Sizes
  <2>3. x = w \div ByteSize ^ (2 - k) /\ x \in Word
    <3>1. CASE k = 0
      <4>1. 2 * ByteBits - ByteBits * k = n /\ 2 - k = 2
        BY <3>1, Widths
      <4>2. n = 3 * ByteBits - ByteBits * 1 /\ 3 - 1 = 2
        BY Widths
      <4>3. 2 ^ n = ByteSize ^ 2 /\ w \div 2 ^ n \in Word
        BY <4>2, BytePlace
      <4> QED BY <4>1, <4>3 DEF HalfDown
    <3>2. CASE k = 2
      <4>1. 2 * ByteBits - ByteBits * k = 0 /\ 2 - k = 0 /\ 3 * ByteBits - ByteBits * 3 = 0
        BY <3>2, Widths
      <4>2. 2 ^ 0 = ByteSize ^ 0 /\ w \div 2 ^ 0 \in Word
        <5>1. 3 \in 0 .. 3 /\ 3 - 3 = 0
          OBVIOUS
        <5> QED BY <4>1, <5>1, BytePlace
      <4> QED BY <4>1, <4>2 DEF HalfDown
    <3> QED BY <2>1, <3>1, <3>2
  <2>4. HalfAt(w, k) = x % HalfSize
    BY <2>3 DEF HalfAt
  <2>5. ExecLoad(op, w, a) =
          IF op = "LHU" THEN And(x, Mask(n))
          ELSE And(x, Mask(n)) + (IF Bit(x, n - 1) = 1 THEN HighMask(n) ELSE 0)
    BY <1>4 DEF ExecLoad
  <2>6. Loaded(op, w, k) = IF op = "LHU" THEN HalfAt(w, k) ELSE Extend(HalfAt(w, k), HalfSize)
    BY <1>4 DEF Loaded
  <2> HIDE DEF x, k, n
  <2>7. /\ And(x, Mask(n)) = x % HalfSize /\ And(x, Mask(n)) \in Word
        /\ And(x, Mask(n)) + (IF Bit(x, n - 1) = 1 THEN HighMask(n) ELSE 0)
             = Extend(x % HalfSize, HalfSize)
        /\ And(x, Mask(n)) + (IF Bit(x, n - 1) = 1 THEN HighMask(n) ELSE 0) \in Word
    BY <2>2, <2>3, Fill
  <2> QED BY <2>4, <2>5, <2>6, <2>7 DEF k
<1> QED BY <1>2, <1>3, <1>4 DEF Loads

\* Replacing the bits of w from lo up to hi by u.
LEMMA Replace ==
  ASSUME NEW w \in Word, NEW lo \in 0 .. Bits, NEW n \in 0 .. Bits - lo,
         NEW u \in 0 .. (2 ^ n) - 1
  PROVE  LET hi == lo + n
         IN  /\ ShiftLeft(u, lo) + And(w, Keep(lo, hi))
                  = w + (u - ((w \div 2 ^ lo) % (2 ^ n))) * 2 ^ lo
             /\ ShiftLeft(u, lo) + And(w, Keep(lo, hi)) \in Word
<1> DEFINE hi == lo + n
           P == 2 ^ lo
           N == 2 ^ n
           W == WordSize
           r == w % P
           v == (w \div P) % N
           s == w \div (P * N)
<1>1. lo + n \in 0 .. Bits /\ lo <= lo + n /\ n \in 0 .. Bits /\ Bits - lo - n \in 0 .. Bits - lo - n
      /\ (lo + n) + (Bits - lo - n) = Bits /\ Bits - lo - n \in 0 .. Bits - (lo + n)
      /\ Bits - lo - n \in 0 .. Bits
  BY Widths
<1> DEFINE M == 2 ^ (Bits - lo - n)
<1>2. P \in Nat \ {0} /\ N \in Nat \ {0} /\ M \in Nat \ {0}
  BY <1>1, PowPositive
<1>3. 2 ^ hi = P * N /\ W = (P * N) * M
  <2>1. 2 ^ (lo + n) = P * N
    BY PowSum
  <2>2. 2 ^ ((lo + n) + (Bits - lo - n)) = 2 ^ (lo + n) * M
    BY <1>1, PowSum
  <2> QED BY <1>1, <2>1, <2>2, Sizes
<1>4. w \in Nat /\ w < W /\ W \in Nat /\ W = 2 ^ Bits
  BY Sizes DEF Word
<1>5. And(w, Keep(lo, hi)) = (w % P) + (w - (w % (2 ^ hi)))
  BY <1>1, <1>4, Masked
<1>6. ShiftLeft(u, lo) = (u * P) % W
  BY DEF ShiftLeft
<1> HIDE DEF P, N, M, W, hi
<1>7. w % (P * N) = r + P * v
  BY <1>2, <1>4, TwoSteps, ZenonT(30)
<1>8. /\ r \in 0 .. P - 1 /\ v \in 0 .. N - 1
      /\ w = (P * N) * s + (w % (P * N)) /\ s \in Nat
  <2>1. w \div P \in Nat /\ r \in 0 .. P - 1
    BY <1>2, <1>4
  <2> DEFINE q == w \div P
             D == P * N
  <2>2. q % N \in 0 .. N - 1
    <3>1. q \in Nat
      BY <2>1
    <3> HIDE DEF q
    <3> QED BY <1>2, <3>1
  <2>3. D \in Nat \ {0}
    BY <1>2
  <2>4. w = D * (w \div D) + (w % D) /\ w \div D \in Nat
    <3> HIDE DEF D
    <3> QED BY <1>4, <2>3
  <2> QED BY <2>1, <2>2, <2>4
<1> DEFINE D == P * N
           low == w % D
<1>9. D \in Nat \ {0} /\ W = D * M
  BY <1>2, <1>3
<1>10. s <= M - 1
  <2> HIDE DEF s, D
  <2>1. low \in 0 .. D - 1
    BY <1>4, <1>9
  <2>2. D * s <= w
    BY <1>8, <1>9, <2>1 DEF D
  <2>3. CASE s >= M
    <3>1. D * s >= D * M
      BY <1>2, <1>8, <1>9, <2>3
    <3> QED BY <1>2, <1>4, <1>8, <1>9, <2>2, <3>1
  <2> QED BY <1>2, <1>8, <2>3
<1> HIDE DEF r, v, s, low, D
<1>11. u \in 0 .. N - 1
  BY DEF N
<1>12. u * P \in 0 .. D - P /\ P * v \in Nat
  <2>1. u * P <= (N - 1) * P /\ u * P \in Nat
    BY <1>2, <1>11
  <2>2. (N - 1) * P = D - P
    BY <1>2 DEF D
  <2>3. P * v \in Nat
    BY <1>2, <1>8
  <2> QED BY <2>1, <2>2, <2>3
<1>13. D * s \in Nat /\ D * s <= W - D
  <2>1. D * s <= D * (M - 1) /\ D * s \in Nat
    BY <1>2, <1>8, <1>9, <1>10
  <2>2. D * (M - 1) = W - D
    BY <1>2, <1>9
  <2> QED BY <2>1, <2>2
<1>14. (u * P) % W = u * P
  <2> DEFINE y == u * P
  <2>1. y \in Nat /\ y < W
    BY <1>2, <1>4, <1>9, <1>12, <1>13
  <2> HIDE DEF y
  <2>2. y % W = y
    BY <1>4, <2>1
  <2> QED BY <2>2 DEF y
<1>15. w = D * s + (r + P * v)
  BY <1>7, <1>8 DEF D
<1>16. And(w, Keep(lo, hi)) = r + D * s
  <2>1. And(w, Keep(lo, hi)) = r + (w - (r + P * v))
    BY <1>3, <1>5, <1>7 DEF r
  <2> QED BY <1>8, <1>12, <1>13, <1>15, <2>1
<1>17. w + (u - v) * P = u * P + (r + D * s)
  <2>1. (u - v) * P = u * P - P * v
    BY <1>2, <1>8, <1>11
  <2> QED BY <1>8, <1>12, <1>13, <1>15, <2>1
<1>18. u * P + (r + D * s) \in 0 .. W - 1
  BY <1>2, <1>4, <1>8, <1>9, <1>12, <1>13
<1> QED BY <1>6, <1>14, <1>16, <1>17, <1>18 DEF hi, P, N, v, W, Word

\* exec_sb, exec_sh and exec_sw put in the bytes that the store names.
LEMMA StoresAgree ==
  ASSUME NEW op \in Stores, NEW w \in Word, NEW v \in Word,
         NEW a \in Nat, a % (Further(op) + 1) = 0
  PROVE  ExecStore(op, w, a, v) = Merged(op, w, a % 4, v) /\ ExecStore(op, w, a, v) \in Word
<1> DEFINE k == a % 4
<1>1. k \in 0 .. 3
  OBVIOUS
<1>2. CASE op = "SW"
  <2>1. v + 0 = v
    BY Sizes DEF Word
  <2> QED BY <1>2, <2>1 DEF ExecStore, BitSave, BitReserve, Merged
<1>3. CASE op = "SB"
  <2> DEFINE lo == 3 * ByteBits - ByteBits * k
             hi == lo + ByteBits
             shift == ByteBits * k
             u == v % ByteSize
  <2>1. lo \in 0 .. Bits /\ ByteBits \in 0 .. Bits - lo /\ 2 ^ lo = ByteSize ^ (3 - k)
        /\ lo \in 0 .. Bits - shift /\ shift \in 0 .. Bits
        /\ shift + lo = 3 * ByteBits /\ ByteBits \in 0 .. Bits /\ 3 * ByteBits \in 0 .. Bits
    <3>1. lo + ByteBits \in 0 .. Bits /\ lo \in 0 .. Bits /\ 2 ^ lo = ByteSize ^ (3 - k)
      BY <1>1, BytePlace
    <3>2. shift \in Nat /\ shift + lo = 3 * ByteBits
      BY <1>1, Widths
    <3> HIDE DEF lo, shift
    <3> QED BY <3>1, <3>2, Widths
  <2>2. u \in 0 .. (2 ^ ByteBits) - 1 /\ And(v, Mask(ByteBits)) = u
    <3>1. v \in Nat
      BY Sizes DEF Word
    <3>2. And(v, Mask(ByteBits)) = u
      BY <2>1, MaskLow, Sizes
    <3> QED BY <2>1, <3>1, <3>2, LowBits, Sizes
  <2>3. Mask(3 * ByteBits) \div 2 ^ shift = 2 ^ lo - 1
    <3> DEFINE S == 2 ^ shift
               L == 2 ^ lo
    <3>1. S \in Nat \ {0} /\ L \in Nat \ {0} /\ 2 ^ (3 * ByteBits) = S * L
      <4> HIDE DEF shift, lo
      <4> QED BY <2>1, PowPositive, PowSum
    <3>2. Mask(3 * ByteBits) = S * L - 1
      BY <3>1 DEF Mask
    <3> HIDE DEF S, L
    <3>3. S * L - 1 = S * (L - 1) + (S - 1) /\ L - 1 \in Int /\ S - 1 \in 0 .. S - 1
      BY <3>1
    <3>4. (S * (L - 1) + (S - 1)) \div S = L - 1
      BY <3>1, <3>3, Unique
    <3> QED BY <3>2, <3>3, <3>4 DEF S, L
  <2>4. TopBit(k) = 2 ^ Bits - 2 ^ hi
    <3>1. /\ HighMask(3 * ByteBits) \in Int /\ HighMask(2 * ByteBits) \in Int
          /\ HighMask(ByteBits) \in Int
      BY Sizes DEF HighMask
    <3>2. CASE k = 0
      <4>1. hi = Bits
        BY <3>2, Widths
      <4>2. TopBit(0) = 0
        BY <3>1 DEF TopBit
      <4>3. 2 ^ Bits \in Nat
        BY Sizes
      <4> HIDE DEF k, hi
      <4> QED BY <3>2, <4>1, <4>2, <4>3
    <3>3. CASE k = 1
      <4>1. hi = 3 * ByteBits
        BY <3>3, Widths
      <4>2. TopBit(1) = HighMask(3 * ByteBits)
        BY <3>1 DEF TopBit
      <4> HIDE DEF k, hi
      <4> QED BY <3>3, <4>1, <4>2, Sizes DEF HighMask
    <3>4. CASE k = 2
      <4>1. hi = 2 * ByteBits
        BY <3>4, Widths
      <4>2. TopBit(2) = HighMask(2 * ByteBits)
        BY <3>1 DEF TopBit
      <4> HIDE DEF k, hi
      <4> QED BY <3>4, <4>1, <4>2, Sizes DEF HighMask
    <3>5. CASE k = 3
      <4>1. hi = ByteBits
        BY <3>5, Widths
      <4>2. TopBit(3) = HighMask(ByteBits)
        BY <3>1 DEF TopBit
      <4> HIDE DEF k, hi
      <4> QED BY <3>5, <4>1, <4>2, Sizes DEF HighMask
    <3> QED BY <1>1, <3>2, <3>3, <3>4, <3>5
  <2>5. BitSave(op, a, v) = ShiftLeft(u, lo)
    BY <1>3, <2>2 DEF BitSave
  <2>6. BitReserve(op, a, w) = And(w, Keep(lo, hi))
    BY <1>3, <2>3, <2>4 DEF BitReserve, Keep
  <2>7. Merged(op, w, k, v) = w + (u - ((w \div 2 ^ lo) % (2 ^ ByteBits))) * 2 ^ lo
    <3>1. Merged(op, w, k, v) = w + (u - ByteAt(w, k)) * ByteSize ^ (3 - k)
      BY <1>3 DEF Merged
    <3>2. ByteAt(w, k) = (w \div 2 ^ lo) % (2 ^ ByteBits)
      BY <2>1, Sizes DEF ByteAt
    <3> QED BY <2>1, <3>1, <3>2
  <2> HIDE DEF lo, u, k
  <2>8. /\ ShiftLeft(u, lo) + And(w, Keep(lo, hi))
             = w + (u - ((w \div 2 ^ lo) % (2 ^ ByteBits))) * 2 ^ lo
        /\ ShiftLeft(u, lo) + And(w, Keep(lo, hi)) \in Word
    BY <2>1, <2>2, Replace
  <2> QED BY <2>5, <2>6, <2>7, <2>8 DEF ExecStore, k
<1>4. CASE op = "SH"
  <2> DEFINE n == 2 * ByteBits
             shift == ByteBits * k
             lo == n - shift
             hi == lo + n
             u == v % HalfSize
  <2>1. k \in {0, 2}
    <3>1. a % 2 = 0
      BY <1>4 DEF Further
    <3> QED BY <3>1
  <2>2. lo \in 0 .. Bits /\ n \in 0 .. Bits - lo /\ 2 ^ lo = ByteSize ^ (2 - k) /\ n \in 0 .. Bits
    <3>1. CASE k = 0
      <4>1. lo = n /\ 2 - k = 2
        BY <3>1, Widths
      <4> HIDE DEF lo, k
      <4> QED BY <4>1, Widths, Sizes DEF HalfSize
    <3>2. CASE k = 2
      <4>1. lo = 0 /\ 2 - k = 0
        BY <3>2, Widths
      <4> HIDE DEF lo, k
      <4> QED BY <4>1, Widths, Sizes
    <3> QED BY <2>1, <3>1, <3>2
  <2>3. u \in 0 .. (2 ^ n) - 1 /\ And(v, Mask(n)) = u
    <3>1. v \in Nat
      BY Sizes DEF Word
    <3>2. And(v, Mask(n)) = u
      BY <2>2, MaskLow, Sizes
    <3> QED BY <2>2, <3>1, <3>2, LowBits, Sizes
  <2>4. ShiftLeft(Mask(n), shift) = Keep(lo, hi)
    <3>1. 2 ^ n = HalfSize /\ 2 ^ Bits = WordSize /\ WordSize = HalfSize * HalfSize
          /\ HalfSize \in Nat \ {0}
      BY Sizes
    <3>2. CASE k = 0
      <4>1. shift = 0 /\ lo = n /\ hi = Bits
        BY <3>2, Widths
      <4>2. ShiftLeft(Mask(n), 0) = HalfSize - 1
        <5>1. ShiftLeft(Mask(n), 0) = (HalfSize - 1) % WordSize
          BY <3>1 DEF ShiftLeft, Mask
        <5> DEFINE H == HalfSize
                   W == WordSize
        <5>2. H \in Nat /\ H - 1 \in Nat /\ W \in Nat \ {0} /\ H * H >= H
          BY <3>1
        <5>3. W = H * H
          BY <3>1
        <5> DEFINE y == H - 1
        <5>4. y \in Nat /\ y < W /\ W \in Nat
          BY <5>2, <5>3
        <5> HIDE DEF y
        <5>5. y % W = y
          BY <5>4
        <5> QED BY <5>1, <5>5 DEF H, W, y
      <4> HIDE DEF n, shift, lo, hi
      <4>3. Keep(n, Bits) = HalfSize - 1
        BY <3>1 DEF Keep
      <4> QED BY <4>1, <4>2, <4>3
    <3>3. CASE k = 2
      <4>1. shift = n /\ lo = 0 /\ hi = n
        BY <3>3, Widths
      <4>2. ShiftLeft(Mask(n), n) = WordSize - HalfSize
        <5>1. ShiftLeft(Mask(n), n) = ((HalfSize - 1) * HalfSize) % WordSize
          BY <3>1 DEF ShiftLeft, Mask
        <5> DEFINE H == HalfSize
                   W == WordSize
                   y == (H - 1) * H
        <5>2. y = W - H /\ H \in Nat \ {0} /\ W \in Nat \ {0} /\ H <= W
          <6>1. H * H >= H
            BY <3>1
          <6> QED BY <3>1, <6>1
        <5> HIDE DEF H, W, y
        <5>3. y % W = y
          BY <5>2
        <5> QED BY <5>1, <5>2, <5>3 DEF H, W, y
      <4> HIDE DEF n, shift, lo, hi
      <4>3. Keep(0, n) = WordSize - HalfSize
        BY <3>1 DEF Keep
      <4> QED BY <4>1, <4>2, <4>3
    <3> QED BY <2>1, <3>2, <3>3
  <2>5. BitSave(op, a, v) = ShiftLeft(u, lo)
    BY <1>4, <2>3 DEF BitSave
  <2>6. BitReserve(op, a, w) = And(w, Keep(lo, hi))
    BY <1>4, <2>4 DEF BitReserve
  <2>7. Merged(op, w, k, v) = w + (u - ((w \div 2 ^ lo) % (2 ^ n))) * 2 ^ lo
    <3>1. Merged(op, w, k, v) = w + (u - HalfAt(w, k)) * ByteSize ^ (2 - k)
      BY <1>4 DEF Merged
    <3>2. HalfAt(w, k) = (w \div 2 ^ lo) % (2 ^ n)
      BY <2>2, Sizes DEF HalfAt
    <3> QED BY <2>2, <3>1, <3>2
  <2> HIDE DEF lo, u, k, n
  <2>8. /\ ShiftLeft(u, lo) + And(w, Keep(lo, hi))
             = w + (u - ((w \div 2 ^ lo) % (2 ^ n))) * 2 ^ lo
        /\ ShiftLeft(u, lo) + And(w, Keep(lo, hi)) \in Word
    BY <2>2, <2>3, Replace
  <2> QED BY <2>5, <2>6, <2>7, <2>8 DEF ExecStore, k
<1> QED BY <1>2, <1>3, <1>4 DEF Stores
-----------------------------------------------------------------------------
(* Signed numbers, and what the units compute.                             *)

\* Half of a word and of a half-word.
LEMMA Middles ==
  /\ WordSize \div 2 = 2 ^ (Bits - 1) /\ WordSize = 2 * (WordSize \div 2)
  /\ WordSize \div 2 \in Nat \ {0} /\ (WordSize \div 2) % 2 = 0
  /\ HalfSize = 2 * (HalfSize \div 2) /\ HalfSize \div 2 \in Nat \ {0}
  /\ HalfSize <= WordSize \div 2 /\ HalfSize >= 4
<1>1. 2 ^ Bits = 2 * 2 ^ (Bits - 1) /\ 2 ^ (Bits - 1) \in Nat \ {0}
  <2>1. Bits - 1 \in 0 .. Bits - 1 /\ Bits - 1 \in 0 .. Bits /\ (Bits - 1) + 1 = Bits
    BY Widths
  <2> QED BY <2>1, PowNext, PowPositive
<1>2. 2 ^ (Bits - 1) = 2 * 2 ^ (Bits - 2) /\ 2 ^ (Bits - 2) \in Nat
  <2>1. Bits - 2 \in 0 .. Bits - 1 /\ Bits - 2 \in 0 .. Bits /\ (Bits - 2) + 1 = Bits - 1
    BY Widths
  <2> QED BY <2>1, PowNext, PowPositive
<1> DEFINE S == 2 ^ (ByteBits - 1)
           K == 2 ^ (Bits - 1)
           H == HalfSize
           W == WordSize
<1>3. S \in Nat \ {0} /\ H = (2 * S) * (2 * S) /\ W = H * H /\ W = 2 * K
  BY <1>1, Sizes
<1>4. K \in Nat \ {0} /\ K % 2 = 0
  <2> DEFINE Q == 2 ^ (Bits - 2)
  <2>1. Q \in Nat /\ K = 2 * Q
    BY <1>2
  <2> HIDE DEF Q, K
  <2>2. K \in Nat /\ K % 2 = 0
    BY <2>1
  <2> QED BY <1>1, <2>2 DEF K
<1> HIDE DEF S, K, H, W
<1>5. H \in Nat \ {0} /\ H = 2 * (H \div 2) /\ H \div 2 \in Nat \ {0} /\ H >= 4
  <2> DEFINE T == S * (2 * S)
  <2>1. T \in Nat /\ T >= 2 /\ H = 2 * T
    <3>1. S * S \in Nat /\ S * S >= 1
      BY <1>3
    <3> QED BY <1>3, <3>1
  <2> HIDE DEF T
  <2> QED BY <2>1
<1>6. W \div 2 = K
  BY <1>3, <1>4
<1>7. H <= K
  <2>1. H * H >= 2 * H
    BY <1>5
  <2> QED BY <1>3, <1>4, <1>5, <2>1
<1> QED BY <1>3, <1>4, <1>5, <1>6, <1>7 DEF H, K, W

\* Two's complement.
LEMMA SignedIs ==
  ASSUME NEW w \in Word
  PROVE  /\ Signed(w) \in -(WordSize \div 2) .. (WordSize \div 2) - 1
         /\ Signed(w) = w \/ Signed(w) = w - WordSize
         /\ Signed(w) < 0 <=> w >= WordSize \div 2
         /\ Bit(w, Bits - 1) = IF Signed(w) < 0 THEN 1 ELSE 0
<1> DEFINE M == WordSize \div 2
           W == WordSize
<1>1. M \in Nat \ {0} /\ W = 2 * M /\ M = 2 ^ (Bits - 1)
  BY Middles
<1>2. w \in 0 .. W - 1
  BY DEF Word
<1>3. Signed(w) = IF w < M THEN w ELSE w - W
  BY DEF Signed
<1>4. Bit(w, Bits - 1) = (w \div M) % 2
  BY <1>1 DEF Bit
<1> HIDE DEF M, W
<1>5. w \div M = IF w < M THEN 0 ELSE 1
  <2>1. CASE w < M
    <3>1. w = M * 0 + w /\ w \in 0 .. M - 1
      BY <1>1, <1>2, <2>1
    <3> QED BY <1>1, <2>1, <3>1, Unique
  <2>2. CASE w >= M
    <3>1. w = M * 1 + (w - M) /\ w - M \in 0 .. M - 1
      BY <1>1, <1>2, <2>2
    <3>2. w \div M = 1
      BY <1>1, <3>1, Unique
    <3> QED BY <1>1, <1>2, <2>2, <3>2
  <2> QED BY <1>1, <1>2, <2>1, <2>2
<1>6. (w \div M) % 2 = IF w < M THEN 0 ELSE 1
  BY <1>5
<1> QED BY <1>1, <1>2, <1>3, <1>4, <1>6 DEF M, W

\* An immediate as a word and as a number.
LEMMA Immediate ==
  ASSUME NEW imm \in 0 .. HalfSize - 1
  PROVE  /\ SignExtend(imm) \in Word /\ SignExtend(imm) % HalfSize = imm
         /\ Signed(SignExtend(imm)) \in -(HalfSize \div 2) .. (HalfSize \div 2) - 1
         /\ imm \in Word
<1> DEFINE M == WordSize \div 2
           W == WordSize
           H == HalfSize
           G == HalfSize \div 2
           x == SignExtend(imm)
<1>1. /\ M \in Nat \ {0} /\ W = 2 * M /\ H = 2 * G /\ G \in Nat \ {0} /\ H <= M
      /\ W = H * H
  BY Middles, Sizes
<1>2. x = IF imm < G THEN imm ELSE imm + W - H
  BY DEF SignExtend
<1>3. Signed(x) = IF x < M THEN x ELSE x - W
  BY DEF Signed
<1>4. imm \in 0 .. H - 1
  OBVIOUS
<1> HIDE DEF M, W, H, G, x
<1>5. x \in 0 .. W - 1 /\ (x < M <=> imm < G)
  BY <1>1, <1>2, <1>4
<1>6. x % H = imm
  <2>1. H \in Nat \ {0} /\ H - 1 \in Nat /\ imm \in 0 .. H - 1
    BY <1>1, <1>4
  <2> DEFINE q == IF imm < G THEN 0 ELSE H - 1
  <2>2. q \in Int /\ x = H * q + imm
    BY <1>1, <1>2, <1>4
  <2> HIDE DEF q
  <2> QED BY <2>1, <2>2, Unique
<1> QED BY <1>1, <1>2, <1>3, <1>4, <1>5, <1>6 DEF M, W, H, G, x, Word

\* The arithmetic shift with the sign filled in by a shifted mask.
LEMMA ShiftsAgree ==
  ASSUME NEW v \in Word, NEW n \in 1 .. Bits - 1
  PROVE  ExecSRA(v, n) = ShiftRightArith(v, n) /\ ExecSRA(v, n) \in Word
<1> DEFINE N == 2 ^ n
           M == 2 ^ (Bits - n)
           W == WordSize
<1>1. N \in Nat \ {0} /\ M \in Nat \ {0} /\ W = N * M
  <2>1. n \in 0 .. Bits /\ Bits - n \in 0 .. Bits - n /\ Bits - n \in 0 .. Bits /\ n + (Bits - n) = Bits
    BY Widths
  <2>2. 2 ^ (n + (Bits - n)) = 2 ^ n * 2 ^ (Bits - n)
    BY <2>1, PowSum
  <2> QED BY <2>1, <2>2, PowPositive, Sizes
<1>2. ShiftLeft(Mask(Bits), Bits - n) = ((W - 1) * M) % W
  BY Sizes DEF ShiftLeft, Mask
<1>3. v \in 0 .. W - 1
  BY DEF Word
<1>4. ExecSRA(v, n) = ((v \div N) + (IF Signed(v) < 0 THEN ((W - 1) * M) % W ELSE 0)) % W
  BY <1>2, SignedIs DEF ExecSRA
<1>5. ShiftRightArith(v, n) = (v \div N) + (IF Signed(v) < 0 THEN W - M ELSE 0)
  BY DEF ShiftRightArith
<1> HIDE DEF N, M, W
<1>6. M <= W /\ W \in Nat \ {0}
  BY <1>1
<1>7. ((W - 1) * M) % W = W - M
  <2>1. (W - 1) * M = W * (M - 1) + (W - M)
    BY <1>1, <1>6
  <2>2. W - M \in 0 .. W - 1 /\ M - 1 \in Int
    BY <1>1, <1>6
  <2> QED BY <1>6, <2>1, <2>2, Unique
<1>8. v \div N \in 0 .. M - 1
  <2> DEFINE q == v \div N
  <2>1. q \in Nat /\ N * q <= v
    <3>1. v \in Int /\ v >= 0
      BY <1>3, <1>6
    <3>2. v = N * (v \div N) + (v % N) /\ v % N \in 0 .. N - 1
          /\ v \div N \in Int /\ v \div N >= 0
      BY <1>1, <3>1, DivMod
    <3> DEFINE r == v % N
    <3>3. v = N * q + r /\ r \in 0 .. N - 1 /\ q \in Int /\ q >= 0
      BY <3>2
    <3> HIDE DEF q, r
    <3>4. N * q \in Int
      BY <1>1, <3>3
    <3> QED BY <1>1, <3>1, <3>3, <3>4
  <2> HIDE DEF q
  <2>2. CASE q >= M
    <3>1. N * q >= N * M
      BY <1>1, <2>1, <2>2
    <3> QED BY <1>1, <1>3, <1>6, <2>1, <3>1
  <2> QED BY <1>1, <2>1, <2>2 DEF q
<1> DEFINE y == (v \div N) + (IF Signed(v) < 0 THEN W - M ELSE 0)
<1>9. y \in 0 .. W - 1
  BY <1>1, <1>6, <1>8
<1>10. y % W = y
  <2> HIDE DEF y
  <2> QED BY <1>6, <1>9
<1> QED BY <1>4, <1>5, <1>7, <1>9, <1>10 DEF W, Word

\* Remainders and quotients of words are words.
LEMMA Inside ==
  /\ \A x \in Int : x % WordSize \in Word
  /\ \A w \in Word, n \in 0 .. Bits : w \div 2 ^ n \in Word
  /\ \A w \in Word : w % HalfSize \in Word
  /\ {0, 1} \subseteq Word
<1> DEFINE W == WordSize
           H == HalfSize
<1>1. W \in Nat \ {0} /\ H \in Nat \ {0}
  <2>1. ByteSize \in Nat \ {0} /\ H = ByteSize * ByteSize /\ W = H * H
    BY Sizes
  <2> HIDE DEF W, H
  <2>2. H \in Nat \ {0}
    BY <2>1
  <2> QED BY <2>1, <2>2
<1>2. H <= W /\ W >= 2
  <2>1. H <= W \div 2 /\ W = 2 * (W \div 2) /\ W \div 2 \in Nat \ {0}
    BY Middles
  <2> HIDE DEF W, H
  <2> QED BY <1>1, <2>1
<1>3. Word = 0 .. W - 1
  BY DEF Word
<1>4. ASSUME NEW w \in Word, NEW n \in 0 .. Bits PROVE w \div 2 ^ n \in Word
  <2> DEFINE P == 2 ^ n
  <2>1. P \in Nat \ {0}
    BY PowPositive
  <2>2. w \in Nat /\ w < W
    BY <1>1, <1>3
  <2> HIDE DEF P, W
  <2>3. w \div P \in Nat /\ w \div P <= w
    BY <2>1, <2>2
  <2> QED BY <1>1, <1>3, <2>2, <2>3 DEF P
<1> HIDE DEF W, H
<1>5. ASSUME NEW x \in Int PROVE x % W \in 0 .. W - 1
  BY <1>1
<1>6. ASSUME NEW w \in Word PROVE w % H \in 0 .. W - 1
  <2>1. w \in Int
    BY <1>1, <1>3
  <2>2. w % H \in 0 .. H - 1
    BY <1>1, <2>1
  <2> QED BY <1>1, <1>2, <2>2
<1>7. {0, 1} \subseteq 0 .. W - 1
  BY <1>1, <1>2
<1> QED BY <1>3, <1>4, <1>5, <1>6, <1>7 DEF W, H

\* The bit operations.
LEMMA Bitwise ==
  ASSUME NEW a \in Word, NEW b \in Word
  PROVE  /\ And(a, b) \in Word /\ Or(a, b) \in Word /\ Xor(a, b) \in Word
         /\ Not(a) \in Word
<1> DEFINE W == WordSize
           c == And(a, b)
<1>1. W \in Nat /\ W = 2 ^ Bits /\ a \in 0 .. W - 1 /\ b \in 0 .. W - 1
  BY Sizes DEF Word
<1>2. c \in Nat /\ c <= a /\ c <= b /\ (a + b) - c < W
  <2>1. a \in Nat /\ b \in Nat /\ a < 2 ^ Bits /\ b < 2 ^ Bits
    BY <1>1
  <2> QED BY <1>1, <2>1, AndBounds
<1>3. Or(a, b) = (a + b) - c /\ Xor(a, b) = (a + b) - 2 * c /\ Not(a) = (W - 1) - a
  <2>1. Or(a, b) = a + b - c /\ Xor(a, b) = a + b - 2 * c /\ Not(a) = W - 1 - a
    BY DEF Or, Xor, Not
  <2> HIDE DEF c, W
  <2> QED BY <1>1, <1>2, <2>1
<1> HIDE DEF W, c
<1>4. c \in 0 .. W - 1 /\ (a + b) - c \in 0 .. W - 1
      /\ (a + b) - 2 * c \in 0 .. W - 1 /\ (W - 1) - a \in 0 .. W - 1
  BY <1>1, <1>2
<1> QED BY <1>3, <1>4 DEF W, c, Word

\* exec_r computes what the instruction set says, a word.
LEMMA RegisterResult ==
  ASSUME NEW op \in RArith, NEW a \in Word, NEW b \in Word,
         op \in Shifts => a < Bits, op = "SRA" => a # 0
  PROVE  ExecR(op, a, b) = RegisterALU(op, a, b) /\ RegisterALU(op, a, b) \in Word
<1>1. a \in Nat /\ b \in Nat /\ Bits \in Nat
  BY Sizes, Widths DEF Word
<1>2. CASE op = "SRA"
  <2>1. a \in 1 .. Bits - 1
    BY <1>1, <1>2 DEF Shifts
  <2>2. RegisterALU("SRA", a, b) = ShiftRightArith(b, a)
    BY DEF RegisterALU
  <2> QED BY <1>2, <2>1, <2>2, ShiftsAgree DEF ExecR
<1>3. CASE op # "SRA"
  <2>1. ExecR(op, a, b) = RegisterALU(op, a, b)
    BY <1>3 DEF ExecR
  <2>2. CASE op \in {"ADD", "ADDU"}
    <3>1. RegisterALU(op, a, b) = (a + b) % WordSize
      BY <2>2 DEF RegisterALU
    <3> QED BY <1>1, <2>1, <3>1, Inside
  <2>3. CASE op \in {"SUB", "SUBU"}
    <3>1. RegisterALU(op, a, b) = (a - b) % WordSize
      BY <2>3 DEF RegisterALU
    <3> QED BY <1>1, <2>1, <3>1, Inside
  <2>4. CASE op \in {"AND", "OR", "XOR", "NOR", "NAND"}
    <3>1. RegisterALU(op, a, b) \in {And(a, b), Or(a, b), Xor(a, b), Not(Or(a, b)), Not(And(a, b))}
      BY <2>4 DEF RegisterALU
    <3>2. /\ And(a, b) \in Word /\ Or(a, b) \in Word /\ Xor(a, b) \in Word
      BY Bitwise
    <3>3. Not(Or(a, b)) \in Word /\ Not(And(a, b)) \in Word
      BY <3>2, Bitwise
    <3> QED BY <2>1, <3>1, <3>2, <3>3
  <2>5. CASE op \in {"SLT", "SLTU"}
    <3>1. RegisterALU(op, a, b) \in {0, 1}
      BY <2>5 DEF RegisterALU, Less
    <3> QED BY <2>1, <3>1, Inside
  <2>6. CASE op \in {"SLL", "SRL"}
    <3>1. a \in 0 .. Bits /\ 2 ^ a \in Nat
      <4>1. a \in 0 .. Bits
        BY <1>1, <2>6 DEF Shifts
      <4> QED BY <4>1, PowPositive
    <3>2. b * 2 ^ a \in Int
      BY <1>1, <3>1
    <3>3. RegisterALU(op, a, b) = IF op = "SLL" THEN (b * 2 ^ a) % WordSize ELSE b \div 2 ^ a
      BY <2>6 DEF RegisterALU
    <3> QED BY <2>1, <3>1, <3>2, <3>3, Inside
  <2> QED BY <1>3, <2>2, <2>3, <2>4, <2>5, <2>6 DEF RArith, Shifts
<1> QED BY <1>2, <1>3

\* Immediate operations and addresses are words.
LEMMA ImmediateResult ==
  ASSUME NEW op \in IArith \cup Loads \cup Stores, NEW a \in Word, NEW b \in Word
  PROVE  ImmediateALU(op, a, b) \in Word
<1> DEFINE c == b % HalfSize
<1>1. c \in Word /\ a \in Int /\ b \in Int /\ c \in Int /\ HalfSize \in Int
  <2>1. Word \subseteq Int
    BY Sizes DEF Word
  <2>2. c \in Word
    BY Inside
  <2>3. HalfSize \in Int
    BY Sizes
  <2> QED BY <2>1, <2>2, <2>3
<1>2. Or(a, c) \in Word /\ And(a, c) \in Word
  BY <1>1, Bitwise
<1>3. Not(Or(a, c)) \in Word
  BY <1>2, Bitwise
<1>4. a + b \in Int /\ a + c \in Int /\ b * HalfSize \in Int
  BY <1>1
<1>5. ImmediateALU(op, a, b) \in {(a + b) % WordSize, (a + c) % WordSize, 0, 1,
         And(a, c), Or(a, c), Not(Or(a, c)), (b * HalfSize) % WordSize}
  <2>1. CASE op \in {"ADDI"} \cup Loads \cup Stores
    BY <2>1 DEF ImmediateALU, Loads, Stores
  <2>2. CASE op \notin {"ADDI"} \cup Loads \cup Stores
    BY <2>2 DEF ImmediateALU, IArith, Less, Loads, Stores
  <2> QED BY <2>1, <2>2
<1> HIDE DEF c
<1> QED BY <1>2, <1>3, <1>4, <1>5, Inside
-----------------------------------------------------------------------------
(* The checks find just the sums that do not fit.                          *)

\* A word without its sign bit.
LEMMA WithoutSign ==
  ASSUME NEW w \in Word
  PROVE  /\ w \in Nat /\ w % (2 ^ Bits) = w
         /\ w % (2 ^ (Bits - 1)) = IF Signed(w) < 0 THEN Signed(w) + (WordSize \div 2) ELSE Signed(w)
<1> DEFINE M == WordSize \div 2
           W == WordSize
<1>1. M \in Nat \ {0} /\ W = 2 * M /\ M = 2 ^ (Bits - 1) /\ W = 2 ^ Bits
  BY Middles, Sizes
<1>2. w \in 0 .. W - 1
  BY DEF Word
<1>3. Signed(w) = IF w < M THEN w ELSE w - W
  BY DEF Signed
<1> HIDE DEF M, W
<1>4. w % W = w
  <2>1. w = W * 0 + w /\ W \in Nat \ {0}
    BY <1>1, <1>2
  <2> QED BY <1>2, <2>1, Unique
<1>5. w % M = IF w < M THEN w ELSE w - M
  <2>1. CASE w < M
    <3>1. w = M * 0 + w /\ w \in 0 .. M - 1
      BY <1>1, <1>2, <2>1
    <3>2. w % M = w
      BY <1>1, <3>1, Unique
    <3> QED BY <2>1, <3>2
  <2>2. CASE w >= M
    <3>1. w = M * 1 + (w - M) /\ w - M \in 0 .. M - 1
      BY <1>1, <1>2, <2>2
    <3>2. w % M = w - M
      BY <1>1, <3>1, Unique, SMTT(30)
    <3> QED BY <1>1, <1>2, <2>2, <3>2
  <2> QED BY <1>1, <1>2, <2>1, <2>2
<1> DEFINE s == Signed(w)
           r == w % M
<1>6. r = IF s < 0 THEN s + M ELSE s
  BY <1>1, <1>2, <1>3, <1>5
<1> QED BY <1>1, <1>2, <1>4, <1>6 DEF M, W

\* check_num_OF_add: the carry into the sign bit.
LEMMA AddExact ==
  ASSUME NEW a \in Word, NEW b \in Word
  PROVE  check_num_OF_add(a, b) <=>
           \/ Signed(a) + Signed(b) < -(WordSize \div 2)
           \/ Signed(a) + Signed(b) >= WordSize \div 2
<1> DEFINE M == WordSize \div 2
           x == Signed(a)
           y == Signed(b)
           u == a % (2 ^ (Bits - 1))
           v == b % (2 ^ (Bits - 1))
<1>1. M \in Nat \ {0} /\ M = 2 ^ (Bits - 1)
  BY Middles
<1>2. x \in -M .. M - 1 /\ y \in -M .. M - 1
  BY SignedIs
<1>3. u = (IF x < 0 THEN x + M ELSE x) /\ v = (IF y < 0 THEN y + M ELSE y)
  BY WithoutSign
<1>4. Carry(a, b, Bits - 1) = IF u + v >= M THEN 1 ELSE 0
  <2>1. Bits - 1 \in 0 .. Bits /\ a \in Nat /\ b \in Nat
    BY Widths, WithoutSign
  <2> QED BY <1>1, <2>1, CarryOut
<1>5. check_num_OF_add(a, b) <=>
        \/ ~(x < 0) /\ ~(y < 0) /\ Carry(a, b, Bits - 1) = 1
        \/ x < 0 /\ y < 0 /\ Carry(a, b, Bits - 1) = 0
  BY DEF check_num_OF_add, Negative
<1> HIDE DEF M, x, y, u, v
<1>6. (x + y < -M \/ x + y >= M) <=>
        \/ ~(x < 0) /\ ~(y < 0) /\ u + v >= M
        \/ x < 0 /\ y < 0 /\ ~(u + v >= M)
  BY <1>1, <1>2, <1>3
<1> QED BY <1>4, <1>5, <1>6 DEF M, x, y

\* check_num_OF_sub: the carry of a + ~b + 1 into the sign bit.
LEMMA SubExact ==
  ASSUME NEW a \in Word, NEW b \in Word
  PROVE  check_num_OF_sub(a, b) <=>
           \/ Signed(a) - Signed(b) < -(WordSize \div 2)
           \/ Signed(a) - Signed(b) >= WordSize \div 2
<1> DEFINE M == WordSize \div 2
           x == Signed(a)
           y == Signed(b)
           u == a % (2 ^ (Bits - 1))
           v == b % (2 ^ (Bits - 1))
<1>1. M \in Nat \ {0} /\ M = 2 ^ (Bits - 1)
  BY Middles
<1>2. x \in -M .. M - 1 /\ y \in -M .. M - 1
  BY SignedIs
<1>3. u = (IF x < 0 THEN x + M ELSE x) /\ v = (IF y < 0 THEN y + M ELSE y)
  BY WithoutSign
<1>4. Borrow(a, b, Bits - 1, 1) = IF u + 1 > v THEN 1 ELSE 0
  <2>1. Bits - 1 \in 0 .. Bits /\ a \in Nat /\ b \in Nat /\ 1 \in {0, 1}
    BY Widths, WithoutSign
  <2> QED BY <2>1, BorrowOut
<1>5. check_num_OF_sub(a, b) <=>
        \/ ~(x < 0) /\ y < 0 /\ Borrow(a, b, Bits - 1, 1) = 1
        \/ x < 0 /\ ~(y < 0) /\ Borrow(a, b, Bits - 1, 1) = 0
  BY DEF check_num_OF_sub, Negative
<1> HIDE DEF M, x, y, u, v
<1>6. (x - y < -M \/ x - y >= M) <=>
        \/ ~(x < 0) /\ y < 0 /\ u + 1 > v
        \/ x < 0 /\ ~(y < 0) /\ ~(u + 1 > v)
  BY <1>1, <1>2, <1>3
<1> QED BY <1>4, <1>5, <1>6 DEF M, x, y

\* check_num_OF_addu, check_num_OF_subu: the carry out of the word.
LEMMA UnsignedExact ==
  ASSUME NEW a \in Word, NEW b \in Word
  PROVE  /\ check_num_OF_addu(a, b) <=> a + b >= WordSize
         /\ check_num_OF_subu(a, b) <=> a < b
<1>1. /\ a \in Nat /\ b \in Nat /\ a % (2 ^ Bits) = a /\ b % (2 ^ Bits) = b
      /\ Bits \in 0 .. Bits /\ 0 \in {0, 1}
  BY Widths, WithoutSign
<1>2. Carry(a, b, Bits) = IF a + b >= 2 ^ Bits THEN 1 ELSE 0
  BY <1>1, CarryOut
<1>3. Borrow(a, b, Bits, 0) = IF a + 0 > b THEN 1 ELSE 0
  BY <1>1, BorrowOut
<1>4. WordSize = 2 ^ Bits
  BY Sizes
<1>5. check_num_OF_addu(a, b) <=> a + b >= WordSize
  BY <1>2, <1>4 DEF check_num_OF_addu
<1>6. check_num_OF_subu(a, b) <=> a < b
  BY <1>1, <1>3 DEF check_num_OF_subu
<1> QED BY <1>5, <1>6

\* An int that may have wrapped once.
LEMMA AsIntIs ==
  ASSUME NEW x \in Int, -WordSize <= x, x < WordSize
  PROVE  AsInt(x) = IF x < -(WordSize \div 2) THEN x + WordSize
                    ELSE IF x < WordSize \div 2 THEN x ELSE x - WordSize
<1> DEFINE M == WordSize \div 2
           W == WordSize
           y == x % W
<1>1. M \in Nat \ {0} /\ W = 2 * M /\ W \in Nat \ {0}
  <2>1. M \in Nat \ {0} /\ W = 2 * M
    BY Middles
  <2> HIDE DEF M, W
  <2> QED BY <2>1
<1>2. AsInt(x) = IF y < M THEN y ELSE y - W
  BY DEF AsInt, Signed
<1> HIDE DEF M, W
<1>3. y = IF x < 0 THEN x + W ELSE x
  <2>1. CASE x < 0
    <3>1. x = W * (-1) + (x + W) /\ x + W \in 0 .. W - 1 /\ -1 \in Int
      BY <1>1, <2>1 DEF W
    <3>2. x % W = x + W
      BY <1>1, <3>1, Unique
    <3> QED BY <2>1, <3>2
  <2>2. CASE x >= 0
    <3>1. x = W * 0 + x /\ x \in 0 .. W - 1
      BY <1>1, <2>2 DEF W
    <3>2. x % W = x
      BY <1>1, <3>1, Unique
    <3> QED BY <2>2, <3>2
  <2> QED BY <2>1, <2>2
<1>4. -W <= x /\ x < W
  BY DEF W
<1> HIDE DEF y
<1> QED BY <1>1, <1>2, <1>3, <1>4 DEF M, W

\* check_mem_OF: an access that wraps is not taken for one inside memory.
LEMMA RangeExact ==
  ASSUME NEW op \in Loads \cup Stores, NEW a \in Word, NEW imm \in 0 .. HalfSize - 1,
         NEW size \in Nat, size + HalfSize <= WordSize \div 2
  PROVE  LET x == Signed(a) + Signed(SignExtend(imm))
         IN  check_mem_OF(op, Signed(a), Signed(SignExtend(imm)), size) <=>
               x < 0 \/ x + (Further(op) + 1) > size
<1> DEFINE M == WordSize \div 2
           W == WordSize
           H == HalfSize
           G == HalfSize \div 2
           x == Signed(a) + Signed(SignExtend(imm))
           f == Further(op)
           z == x + f
           first == AsInt(x)
           check == AsInt(z)
<1>1. /\ M \in Nat \ {0} /\ W = 2 * M /\ H = 2 * G /\ G \in Nat \ {0} /\ H <= M /\ H >= 4
      /\ size + H <= M
  BY Middles
<1>2. x \in Int /\ -M - G <= x /\ x <= M + G - 2
  <2>1. Signed(a) \in -M .. M - 1 /\ Signed(SignExtend(imm)) \in -G .. G - 1
    BY SignedIs, Immediate
  <2> HIDE DEF M, W, H, G
  <2> QED BY <1>1, <2>1
<1>3. f \in 0 .. 3
  BY DEF Further, Loads, Stores
<1>4. check_mem_OF(op, Signed(a), Signed(SignExtend(imm)), size) <=>
        first < 0 \/ check > size - 1 \/ check < 0
  BY DEF check_mem_OF
<1> HIDE DEF x, f
<1>5. /\ -W <= x /\ x < W /\ -W <= x + f /\ x + f < W /\ x + f \in Int
  <2> HIDE DEF M, W, H, G
  <2> QED BY <1>1, <1>2, <1>3
<1>6. /\ first = IF x < -M THEN x + W ELSE IF x < M THEN x ELSE x - W
      /\ check = IF z < -M THEN z + W ELSE IF z < M THEN z ELSE z - W
  <2>1. z \in Int /\ -W <= z /\ z < W
    BY <1>5
  <2> HIDE DEF z
  <2>2. check = IF z < -M THEN z + W ELSE IF z < M THEN z ELSE z - W
    BY <2>1, AsIntIs
  <2>3. first = IF x < -M THEN x + W ELSE IF x < M THEN x ELSE x - W
    BY <1>2, <1>5, AsIntIs
  <2> QED BY <2>2, <2>3
<1> HIDE DEF M, W, H, G, first, check
<1>7. (first < 0 \/ check > size - 1 \/ check < 0) <=> (x < 0 \/ x + (f + 1) > size)
  BY <1>1, <1>2, <1>3, <1>6
<1> QED BY <1>4, <1>7 DEF x, f

\* check_data_mis: wrapping keeps an address as far from a multiple of its width.
LEMMA AlignmentExact ==
  ASSUME NEW op \in Loads \cup Stores, NEW a \in Word, NEW imm \in 0 .. HalfSize - 1
  PROVE  LET x == Signed(a) + Signed(SignExtend(imm))
         IN  check_data_mis(op, Signed(a), Signed(SignExtend(imm))) <=>
               x % (Further(op) + 1) # 0
<1> DEFINE M == WordSize \div 2
           W == WordSize
           H == HalfSize
           G == HalfSize \div 2
           K == (WordSize \div 2) \div 2
           x == Signed(a) + Signed(SignExtend(imm))
           y == AsInt(x)
<1>1. /\ M \in Nat \ {0} /\ W = 2 * M /\ H = 2 * G /\ G \in Nat \ {0} /\ H <= M /\ H >= 4
      /\ M % 2 = 0
  BY Middles
<1>2. x \in Int /\ -W <= x /\ x < W
  <2>1. Signed(a) \in -M .. M - 1 /\ Signed(SignExtend(imm)) \in -G .. G - 1
    BY SignedIs, Immediate
  <2> HIDE DEF M, W, H, G
  <2> QED BY <1>1, <2>1
<1>3. check_data_mis(op, Signed(a), Signed(SignExtend(imm))) <=>
        y % (Further(op) + 1) # 0
  <2>1. CASE op \in {"SH", "LH", "LHU"}
    <3>1. Further(op) + 1 = 2
      BY <2>1 DEF Further
    <3>2. check_data_mis(op, Signed(a), Signed(SignExtend(imm))) <=> y % 2 # 0
      BY <2>1 DEF check_data_mis
    <3> QED BY <3>1, <3>2
  <2>2. CASE op \in {"SW", "LW"}
    <3>1. Further(op) + 1 = 4
      BY <2>2 DEF Further
    <3>2. check_data_mis(op, Signed(a), Signed(SignExtend(imm))) <=> y % 4 # 0
      BY <2>2 DEF check_data_mis
    <3> QED BY <3>1, <3>2
  <2>3. CASE op \in {"SB", "LB", "LBU"}
    <3>1. Further(op) + 1 = 1
      BY <2>3 DEF Further
    <3>2. ~check_data_mis(op, Signed(a), Signed(SignExtend(imm)))
      BY <2>3 DEF check_data_mis
    <3>3. y \in Int
      <4>1. x % W \in Int
        <5> HIDE DEF W, x
        <5> QED BY <1>1, <1>2
      <4> QED BY <1>1, <4>1 DEF AsInt, Signed
    <3>4. y % 1 = 0
      <4> HIDE DEF y
      <4> QED BY <3>3
    <3> QED BY <3>1, <3>2, <3>4
  <2> QED BY <2>1, <2>2, <2>3 DEF Loads, Stores
<1>4. \/ y = x + W \/ y = x \/ y = x - W
  <2> HIDE DEF x
  <2> QED BY <1>2, AsIntIs
<1>5. Further(op) + 1 \in {1, 2, 4}
  BY DEF Further, Loads, Stores
<1> HIDE DEF x, y, M, W, H, G
<1>6. W = 4 * K /\ K \in Int
  <2>1. M = 2 * (M \div 2) /\ M \div 2 \in Int
    BY <1>1
  <2> QED BY <1>1, <2>1 DEF M
<1> HIDE DEF K
<1>7. y % 1 = x % 1 /\ y % 2 = x % 2 /\ y % 4 = x % 4
  BY <1>2, <1>4, <1>6
<1> QED BY <1>3, <1>5, <1>7 DEF x

\* The address that an access inside memory goes to.
LEMMA AddressIs ==
  ASSUME NEW a \in Word, NEW b \in Word
  PROVE  /\ (a + Signed(b)) % WordSize = (a + b) % WordSize
         /\ Signed(a) + Signed(b) \in 0 .. WordSize - 1 =>
              (a + b) % WordSize = Signed(a) + Signed(b)
<1> DEFINE W == WordSize
           x == Signed(a)
           y == Signed(b)
<1>1. W \in Nat \ {0} /\ a \in Int /\ b \in Int
  <2>1. W \in Nat \ {0}
    BY Sizes, PowPositive, Widths
  <2> QED BY <2>1 DEF Word
<1>2. /\ x = a \/ x = a - W
      /\ y = b \/ y = b - W
  BY SignedIs
<1> HIDE DEF W, x, y
<1>3. (a + b) \in Int /\ (a + b) % W \in 0 .. W - 1 /\ (a + b) \div W \in Int
      /\ a + b = W * ((a + b) \div W) + ((a + b) % W)
  <2> DEFINE s == a + b
  <2>1. s \in Int
    BY <1>1
  <2> HIDE DEF s
  <2>2. s % W \in 0 .. W - 1 /\ s \div W \in Int /\ s = W * (s \div W) + (s % W)
    BY <1>1, <2>1, DivMod
  <2> QED BY <2>1, <2>2 DEF s
<1> DEFINE q == (a + b) \div W
           r == (a + b) % W
<1>4. (a + y) % W = r
  <2>1. CASE y = b
    BY <2>1
  <2>2. CASE y = b - W
    <3>1. a + y = W * (q - 1) + r /\ q - 1 \in Int
      BY <1>1, <1>3, <2>2
    <3> HIDE DEF q, r
    <3> QED BY <1>1, <1>3, <3>1, Unique DEF r
  <2> QED BY <1>2, <2>1, <2>2
<1>5. ASSUME x + y \in 0 .. W - 1 PROVE r = x + y
  <2> DEFINE c == (IF x = a THEN 0 ELSE 1) + (IF y = b THEN 0 ELSE 1)
             z == x + y
  <2>1. a + b = W * c + z /\ c \in Int
    BY <1>1, <1>2
  <2>2. z \in 0 .. W - 1
    BY <1>5
  <2> HIDE DEF c, z
  <2>3. (a + b) % W = z
    BY <1>1, <2>1, <2>2, Unique
  <2> QED BY <2>3 DEF z
<1> QED BY <1>4, <1>5 DEF W, x, y
-----------------------------------------------------------------------------
(* The next instruction that is not a NOP.                                 *)

\* The first element of a set of addresses.
LEMMA MinIs ==
  ASSUME NEW S \in SUBSET Nat, S # {}
  PROVE  Min(S) \in S /\ \A y \in S : Min(S) <= y
<1>1. \E x \in S : \A y \in S : x <= y
  BY Least
<1> QED BY <1>1 DEF Min

\* Due steps over NOPs, and stops beyond the code.
LEMMA DueIs ==
  ASSUME NEW n \in Nat, NEW c, DOMAIN c = 0 .. n - 1, NEW p \in Int
  PROVE  /\ p \notin DOMAIN c => Due(c, p) = Stopped
         /\ p \in DOMAIN c /\ c[p] # NOP => Due(c, p) = p
         /\ p \in DOMAIN c /\ c[p] = NOP => Due(c, p) = Due(c, p + 1)
         /\ Due(c, p) # Stopped => Due(c, p) \in DOMAIN c /\ c[Due(c, p)] # NOP
<1> DEFINE rest(x) == {q \in DOMAIN c : q >= x /\ c[q] # NOP}
<1>1. \A x : Due(c, x) = IF x \in DOMAIN c /\ rest(x) # {} THEN Min(rest(x)) ELSE Stopped
  BY DEF Due
<1>2. ASSUME NEW x \in Int PROVE rest(x) \in SUBSET Nat
  OBVIOUS
<1>3. p \notin DOMAIN c => Due(c, p) = Stopped
  BY <1>1
<1>4. ASSUME p \in DOMAIN c, c[p] # NOP PROVE Due(c, p) = p
  <2>1. p \in rest(p) /\ \A y \in rest(p) : p <= y
    BY <1>4
  <2> HIDE DEF rest
  <2>2. Min(rest(p)) \in rest(p) /\ \A y \in rest(p) : Min(rest(p)) <= y
    BY <1>2, <2>1, MinIs
  <2>3. Min(rest(p)) \in Nat
    BY <1>2, <2>2
  <2>4. Min(rest(p)) <= p /\ p <= Min(rest(p))
    BY <2>1, <2>2
  <2>5. Min(rest(p)) = p
    BY <2>3, <2>4
  <2> QED BY <1>1, <1>4, <2>1, <2>5
<1>5. ASSUME p \in DOMAIN c, c[p] = NOP PROVE Due(c, p) = Due(c, p + 1)
  <2>1. rest(p) = rest(p + 1)
    BY <1>5
  <2>2. p + 1 \notin DOMAIN c => rest(p) = {}
    BY <1>5
  <2> HIDE DEF rest
  <2> QED BY <1>1, <1>5, <2>1, <2>2
<1>6. ASSUME Due(c, p) # Stopped PROVE Due(c, p) \in DOMAIN c /\ c[Due(c, p)] # NOP
  <2>1. p \in DOMAIN c /\ rest(p) # {} /\ Due(c, p) = Min(rest(p))
    BY <1>1, <1>6
  <2>2. Min(rest(p)) \in rest(p)
    <3> HIDE DEF rest
    <3> QED BY <1>2, <2>1, MinIs
  <2> QED BY <2>1, <2>2
<1> QED BY <1>3, <1>4, <1>5, <1>6
=============================================================================
