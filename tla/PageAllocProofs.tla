--------------------------- MODULE PageAllocProofs ---------------------------
(***************************************************************************)
(* Proofs about PageAlloc, for any number of pages and size classes, any   *)
(* memory map and any sequence of calls.                                   *)
(***************************************************************************)
EXTENDS PageAlloc, NaturalsInduction, WellFoundedInduction, FiniteSetTheorems, TLAPS

-----------------------------------------------------------------------------
(* Numbers *)

\* The order of the natural numbers as a relation
Below == OpToRel(<, Nat)

\* Every non-empty set of natural numbers has a least element.
LEMMA Least ==
  ASSUME NEW T \in SUBSET Nat, T # {}
  PROVE  \E x \in T : \A y \in T : x <= y
<1>1. IsWellFoundedOn(Below, Nat) BY NatLessThanWellFounded DEF Below
<1>2. \A x, y \in Nat : x < y => <<x, y>> \in Below BY DEF Below, OpToRel
<1>3. PICK x \in T : \A y \in T : <<y, x>> \notin Below BY <1>1, WFMin
<1>4. ASSUME NEW y \in T PROVE x <= y
  <2>1. x \in Nat /\ y \in Nat OBVIOUS
  <2>2. ~(y < x) BY <1>2, <1>3, <2>1
  <2> QED BY <2>1, <2>2
<1> QED BY <1>4

\* A set that holds 0 and with every number the next one holds them all.
LEMMA SetInduction ==
  ASSUME NEW S, 0 \in S, \A n \in Nat : n \in S => n + 1 \in S
  PROVE  \A n \in Nat : n \in S
<1> SUFFICES ASSUME Nat \ S # {} PROVE FALSE OBVIOUS
<1>1. PICK x \in Nat \ S : \A y \in Nat \ S : x <= y BY Least
<1>2. x - 1 \in Nat /\ ~(x <= x - 1) BY <1>1
<1>3. x - 1 \in S BY <1>1, <1>2
<1>4. (x - 1) + 1 = x BY <1>1
<1> QED BY <1>2, <1>3, <1>4

\* Every non-empty set of natural numbers below a bound has a greatest element.
LEMMA Greatest ==
  ASSUME NEW T \in SUBSET Nat, T # {}, NEW m \in Nat, \A x \in T : x <= m
  PROVE  \E x \in T : \A y \in T : y <= x
<1> DEFINE U == {n \in Nat : \E x \in T : n = m - x}
<1>1. U # {}
  <2>1. PICK x \in T : TRUE OBVIOUS
  <2>2. m - x \in U BY <2>1
  <2> QED BY <2>2
<1>2. PICK n \in U : \A k \in U : n <= k BY <1>1, Least
<1>3. PICK x \in T : n = m - x BY <1>2
<1>4. ASSUME NEW y \in T PROVE y <= x
  <2>1. m - y \in U OBVIOUS
  <2> QED BY <1>2, <1>3, <2>1
<1> QED BY <1>4

\* What % and \div mean for the prover.
LEMMA Division ==
  ASSUME NEW v \in Nat, NEW a \in Nat \ {0}
  PROVE  /\ v \div a \in Nat /\ v % a \in Nat
         /\ v = a * (v \div a) + (v % a) /\ v % a < a
  BY SMT

\* Quotients compare like the multiples they belong to.
LEMMA Multiples ==
  ASSUME NEW a \in Nat \ {0}, NEW j \in Nat, NEW k \in Nat, j < k
  PROVE  a * j + a <= a * k /\ a * j \in Nat
<1>1. PICK d \in Nat : k = j + 1 + d BY SMT
<1>2. a * k = a * j + a + a * d BY <1>1, SMT
<1>3. a * d \in Nat BY SMT
<1>4. a * j \in Nat BY SMT
<1> QED BY <1>2, <1>3, <1>4

\* A number is split into quotient and remainder in one way only.
LEMMA Unique ==
  ASSUME NEW a \in Nat \ {0}, NEW q \in Nat, NEW r \in 0 .. a - 1
  PROVE  (a * q + r) \div a = q /\ (a * q + r) % a = r
<1> DEFINE v == a * q + r
<1>1. a * q \in Nat BY SMT
<1>2. v \in Nat BY <1>1
<1> DEFINE p == v \div a
           s == v % a
<1>3. p \in Nat /\ s \in Nat /\ v = a * p + s /\ s < a BY <1>2, Division
<1>4. a * p \in Nat BY <1>3, SMT
<1> HIDE DEF p, s
<1>5. ~(p < q)
  <2> SUFFICES ASSUME p < q PROVE FALSE OBVIOUS
  <2>1. a * p + a <= a * q BY <1>3, Multiples
  <2> QED BY <1>1, <1>3, <1>4, <2>1
<1>6. ~(q < p)
  <2> SUFFICES ASSUME q < p PROVE FALSE OBVIOUS
  <2>1. a * q + a <= a * p BY <1>3, Multiples
  <2> QED BY <1>1, <1>3, <1>4, <2>1
<1>7. p = q BY <1>3, <1>5, <1>6
<1>8. s = r BY <1>1, <1>3, <1>7
<1> QED BY <1>7, <1>8 DEF p, s

\* To be divisible is to be a multiple.
LEMMA Divisible ==
  ASSUME NEW a \in Nat \ {0}, NEW v \in Nat
  PROVE  v % a = 0 <=> \E q \in Nat : v = a * q
<1>1. ASSUME v % a = 0 PROVE \E q \in Nat : v = a * q
  <2>1. v \div a \in Nat /\ v = a * (v \div a) + (v % a) BY Division
  <2>2. a * (v \div a) \in Nat BY <2>1, SMT
  <2>3. v = a * (v \div a) BY <1>1, <2>1, <2>2
  <2> QED BY <2>1, <2>3
<1>2. ASSUME NEW q \in Nat, v = a * q PROVE v % a = 0
  <2>1. (a * q + 0) % a = 0 BY Unique
  <2>2. a * q + 0 = a * q BY SMT
  <2> QED BY <1>2, <2>1, <2>2
<1> QED BY <1>1, <1>2

\* Pow2 satisfies its definition.
LEMMA Pow2Def == \A n \in Nat : Pow2[n] = IF n = 0 THEN 1 ELSE 2 * Pow2[n - 1]
<1>1. NatInductiveDefHypothesis(Pow2, 1, LAMBDA v, n : 2 * v)
  BY DEF NatInductiveDefHypothesis, Pow2
<1>2. NatInductiveDefConclusion(Pow2, 1, LAMBDA v, n : 2 * v)
  BY <1>1, NatInductiveDef
<1> QED BY <1>2 DEF NatInductiveDefConclusion

\* Powers of two are positive numbers, and each is twice the one before.
LEMMA Pow2Type ==
  /\ Pow2[0] = 1
  /\ \A k \in Nat : Pow2[k] \in Nat \ {0} /\ Pow2[k + 1] = 2 * Pow2[k]
<1>1. Pow2[0] = 1 BY Pow2Def
<1>2. \A k \in Nat : Pow2[k + 1] = 2 * Pow2[k]
  <2> SUFFICES ASSUME NEW k \in Nat PROVE Pow2[k + 1] = 2 * Pow2[k] OBVIOUS
  <2>1. k + 1 \in Nat /\ k + 1 # 0 /\ (k + 1) - 1 = k OBVIOUS
  <2> QED BY <2>1, Pow2Def
<1> DEFINE S == {n \in Nat : Pow2[n] \in Nat \ {0}}
<1>3. 0 \in S BY <1>1
<1>4. ASSUME NEW n \in Nat, n \in S PROVE n + 1 \in S
  <2>1. Pow2[n] \in Nat \ {0} BY <1>4
  <2>2. 2 * Pow2[n] \in Nat \ {0} BY <2>1
  <2> QED BY <1>2, <2>2
<1> HIDE DEF S
<1>5. \A n \in Nat : n \in S BY <1>3, <1>4, SetInduction
<1> QED BY <1>1, <1>2, <1>5 DEF S

\* A larger power of two is a multiple of a smaller one.
LEMMA Pow2Multiple ==
  ASSUME NEW j \in Nat, NEW k \in Nat, j <= k
  PROVE  \E m \in Nat \ {0} : Pow2[k] = Pow2[j] * m
<1> DEFINE S == {n \in Nat : \E m \in Nat \ {0} : Pow2[j + n] = Pow2[j] * m}
<1>0. Pow2[j] \in Nat \ {0} BY Pow2Type
<1>1. 0 \in S
  <2>1. Pow2[j + 0] = Pow2[j] * 1 BY <1>0
  <2> QED BY <2>1
<1>2. ASSUME NEW n \in Nat, n \in S PROVE n + 1 \in S
  <2>1. PICK m \in Nat \ {0} : Pow2[j + n] = Pow2[j] * m BY <1>2
  <2>2. j + n \in Nat /\ j + (n + 1) = (j + n) + 1 OBVIOUS
  <2>3. Pow2[j + (n + 1)] = 2 * (Pow2[j] * m) BY <2>1, <2>2, Pow2Type
  <2>4. 2 * (Pow2[j] * m) = Pow2[j] * (2 * m) BY <1>0, SMT
  <2>5. 2 * m \in Nat \ {0} OBVIOUS
  <2>6. \E i \in Nat \ {0} : Pow2[j + (n + 1)] = Pow2[j] * i BY <2>3, <2>4, <2>5
  <2> QED BY <2>6
<1>3. k - j \in Nat /\ j + (k - j) = k OBVIOUS
<1> HIDE DEF S
<1>4. k - j \in S BY <1>1, <1>2, <1>3, SetInduction
<1> QED BY <1>3, <1>4 DEF S

\* Powers of two grow.
LEMMA Pow2Grows ==
  ASSUME NEW j \in Nat, NEW k \in Nat, j <= k
  PROVE  Pow2[j] <= Pow2[k]
<1>1. PICK m \in Nat \ {0} : Pow2[k] = Pow2[j] * m BY Pow2Multiple
<1>2. Pow2[j] \in Nat \ {0} BY Pow2Type
<1>3. CASE m = 1 BY <1>1, <1>2, <1>3
<1>4. CASE 1 < m
  <2>1. Pow2[j] * 1 + Pow2[j] <= Pow2[j] * m BY <1>2, <1>4, Multiples
  <2>2. Pow2[j] * 1 = Pow2[j] /\ Pow2[j] * m \in Nat BY <1>2, SMT
  <2> QED BY <1>1, <1>2, <2>1, <2>2
<1> QED BY <1>3, <1>4

-----------------------------------------------------------------------------
(* Sizes and alignment *)

\* The classes are numbers.
LEMMA ClassFacts ==
  /\ CLASS_COUNT \in Nat
  /\ \A k \in Classes : k \in Nat /\ k < CLASS_COUNT /\ Pow2[k] \in Nat \ {0}
  /\ BuddyClasses \subseteq Classes
  /\ \A k \in BuddyClasses : k + 1 \in Classes /\ k + 1 \in Nat /\ Pow2[k + 1] = 2 * Pow2[k]
  BY ClassCountAssumption, Pow2Type DEF Classes, BuddyClasses

\* A block is aligned if its number is a multiple of its size.
LEMMA AlignedMultiple ==
  ASSUME NEW p \in Nat, NEW k \in Nat
  PROVE  is_aligned(p, k) <=> \E q \in Nat : p = Pow2[k] * q
  BY Pow2Type, Divisible DEF is_aligned

\* Blocks lie within memory.
LEMMA Fits ==
  ASSUME NEW k \in Classes, NEW p \in Pages, is_aligned(p, k)
  PROVE  p + Pow2[k] <= PageCount
<1>1. k \in Nat /\ Pow2[k] \in Nat \ {0} /\ k <= CLASS_COUNT BY ClassFacts
<1>2. PageCount \in Nat /\ p \in Nat /\ p < PageCount BY PageCountAssumption DEF Pages
<1>3. PICK q \in Nat : p = Pow2[k] * q BY <1>1, <1>2, AlignedMultiple
<1>4. PICK x \in Nat : PageCount = Pow2[CLASS_COUNT] * x
  BY PageCountAssumption, ClassFacts, Pow2Type, Divisible
<1>5. PICK m \in Nat \ {0} : Pow2[CLASS_COUNT] = Pow2[k] * m BY <1>1, ClassFacts, Pow2Multiple
<1>6. PageCount = Pow2[k] * (m * x) /\ m * x \in Nat BY <1>1, <1>4, <1>5, SMT
<1> DEFINE n == m * x
<1> HIDE DEF n
<1>7. q < n
  <2> SUFFICES ASSUME n <= q PROVE FALSE BY <1>6 DEF n
  <2>1. CASE n = q BY <1>2, <1>3, <1>6, <2>1 DEF n
  <2>2. CASE n < q
    <3>1. Pow2[k] * n + Pow2[k] <= Pow2[k] * q BY <1>1, <1>6, <2>2, Multiples DEF n
    <3> QED BY <1>1, <1>2, <1>3, <1>6, <3>1 DEF n
  <2> QED BY <1>6, <2>1, <2>2 DEF n
<1>8. Pow2[k] * q + Pow2[k] <= Pow2[k] * n BY <1>1, <1>6, <1>7, Multiples DEF n
<1> QED BY <1>3, <1>6, <1>8 DEF n

\* Of two blocks that overlap the smaller lies within the larger.
LEMMA Nested ==
  ASSUME NEW j \in Nat, NEW k \in Nat, j <= k, NEW a \in Nat, NEW b \in Nat,
         is_aligned(a, j), is_aligned(b, k), NEW p \in Nat,
         p \in PageRange(a, Pow2[j]), p \in PageRange(b, Pow2[k])
  PROVE  b <= a /\ a + Pow2[j] <= b + Pow2[k]
<1> DEFINE s == Pow2[j]
           t == Pow2[k]
<1>1. s \in Nat \ {0} /\ t \in Nat \ {0} BY Pow2Type
<1>2. PICK x \in Nat : a = s * x BY AlignedMultiple
<1>3. PICK y \in Nat : b = t * y BY AlignedMultiple
<1>4. PICK m \in Nat \ {0} : t = s * m BY Pow2Multiple
<1>5. a <= p /\ p < a + s /\ b <= p /\ p < b + t BY <1>1 DEF PageRange
<1> HIDE DEF s, t
<1> DEFINE u == m * y
           v == m * y + m
<1>6. b = s * u /\ b + t = s * v /\ u \in Nat /\ v \in Nat BY <1>1, <1>3, <1>4, SMT
<1> HIDE DEF u, v
<1>7. ~(x < u)
  <2> SUFFICES ASSUME x < u PROVE FALSE OBVIOUS
  <2>1. s * x + s <= s * u BY <1>1, <1>6, Multiples
  <2> QED BY <1>1, <1>2, <1>5, <1>6, <2>1
<1>8. ~(v <= x)
  <2> SUFFICES ASSUME v <= x PROVE FALSE OBVIOUS
  <2>1. CASE v = x BY <1>1, <1>2, <1>5, <1>6, <2>1
  <2>2. CASE v < x
    <3>1. s * v + s <= s * x BY <1>1, <1>6, <2>2, Multiples
    <3> QED BY <1>1, <1>2, <1>5, <1>6, <3>1
  <2> QED BY <1>6, <2>1, <2>2
<1>9. b <= a
  <2>1. CASE u = x BY <1>2, <1>6, <2>1
  <2>2. CASE u < x
    <3>1. s * u + s <= s * x BY <1>1, <1>6, <2>2, Multiples
    <3> QED BY <1>1, <1>2, <1>6, <3>1
  <2> QED BY <1>6, <1>7, <2>1, <2>2
<1>10. s * x + s <= s * v BY <1>1, <1>6, <1>8, Multiples
<1> QED BY <1>1, <1>2, <1>6, <1>9, <1>10 DEF s, t

\* The first numbers of two buddies, and how many pairs of them a class has
LowerHalf(i, k) == Pow2[k + 1] * i
UpperHalf(i, k) == Pow2[k + 1] * i + Pow2[k]
Pairs(k) == 0 .. PageCount \div Pow2[k + 1] - 1

\* Both halves of a block are blocks of the class below.
LEMMA Halves ==
  ASSUME NEW k \in Nat, NEW p \in Nat, is_aligned(p, k + 1)
  PROVE  is_aligned(p, k) /\ is_aligned(p + Pow2[k], k)
<1>1. Pow2[k] \in Nat \ {0} /\ Pow2[k + 1] = 2 * Pow2[k] BY Pow2Type
<1>2. PICK q \in Nat : p = Pow2[k + 1] * q BY AlignedMultiple
<1>3. p = Pow2[k] * (2 * q) /\ p + Pow2[k] = Pow2[k] * (2 * q + 1) BY <1>1, <1>2, SMT
<1>4. 2 * q \in Nat /\ 2 * q + 1 \in Nat /\ p + Pow2[k] \in Nat BY <1>1
<1>5. \E x \in Nat : p = Pow2[k] * x BY <1>3, <1>4
<1>6. \E x \in Nat : p + Pow2[k] = Pow2[k] * x BY <1>3, <1>4
<1> QED BY <1>4, <1>5, <1>6, AlignedMultiple

\* buddy_info: a block is one half of its pair, and the buddy is the other.
LEMMA BuddyPair ==
  ASSUME NEW k \in BuddyClasses, NEW p \in Pages, is_aligned(p, k)
  PROVE  LET i == BuddyIndex(p, k) IN
         /\ i \in Pairs(k) /\ i \in Nat
         /\ \/ p = LowerHalf(i, k) /\ Buddy(p, k) = UpperHalf(i, k)
            \/ p = UpperHalf(i, k) /\ Buddy(p, k) = LowerHalf(i, k)
<1> DEFINE s == Pow2[k]
           t == Pow2[k + 1]
           i == p \div t
<1>1. k \in Nat /\ k + 1 \in Nat /\ k \in Classes /\ k + 1 \in Classes /\ s \in Nat \ {0} /\ t = 2 * s BY ClassFacts
<1>2. PageCount \in Nat /\ p \in Nat /\ p < PageCount BY PageCountAssumption DEF Pages
<1>3. PICK q \in Nat : p = s * q BY <1>1, <1>2, AlignedMultiple
<1> HIDE DEF s, t
<1>4. p \div s = q
  <2>1. (s * q + 0) \div s = q BY <1>1, Unique
  <2>2. s * q + 0 = s * q BY <1>1, SMT
  <2> QED BY <1>3, <2>1, <2>2
<1>5. PICK h \in Nat : q = 2 * h \/ q = 2 * h + 1
  <2>1. q \div 2 \in Nat /\ q % 2 \in Nat /\ q = 2 * (q \div 2) + (q % 2) /\ q % 2 < 2 BY Division
  <2> QED BY <2>1
<1>6. q = 2 * h => q % 2 = 0 BY <1>5
<1>7. q = 2 * h + 1 => q % 2 = 1 BY <1>5
<1>8. t * h \in Nat /\ (q = 2 * h => p = t * h + 0) /\ (q = 2 * h + 1 => p = t * h + s)
  BY <1>1, <1>3, SMT
<1>9. s \in 0 .. t - 1 /\ 0 \in 0 .. t - 1 /\ t \in Nat \ {0} BY <1>1
<1>10. i = h BY <1>5, <1>8, <1>9, Unique
<1>11. Buddy(p, k) = IF (p \div s) % 2 = 0 THEN p + s ELSE p - s BY DEF Buddy, s
<1>12. \/ p = t * h /\ Buddy(p, k) = t * h + s
       \/ p = t * h + s /\ Buddy(p, k) = t * h
  BY <1>1, <1>4, <1>5, <1>6, <1>7, <1>8, <1>11
<1>13. i \in Pairs(k)
  <2>1. t * h \in Pages BY <1>1, <1>2, <1>8, <1>12 DEF Pages
  <2>2. is_aligned(t * h, k + 1) BY <1>1, <1>8, AlignedMultiple DEF t
  <2>3. t * h + t <= PageCount BY <1>1, <2>1, <2>2, Fits DEF t
  <2> DEFINE c == PageCount \div t
  <2>4. c \in Nat /\ PageCount % t \in Nat /\ PageCount = t * c + (PageCount % t) /\ PageCount % t < t
    BY <1>2, <1>9, Division
  <2> HIDE DEF c
  <2>5. t * c \in Nat BY <1>9, <2>4, SMT
  <2>6. ~(c <= h)
    <3> SUFFICES ASSUME c <= h PROVE FALSE OBVIOUS
    <3>1. t * c <= t * h
      <4>1. CASE c = h BY <1>8, <4>1
      <4>2. CASE c < h
        <5>1. t * c + t <= t * h BY <1>9, <2>4, <4>2, Multiples
        <5> QED BY <1>8, <1>9, <2>5, <5>1
      <4> QED BY <2>4, <4>1, <4>2
    <3> QED BY <1>8, <1>9, <2>3, <2>4, <2>5, <3>1
  <2>7. h \in 0 .. c - 1 BY <2>4, <2>6
  <2> QED BY <1>10, <2>7 DEF Pairs, c, t
<1> QED BY <1>10, <1>12, <1>13 DEF LowerHalf, UpperHalf, BuddyIndex, t, s

\* The halves of a pair are blocks that make up a block of the next class.
LEMMA PairBlock ==
  ASSUME NEW k \in BuddyClasses, NEW i \in Pairs(k)
  PROVE  /\ LowerHalf(i, k) \in Pages /\ UpperHalf(i, k) \in Pages
         /\ UpperHalf(i, k) = LowerHalf(i, k) + Pow2[k]
         /\ is_aligned(LowerHalf(i, k), k + 1)
         /\ is_aligned(LowerHalf(i, k), k) /\ is_aligned(UpperHalf(i, k), k)
         /\ BuddyIndex(LowerHalf(i, k), k) = i /\ BuddyIndex(UpperHalf(i, k), k) = i
         /\ Buddy(LowerHalf(i, k), k) = UpperHalf(i, k) /\ Buddy(UpperHalf(i, k), k) = LowerHalf(i, k)
<1> DEFINE s == Pow2[k]
           t == Pow2[k + 1]
           c == PageCount \div t
<1>1. k \in Nat /\ k + 1 \in Nat /\ s \in Nat \ {0} /\ t = 2 * s BY ClassFacts
<1>2. PageCount \in Nat BY PageCountAssumption
<1>3. t \in Nat \ {0} /\ s \in 0 .. t - 1 /\ 0 \in 0 .. t - 1 BY <1>1
<1>4. c \in Nat /\ PageCount % t \in Nat /\ PageCount = t * c + (PageCount % t) BY <1>2, <1>3, Division
<1>5. i \in Nat /\ i < c BY <1>4 DEF Pairs
<1> HIDE DEF s, t, c
<1>6. t * i + t <= t * c /\ t * i \in Nat BY <1>3, <1>4, <1>5, Multiples
<1>7. t * c \in Nat BY <1>3, <1>4, SMT
<1>8. t * i + s \in Nat /\ t * i + s < PageCount BY <1>1, <1>2, <1>4, <1>6, <1>7
<1>9. t * i \in Pages /\ t * i + s \in Pages BY <1>1, <1>2, <1>6, <1>8 DEF Pages
<1>10. is_aligned(t * i, k + 1) BY <1>1, <1>5, <1>6, AlignedMultiple DEF t
<1>11. is_aligned(t * i, k) /\ is_aligned(t * i + s, k) BY <1>1, <1>6, <1>10, Halves DEF s
<1>12. (t * i + 0) \div t = i /\ (t * i + s) \div t = i BY <1>3, <1>5, Unique
<1>13. t * i + 0 = t * i BY <1>6
<1>14. BuddyIndex(t * i, k) = i /\ BuddyIndex(t * i + s, k) = i
  BY <1>12, <1>13 DEF BuddyIndex, t
<1>15. Buddy(t * i, k) = t * i + s /\ Buddy(t * i + s, k) = t * i
  <2>1. \/ t * i = t * i /\ Buddy(t * i, k) = t * i + s
        \/ t * i = t * i + s /\ Buddy(t * i, k) = t * i
    BY <1>9, <1>11, <1>14, BuddyPair DEF LowerHalf, UpperHalf, s, t
  <2>2. \/ t * i + s = t * i /\ Buddy(t * i + s, k) = t * i + s
        \/ t * i + s = t * i + s /\ Buddy(t * i + s, k) = t * i
    BY <1>9, <1>11, <1>14, BuddyPair DEF LowerHalf, UpperHalf, s, t
  <2>3. t * i + s # t * i BY <1>1, <1>6
  <2> QED BY <2>1, <2>2, <2>3
<1> QED BY <1>9, <1>10, <1>11, <1>14, <1>15 DEF LowerHalf, UpperHalf, s, t

-----------------------------------------------------------------------------
(* The free lists.  A free list of class k is a set of blocks B[k] whose   *)
(* links agree; ranks that fall along the links keep it from being a ring. *)

\* The links of the blocks of every class form a list.
Linked(B, rank) ==
  \A k \in Classes :
    /\ freelist[k] # NULL => freelist[k] \in B[k]
    /\ \A b \in B[k] :
         /\ tag[b] = k
         /\ next[b] \in B[k] \cup {NULL} /\ prev[b] \in B[k] \cup {NULL}
         /\ next[b] # NULL => prev[next[b]] = b /\ rank[next[b]] < rank[b]
         /\ prev[b] # NULL => next[prev[b]] = b
         /\ prev[b] = NULL <=> b = freelist[k]

\* The types of the fields
LinkTypes ==
  /\ freelist \in [Classes -> Pages \cup {NULL}]
  /\ next \in [Pages -> Pages \cup {NULL, Garbage}] /\ prev \in [Pages -> Pages \cup {NULL, Garbage}]
  /\ tag \in [Pages -> Classes \cup {Garbage}]

\* NULL is no page.
LEMMA NullIsNoPage == NULL \notin Pages /\ Garbage \notin Pages /\ Garbage # NULL
  BY DEF NULL, Garbage, Pages

\* pop_freelist takes the first block off its list.
LEMMA Popped ==
  ASSUME NEW B \in [Classes -> SUBSET Pages], NEW rank \in [Pages -> Nat], NEW k \in Classes,
         LinkTypes, Linked(B, rank), pop_freelist(k),
         NEW C \in [Classes -> SUBSET Pages], C = [B EXCEPT ![k] = @ \ {freelist[k]}]
  PROVE  LinkTypes' /\ Linked(C, rank)'
<1> DEFINE b == freelist[k]
           second == next[b]
<1>1. b \in B[k] /\ b \in Pages /\ b # NULL BY NullIsNoPage DEF pop_freelist, PopAsserts, Linked, LinkTypes
<1>2. second \in B[k] \cup {NULL} /\ (second # NULL => prev[second] = b /\ second # b)
  BY <1>1 DEF Linked
<1>3. /\ freelist' = [freelist EXCEPT ![k] = second]
      /\ prev' = [p \in Pages |-> IF p = second THEN NULL ELSE prev[p]]
      /\ next' = next /\ tag' = tag
  BY DEF pop_freelist
<1>4. LinkTypes' BY <1>2, <1>3 DEF LinkTypes
<1> HIDE DEF second, b
<1>5. ASSUME NEW j \in Classes
      PROVE  /\ freelist'[j] # NULL => freelist'[j] \in C[j]
             /\ \A a \in C[j] :
                  /\ tag'[a] = j
                  /\ next'[a] \in C[j] \cup {NULL} /\ prev'[a] \in C[j] \cup {NULL}
                  /\ next'[a] # NULL => prev'[next'[a]] = a /\ rank[next'[a]] < rank[a]
                  /\ prev'[a] # NULL => next'[prev'[a]] = a
                  /\ prev'[a] = NULL <=> a = freelist'[j]
  <2>1. CASE j # k
    <3>1. C[j] = B[j] /\ freelist'[j] = freelist[j] BY <1>3, <2>1 DEF LinkTypes
    <3>2. second # NULL => second \notin B[j] BY <1>2, <2>1 DEF Linked
    <3>3. \A a \in B[j] : prev'[a] = prev[a] /\ a \in Pages BY <1>3, <3>2, NullIsNoPage
    <3>4. ASSUME NEW a \in B[j]
          PROVE  /\ tag[a] = j /\ next[a] \in B[j] \cup {NULL} /\ prev[a] \in B[j] \cup {NULL}
                 /\ next[a] # NULL => prev[next[a]] = a /\ rank[next[a]] < rank[a]
                 /\ prev[a] # NULL => next[prev[a]] = a
                 /\ prev[a] = NULL <=> a = freelist[j]
      BY DEF Linked
    <3>5. freelist[j] # NULL => freelist[j] \in B[j] BY DEF Linked
    <3> QED BY <1>3, <3>1, <3>3, <3>4, <3>5
  <2>2. CASE j = k
    <3>1. C[j] = B[k] \ {b} BY <2>2 DEF b
    <3>2. freelist'[j] = second BY <1>3, <2>2 DEF LinkTypes
    <3>3. freelist'[j] # NULL => freelist'[j] \in C[j] BY <1>2, <3>1, <3>2
    <3>4. ASSUME NEW a \in C[j]
          PROVE  /\ tag'[a] = j
                 /\ next'[a] \in C[j] \cup {NULL} /\ prev'[a] \in C[j] \cup {NULL}
                 /\ next'[a] # NULL => prev'[next'[a]] = a /\ rank[next'[a]] < rank[a]
                 /\ prev'[a] # NULL => next'[prev'[a]] = a
                 /\ prev'[a] = NULL <=> a = freelist'[j]
      <4>1. a \in B[k] /\ a # b /\ a \in Pages BY <3>1
      <4>2. /\ tag[a] = k /\ next[a] \in B[k] \cup {NULL} /\ prev[a] \in B[k] \cup {NULL}
            /\ next[a] # NULL => prev[next[a]] = a /\ rank[next[a]] < rank[a]
            /\ prev[a] # NULL => next[prev[a]] = a
            /\ prev[a] = NULL <=> a = b
        BY <4>1 DEF Linked, b
      <4>3. prev[b] = NULL BY <1>1 DEF Linked, b
      <4>4. next[a] # b BY <1>1, <4>1, <4>2, <4>3, NullIsNoPage
      <4>5. next[a] # second \/ next[a] = NULL
        BY <1>2, <4>1, <4>2
      <4>6. prev'[a] = IF a = second THEN NULL ELSE prev[a] BY <1>3, <4>1
      <4>7. a # second => prev[a] # b BY <1>1, <4>1, <4>2, NullIsNoPage DEF second
      <4>8. next[a] # NULL => prev'[next[a]] = prev[next[a]] BY <1>3, <4>2, <4>5
      <4> QED BY <1>2, <1>3, <2>2, <3>1, <3>2, <4>1, <4>2, <4>4, <4>6, <4>7, <4>8
    <3> QED BY <3>3, <3>4
  <2> QED BY <2>1, <2>2
<1> QED BY <1>4, <1>5 DEF Linked

\* remove_from_freelist takes a block out of its list.
LEMMA Removed ==
  ASSUME NEW B \in [Classes -> SUBSET Pages], NEW rank \in [Pages -> Nat], NEW k \in Classes,
         NEW p \in B[k], LinkTypes, Linked(B, rank), remove_from_freelist(p, k),
         NEW C \in [Classes -> SUBSET Pages], C = [B EXCEPT ![k] = @ \ {p}]
  PROVE  LinkTypes' /\ Linked(C, rank)'
<1> DEFINE n == next[p]
           q == prev[p]
<1>1. /\ p \in Pages /\ n \in B[k] \cup {NULL} /\ q \in B[k] \cup {NULL}
      /\ n # NULL => prev[n] = p /\ rank[n] < rank[p]
      /\ q # NULL => next[q] = p /\ rank[p] < rank[q]
      /\ q = NULL <=> p = freelist[k]
  <2>1. /\ p \in Pages /\ n \in B[k] \cup {NULL} /\ q \in B[k] \cup {NULL}
        /\ n # NULL => prev[n] = p /\ rank[n] < rank[p]
        /\ q # NULL => next[q] = p
        /\ q = NULL <=> p = freelist[k]
    BY DEF Linked
  <2>2. ASSUME NEW b \in B[k], next[b] = p PROVE rank[p] < rank[b]
    BY <2>1, <2>2, NullIsNoPage DEF Linked
  <2> HIDE DEF n, q
  <2> QED BY <2>1, <2>2
<1>2. /\ prev' = [x \in Pages |-> IF x = n THEN q ELSE prev[x]]
      /\ next' = [x \in Pages |-> IF x = q THEN n ELSE next[x]]
      /\ freelist' = IF q = NULL THEN [freelist EXCEPT ![k] = n] ELSE freelist
      /\ tag' = tag
  BY DEF remove_from_freelist
<1> HIDE DEF n, q
<1>3. LinkTypes' BY <1>1, <1>2 DEF LinkTypes
<1>4. ASSUME NEW j \in Classes
      PROVE  /\ freelist'[j] # NULL => freelist'[j] \in C[j]
             /\ \A a \in C[j] :
                  /\ tag'[a] = j
                  /\ next'[a] \in C[j] \cup {NULL} /\ prev'[a] \in C[j] \cup {NULL}
                  /\ next'[a] # NULL => prev'[next'[a]] = a /\ rank[next'[a]] < rank[a]
                  /\ prev'[a] # NULL => next'[prev'[a]] = a
                  /\ prev'[a] = NULL <=> a = freelist'[j]
  <2>1. CASE j # k
    <3>1. C[j] = B[j] /\ freelist'[j] = freelist[j] BY <1>2, <2>1 DEF LinkTypes
    <3>2. (n # NULL => n \notin B[j]) /\ (q # NULL => q \notin B[j]) BY <1>1, <2>1 DEF Linked
    <3>3. \A a \in B[j] : prev'[a] = prev[a] /\ next'[a] = next[a] /\ a \in Pages
      BY <1>2, <3>2, NullIsNoPage
    <3>4. ASSUME NEW a \in B[j]
          PROVE  /\ tag[a] = j /\ next[a] \in B[j] \cup {NULL} /\ prev[a] \in B[j] \cup {NULL}
                 /\ next[a] # NULL => prev[next[a]] = a /\ rank[next[a]] < rank[a]
                 /\ prev[a] # NULL => next[prev[a]] = a
                 /\ prev[a] = NULL <=> a = freelist[j]
      BY DEF Linked
    <3>5. freelist[j] # NULL => freelist[j] \in B[j] BY DEF Linked
    <3>6. tag' = tag BY <1>2
    <3> QED BY <3>1, <3>3, <3>4, <3>5, <3>6
  <2>2. CASE j = k
    <3>1. C[j] = B[k] \ {p} BY <2>2
    <3>2. freelist'[j] = IF q = NULL THEN n ELSE freelist[k] BY <1>2, <2>2 DEF LinkTypes
    <3>3. n # p /\ q # p BY <1>1, NullIsNoPage
    <3>4. freelist'[j] # NULL => freelist'[j] \in C[j] BY <1>1, <3>1, <3>2, <3>3 DEF Linked
    <3>5. ASSUME NEW a \in C[j]
          PROVE  /\ tag'[a] = j
                 /\ next'[a] \in C[j] \cup {NULL} /\ prev'[a] \in C[j] \cup {NULL}
                 /\ next'[a] # NULL => prev'[next'[a]] = a /\ rank[next'[a]] < rank[a]
                 /\ prev'[a] # NULL => next'[prev'[a]] = a
                 /\ prev'[a] = NULL <=> a = freelist'[j]
      <4>1. a \in B[k] /\ a # p /\ a \in Pages BY <3>1
      <4>2. /\ tag[a] = k /\ next[a] \in B[k] \cup {NULL} /\ prev[a] \in B[k] \cup {NULL}
            /\ next[a] # NULL => prev[next[a]] = a /\ rank[next[a]] < rank[a]
            /\ prev[a] # NULL => next[prev[a]] = a
            /\ prev[a] = NULL <=> a = freelist[k]
        BY <4>1 DEF Linked
      <4>3. prev'[a] = (IF a = n THEN q ELSE prev[a]) /\ next'[a] = (IF a = q THEN n ELSE next[a])
        BY <1>2, <4>1
      <4>4. next[a] = p <=> a = q BY <1>1, <4>1, <4>2, NullIsNoPage DEF q
      <4>5. prev[a] = p <=> a = n BY <1>1, <4>1, <4>2, NullIsNoPage DEF n
      <4>6. next'[a] \in C[j] \cup {NULL} /\ prev'[a] \in C[j] \cup {NULL}
        BY <1>1, <3>1, <3>3, <4>2, <4>3, <4>4, <4>5
      <4>7. next'[a] # NULL => prev'[next'[a]] = a /\ rank[next'[a]] < rank[a]
        <5>1. CASE a = q
          <6>1. n # NULL => n \in Pages /\ prev'[n] = q BY <1>1, <1>2
          <6>2. n # NULL => rank[n] < rank[p] /\ rank[p] < rank[q] /\ n \in Pages /\ q \in Pages
            BY <1>1, <4>1, <5>1, NullIsNoPage
          <6>3. n # NULL => rank[n] < rank[q] BY <1>1, <6>2
          <6> QED BY <4>3, <5>1, <6>1, <6>3
        <5>2. CASE a # q
          <6>1. next'[a] = next[a] /\ next[a] # p BY <4>3, <4>4, <5>2
          <6>2. next[a] # NULL => next[a] # n BY <1>1, <4>1, <4>2, <6>1
          <6>3. next[a] # NULL => next[a] \in Pages /\ prev'[next[a]] = prev[next[a]] BY <1>2, <4>2, <6>2
          <6> QED BY <4>2, <6>1, <6>3
        <5> QED BY <5>1, <5>2
      <4>8. prev'[a] # NULL => next'[prev'[a]] = a
        <5>1. CASE a = n
          <6>1. q # NULL => q \in Pages /\ next'[q] = n BY <1>1, <1>2
          <6> QED BY <4>3, <5>1, <6>1
        <5>2. CASE a # n
          <6>1. prev'[a] = prev[a] /\ prev[a] # p BY <4>3, <4>5, <5>2
          <6>2. prev[a] # NULL => prev[a] # q BY <1>1, <4>1, <4>2, <6>1
          <6>3. prev[a] # NULL => prev[a] \in Pages /\ next'[prev[a]] = next[prev[a]] BY <1>2, <4>2, <6>2
          <6> QED BY <4>2, <6>1, <6>3
        <5> QED BY <5>1, <5>2
      <4>9. prev'[a] = NULL <=> a = freelist'[j]
        BY <1>1, <3>2, <4>1, <4>2, <4>3, <4>5, NullIsNoPage
      <4> QED BY <1>2, <2>2, <4>2, <4>6, <4>7, <4>8, <4>9
    <3> QED BY <3>4, <3>5
  <2> QED BY <2>1, <2>2
<1> QED BY <1>3, <1>4 DEF Linked

\* add_to_freelist puts a block that is on no list at the front of its list.
LEMMA Added ==
  ASSUME NEW B \in [Classes -> SUBSET Pages], NEW rank \in [Pages -> Nat], NEW k \in Classes,
         NEW p \in Pages, \A j \in Classes : p \notin B[j],
         LinkTypes, Linked(B, rank), add_to_freelist(p, k),
         NEW C \in [Classes -> SUBSET Pages], C = [B EXCEPT ![k] = @ \cup {p}]
  PROVE  LinkTypes' /\ \E s \in [Pages -> Nat] : Linked(C, s)'
<1> DEFINE h == freelist[k]
<1>1. h \in B[k] \cup {NULL} /\ h \in Pages \cup {NULL} /\ h # p BY NullIsNoPage DEF Linked, LinkTypes
<1>2. /\ tag' = [tag EXCEPT ![p] = k]
      /\ prev' = [q \in Pages |-> IF q = h THEN p ELSE IF q = p THEN NULL ELSE prev[q]]
      /\ next' = [next EXCEPT ![p] = h]
      /\ freelist' = [freelist EXCEPT ![k] = p]
  <2>1. ASSUME NEW q \in Pages
        PROVE  (CASE q = h -> p [] q = p -> NULL [] OTHER -> prev[q])
                 = IF q = h THEN p ELSE IF q = p THEN NULL ELSE prev[q]
    BY <1>1
  <2> QED BY <2>1 DEF add_to_freelist
<1> HIDE DEF h
<1>3. LinkTypes' BY <1>1, <1>2 DEF LinkTypes
<1>4. PICK s \in [Pages -> Nat] :
        /\ s = [rank EXCEPT ![p] = IF h = NULL THEN 0 ELSE rank[h] + 1]
  <2>1. h # NULL => rank[h] + 1 \in Nat BY <1>1
  <2>2. [rank EXCEPT ![p] = IF h = NULL THEN 0 ELSE rank[h] + 1] \in [Pages -> Nat] BY <2>1
  <2> QED BY <2>2
<1>5. (\A a \in Pages : a # p => s[a] = rank[a]) /\ (h # NULL => s[h] < s[p]) BY <1>1, <1>4
<1>6. ASSUME NEW j \in Classes
      PROVE  /\ freelist'[j] # NULL => freelist'[j] \in C[j]
             /\ \A a \in C[j] :
                  /\ tag'[a] = j
                  /\ next'[a] \in C[j] \cup {NULL} /\ prev'[a] \in C[j] \cup {NULL}
                  /\ next'[a] # NULL => prev'[next'[a]] = a /\ s[next'[a]] < s[a]
                  /\ prev'[a] # NULL => next'[prev'[a]] = a
                  /\ prev'[a] = NULL <=> a = freelist'[j]
  <2>0. ASSUME NEW a \in B[j]
        PROVE  /\ a \in Pages /\ a # p
               /\ tag[a] = j /\ next[a] \in B[j] \cup {NULL} /\ prev[a] \in B[j] \cup {NULL}
               /\ next[a] # NULL => prev[next[a]] = a /\ rank[next[a]] < rank[a] /\ next[a] # p
               /\ prev[a] # NULL => next[prev[a]] = a /\ prev[a] # p
               /\ prev[a] = NULL <=> a = freelist[j]
    BY DEF Linked
  <2>1. CASE j # k
    <3>1. C[j] = B[j] /\ freelist'[j] = freelist[j] BY <1>2, <2>1 DEF LinkTypes
    <3>2. h # NULL => h \notin B[j] BY <1>1, <2>1 DEF Linked
    <3>3. ASSUME NEW a \in B[j] PROVE prev'[a] = prev[a] /\ next'[a] = next[a] /\ tag'[a] = tag[a] /\ s[a] = rank[a]
      BY <1>2, <1>5, <2>0, <3>2, NullIsNoPage DEF LinkTypes
    <3>4. freelist[j] # NULL => freelist[j] \in B[j] BY DEF Linked
    <3> QED BY <2>0, <3>1, <3>3, <3>4
  <2>2. CASE j = k
    <3>1. C[j] = B[k] \cup {p} /\ freelist'[j] = p BY <1>2, <2>2 DEF LinkTypes
    <3>2. /\ tag'[p] = k /\ next'[p] = h /\ prev'[p] = NULL
          /\ h # NULL => prev'[h] = p
      BY <1>1, <1>2 DEF LinkTypes
    <3>3. ASSUME NEW a \in B[k]
          PROVE  /\ tag'[a] = k /\ next'[a] = next[a] /\ s[a] = rank[a] /\ a # p /\ a \in Pages
                 /\ prev'[a] = IF a = h THEN p ELSE prev[a]
      BY <1>2, <1>5, <2>0, <2>2 DEF LinkTypes
    <3>4. ASSUME NEW a \in B[k]
          PROVE  /\ next'[a] # NULL => prev'[next'[a]] = a /\ s[next'[a]] < s[a]
                 /\ prev'[a] # NULL => next'[prev'[a]] = a
                 /\ prev'[a] # NULL
                 /\ next'[a] \in C[j] \cup {NULL} /\ prev'[a] \in C[j] \cup {NULL}
      <4>1. /\ next[a] \in B[k] \cup {NULL} /\ prev[a] \in B[k] \cup {NULL}
            /\ next[a] # NULL => prev[next[a]] = a /\ rank[next[a]] < rank[a]
            /\ prev[a] # NULL => next[prev[a]] = a
            /\ prev[a] = NULL <=> a = h
        BY <2>0, <2>2 DEF h
      <4>2. h # NULL => prev[h] = NULL BY <1>1 DEF Linked, h
      <4>3. next[a] # NULL => next[a] # h BY <3>3, <4>1, <4>2, NullIsNoPage
      <4> QED BY <3>1, <3>2, <3>3, <4>1, <4>3, NullIsNoPage
    <3>5. h # NULL => s[h] < s[p] BY <1>5
    <3> QED BY <1>1, <2>2, <3>1, <3>2, <3>3, <3>4, <3>5
  <2> QED BY <2>1, <2>2
<1>7. Linked(C, s)' BY <1>6 DEF Linked
<1> QED BY <1>3, <1>7

\* A client that writes to pages of no block leaves the lists alone.
LEMMA Overwriting ==
  ASSUME NEW B \in [Classes -> SUBSET Pages], NEW rank \in [Pages -> Nat], NEW S \in SUBSET Pages,
         \A k \in Classes : B[k] \cap S = {},
         LinkTypes, Linked(B, rank), freelist' = freelist,
         next' = [p \in Pages |-> IF p \in S THEN Garbage ELSE next[p]],
         prev' = [p \in Pages |-> IF p \in S THEN Garbage ELSE prev[p]],
         tag' = [p \in Pages |-> IF p \in S THEN Garbage ELSE tag[p]]
  PROVE  LinkTypes' /\ Linked(B, rank)'
<1>1. LinkTypes' BY DEF LinkTypes
<1>2. ASSUME NEW k \in Classes, NEW b \in B[k]
      PROVE  next'[b] = next[b] /\ prev'[b] = prev[b] /\ tag'[b] = tag[b]
  BY <1>2
<1>3. Linked(B, rank)'
  <2>1. ASSUME NEW k \in Classes, NEW b \in B[k]
        PROVE  (next[b] # NULL => next[b] \in B[k]) /\ (prev[b] # NULL => prev[b] \in B[k])
    BY <2>1 DEF Linked
  <2> QED BY <1>2, <2>1 DEF Linked
<1> QED BY <1>1, <1>3

-----------------------------------------------------------------------------
(* What the lists hold *)

\* Among blocks of a list one has the greatest rank.
LEMMA TopRank ==
  ASSUME NEW rank \in [Pages -> Nat], NEW U \in SUBSET Pages, U # {}
  PROVE  \E u \in U : \A v \in U : rank[v] <= rank[u]
<1> DEFINE S == {n \in Nat : \E m \in Nat : \A p \in Pages : p < n => rank[p] <= m}
<1>1. 0 \in S
  <2>1. \A p \in Pages : ~(p < 0) BY PageCountAssumption DEF Pages
  <2> QED BY <2>1
<1>2. ASSUME NEW n \in Nat, n \in S PROVE n + 1 \in S
  <2>1. PICK m \in Nat : \A p \in Pages : p < n => rank[p] <= m BY <1>2
  <2>2. \E l \in Nat : l >= m /\ (n \in Pages => rank[n] <= l)
    <3>1. CASE n \in Pages
      <4>1. rank[n] \in Nat BY <3>1
      <4>2. m + rank[n] \in Nat /\ m + rank[n] >= m /\ rank[n] <= m + rank[n] BY <4>1
      <4> QED BY <4>2
    <3>2. CASE n \notin Pages BY <3>2
    <3> QED BY <3>1, <3>2
  <2>3. PICK l \in Nat : l >= m /\ (n \in Pages => rank[n] <= l) BY <2>2
  <2>4. ASSUME NEW p \in Pages, p < n + 1 PROVE rank[p] <= l
    <3>1. p \in Int /\ rank[p] \in Nat BY PageCountAssumption DEF Pages
    <3>2. CASE p = n BY <2>3, <3>2
    <3>3. CASE p < n BY <2>1, <2>3, <3>1, <3>3
    <3> QED BY <2>4, <3>1, <3>2, <3>3
  <2> QED BY <2>4
<1> HIDE DEF S
<1>3. PageCount \in S BY <1>1, <1>2, SetInduction, PageCountAssumption
<1>4. PICK m \in Nat : \A p \in Pages : p < PageCount => rank[p] <= m BY <1>3 DEF S
<1>5. \A p \in Pages : rank[p] <= m BY <1>4, PageCountAssumption DEF Pages
<1> DEFINE T == {n \in Nat : \E u \in U : n = rank[u]}
<1>6. T \in SUBSET Nat /\ T # {} /\ \A n \in T : n <= m BY <1>5
<1>7. PICK x \in T : \A y \in T : y <= x BY <1>6, Greatest
<1>8. PICK u \in U : x = rank[u] BY <1>7
<1>9. \A v \in U : rank[v] \in T OBVIOUS
<1> QED BY <1>7, <1>8, <1>9

\* A list that is not empty has a first block.
LEMMA HeadExists ==
  ASSUME NEW B \in [Classes -> SUBSET Pages], NEW rank \in [Pages -> Nat], NEW k \in Classes,
         Linked(B, rank), B[k] # {}
  PROVE  freelist[k] \in B[k] /\ freelist[k] # NULL
<1>1. PICK u \in B[k] : \A v \in B[k] : rank[v] <= rank[u] BY TopRank
<1>2. prev[u] = NULL
  <2> SUFFICES ASSUME prev[u] # NULL PROVE FALSE OBVIOUS
  <2>1. prev[u] \in B[k] /\ next[prev[u]] = u BY DEF Linked
  <2>2. next[prev[u]] # NULL => rank[next[prev[u]]] < rank[prev[u]] BY <2>1 DEF Linked
  <2>3. u \in Pages /\ prev[u] \in Pages BY <2>1
  <2>4. rank[u] < rank[prev[u]] BY <2>1, <2>2, <2>3, NullIsNoPage
  <2>5. rank[u] \in Nat /\ rank[prev[u]] \in Nat BY <2>3
  <2> QED BY <1>1, <2>1, <2>4, <2>5
<1>3. u = freelist[k] BY <1>2 DEF Linked
<1> QED BY <1>3, NullIsNoPage

\* Following the links of a list, one pointer after the other.
LEMMA WalkSteps ==
  ASSUME NEW k \in Classes
  PROVE  /\ Walk(k)[0] = freelist[k]
         /\ \A n \in 1 .. PageCount :
              Walk(k)[n] = IF Walk(k)[n - 1] \in Pages THEN next[Walk(k)[n - 1]] ELSE NULL
<1>0. PageCount \in Nat BY PageCountAssumption
<1>1. FiniteNatInductiveDefHypothesis(Walk(k), freelist[k],
        LAMBDA v, n : IF v \in Pages THEN next[v] ELSE NULL, 0, PageCount)
  BY DEF FiniteNatInductiveDefHypothesis, Walk
<1>2. FiniteNatInductiveDefConclusion(Walk(k), freelist[k],
        LAMBDA v, n : IF v \in Pages THEN next[v] ELSE NULL, 0, PageCount)
  BY <1>0, <1>1, FiniteNatInductiveDef
<1> DEFINE w == Walk(k)
<1>3. w = [n \in 0 .. PageCount |-> IF n = 0 THEN freelist[k]
                                    ELSE IF w[n - 1] \in Pages THEN next[w[n - 1]] ELSE NULL]
  BY <1>2 DEF FiniteNatInductiveDefConclusion
<1> HIDE DEF w
<1>4. /\ w[0] = freelist[k]
      /\ \A n \in 1 .. PageCount : w[n] = IF w[n - 1] \in Pages THEN next[w[n - 1]] ELSE NULL
  BY <1>0, <1>3
<1> QED BY <1>4 DEF w

\* The blocks met on a list are the blocks B, and the list ends.
LEMMA BlocksOfList ==
  ASSUME NEW B \in [Classes -> SUBSET Pages], NEW rank \in [Pages -> Nat], NEW k \in Classes,
         LinkTypes, Linked(B, rank)
  PROVE  Walk(k)[PageCount] = NULL /\ Blocks(k) = B[k]
<1> DEFINE w == Walk(k)
<1>0. PageCount \in Nat BY PageCountAssumption
<1>1. /\ w[0] = freelist[k]
      /\ \A n \in 1 .. PageCount : w[n] = IF w[n - 1] \in Pages THEN next[w[n - 1]] ELSE NULL
  BY WalkSteps
<1>2. Blocks(k) = {w[n] : n \in 0 .. PageCount} \ {NULL} BY DEF Blocks
<1> HIDE DEF w
<1> DEFINE S == {n \in Nat : n <= PageCount => w[n] \in B[k] \cup {NULL}}
<1>3. \A n \in 0 .. PageCount : w[n] \in B[k] \cup {NULL}
  <2>1. 0 \in S BY <1>1 DEF Linked
  <2>2. ASSUME NEW n \in Nat, n \in S PROVE n + 1 \in S
    <3> SUFFICES ASSUME n + 1 <= PageCount PROVE w[n + 1] \in B[k] \cup {NULL} OBVIOUS
    <3>1. n + 1 \in 1 .. PageCount /\ (n + 1) - 1 = n BY <1>0
    <3>2. w[n + 1] = IF w[n] \in Pages THEN next[w[n]] ELSE NULL BY <1>1, <3>1
    <3>3. w[n] \in B[k] \cup {NULL} BY <1>0, <2>2
    <3> QED BY <3>2, <3>3, NullIsNoPage DEF Linked
  <2> HIDE DEF S
  <2>3. \A n \in Nat : n \in S BY <2>1, <2>2, SetInduction
  <2> QED BY <1>0, <2>3 DEF S
<1> DEFINE R == {n \in Nat : n <= PageCount => \A m \in 0 .. n - 1 :
                   w[n] # NULL => w[m] # NULL /\ rank[w[n]] < rank[w[m]]}
<1>4. \A n \in 0 .. PageCount : \A m \in 0 .. n - 1 :
        w[n] # NULL => w[m] # NULL /\ rank[w[n]] < rank[w[m]]
  <2>1. 0 \in R OBVIOUS
  <2>2. ASSUME NEW n \in Nat, n \in R PROVE n + 1 \in R
    <3> SUFFICES ASSUME n + 1 <= PageCount, NEW m \in 0 .. n, w[n + 1] # NULL
                 PROVE  w[m] # NULL /\ rank[w[n + 1]] < rank[w[m]]
      OBVIOUS
    <3>1. n + 1 \in 1 .. PageCount /\ (n + 1) - 1 = n /\ n \in 0 .. PageCount /\ n + 1 \in 0 .. PageCount BY <1>0
    <3>2. w[n + 1] = IF w[n] \in Pages THEN next[w[n]] ELSE NULL BY <1>1, <3>1
    <3>3. w[n] \in B[k] /\ w[n + 1] = next[w[n]] BY <1>3, <3>1, <3>2, NullIsNoPage
    <3>4. rank[w[n + 1]] < rank[w[n]] BY <3>3 DEF Linked
    <3>5. w[n + 1] \in B[k] BY <1>3, <3>1
    <3>6. CASE m = n BY <3>3, <3>4, <3>6, NullIsNoPage
    <3>7. CASE m \in 0 .. n - 1
      <4>1. w[n] # NULL BY <3>3, NullIsNoPage
      <4>2. w[m] # NULL /\ rank[w[n]] < rank[w[m]] BY <1>0, <2>2, <3>1, <3>7, <4>1
      <4>3. m \in 0 .. PageCount BY <1>0, <3>1, <3>7
      <4>4. w[m] \in Pages /\ w[n] \in Pages /\ w[n + 1] \in Pages BY <1>3, <3>3, <3>5, <4>2, <4>3
      <4>5. rank[w[m]] \in Nat /\ rank[w[n]] \in Nat /\ rank[w[n + 1]] \in Nat BY <4>4
      <4> QED BY <3>4, <4>2, <4>5
    <3> QED BY <3>6, <3>7
  <2> HIDE DEF R
  <2>3. \A n \in Nat : n \in R BY <2>1, <2>2, SetInduction
  <2> QED BY <1>0, <2>3 DEF R
<1>5. w[PageCount] = NULL
  <2> SUFFICES ASSUME w[PageCount] # NULL PROVE FALSE OBVIOUS
  <2>1. ASSUME NEW m \in 0 .. PageCount PROVE w[m] \in Pages
    <3>1. PageCount \in 0 .. PageCount BY <1>0
    <3>2. CASE m = PageCount BY <1>3, <3>1, <3>2
    <3>3. CASE m \in 0 .. PageCount - 1 BY <1>3, <1>4, <3>1, <3>3
    <3> QED BY <1>0, <3>2, <3>3
  <2> DEFINE f == [m \in 0 .. PageCount |-> w[m]]
  <2>2. f \in [0 .. PageCount -> Pages] BY <2>1
  <2>3. IsFiniteSet(0 .. PageCount) /\ Cardinality(0 .. PageCount) = PageCount + 1
    BY <1>0, FS_Interval
  <2>4. IsFiniteSet(Pages) /\ Cardinality(Pages) = PageCount
    <3>1. IsFiniteSet(0 .. PageCount - 1)
          /\ Cardinality(0 .. PageCount - 1) = IF 0 > PageCount - 1 THEN 0 ELSE PageCount - 1 - 0 + 1
      BY <1>0, FS_Interval
    <3> QED BY <1>0, <3>1 DEF Pages
  <2> HIDE DEF f
  <2>5. Cardinality(Pages) < Cardinality(0 .. PageCount) BY <1>0, <2>3, <2>4
  <2>6. PICK x, y \in 0 .. PageCount : x # y /\ f[x] = f[y]
    <3> DEFINE D == 0 .. PageCount
    <3>1. IsFiniteSet(D) /\ IsFiniteSet(Pages) BY <2>3, <2>4
    <3>2. f \in [D -> Pages] /\ Cardinality(Pages) < Cardinality(D) BY <2>2, <2>5
    <3> HIDE DEF D
    <3>3. \E x, y \in D : x # y /\ f[x] = f[y] BY <3>1, <3>2, FS_PigeonHole
    <3> QED BY <3>3 DEF D
  <2>7. w[x] = w[y] BY <2>6 DEF f
  <2>8. rank[w[x]] \in Nat /\ rank[w[y]] \in Nat /\ w[x] # NULL /\ w[y] # NULL BY <2>1, NullIsNoPage
  <2>9. CASE x < y
    <3>1. x \in 0 .. y - 1 BY <1>0, <2>9
    <3> QED BY <1>4, <2>7, <2>8, <3>1
  <2>10. CASE y < x
    <3>1. y \in 0 .. x - 1 BY <1>0, <2>10
    <3> QED BY <1>4, <2>7, <2>8, <3>1
  <2> QED BY <1>0, <2>6, <2>9, <2>10
<1>6. B[k] \subseteq {w[n] : n \in 0 .. PageCount}
  <2> DEFINE U == B[k] \ {w[n] : n \in 0 .. PageCount}
  <2> SUFFICES ASSUME U # {} PROVE FALSE OBVIOUS
  <2>1. PICK u \in U : \A v \in U : rank[v] <= rank[u] BY TopRank
  <2>2. u # freelist[k] BY <1>0, <1>1, <2>1
  <2>3. prev[u] # NULL /\ prev[u] \in B[k] /\ next[prev[u]] = u BY <2>1, <2>2 DEF Linked
  <2>4. u \in Pages /\ prev[u] \in Pages BY <2>1, <2>3
  <2>5. rank[u] < rank[prev[u]] BY <2>3, <2>4, NullIsNoPage DEF Linked
  <2>6. rank[u] \in Nat /\ rank[prev[u]] \in Nat BY <2>4
  <2>7. prev[u] \notin U BY <2>1, <2>5, <2>6
  <2>8. PICK n \in 0 .. PageCount : prev[u] = w[n] BY <2>3, <2>7
  <2>9. n # PageCount BY <1>5, <2>3, <2>8
  <2>10. n + 1 \in 1 .. PageCount /\ n + 1 \in 0 .. PageCount /\ (n + 1) - 1 = n BY <1>0, <2>9
  <2>11. w[n + 1] = u BY <1>1, <2>3, <2>4, <2>8, <2>10
  <2> QED BY <2>1, <2>10, <2>11
<1>7. Blocks(k) = B[k] BY <1>2, <1>3, <1>6, NullIsNoPage
<1> QED BY <1>5, <1>7 DEF w

-----------------------------------------------------------------------------
(* The inductive invariant.  B are the blocks on the lists.                *)

\* The pages of the blocks
Covered(B) == {p \in Pages : \E k \in Classes : \E b \in B[k] : p \in PageRange(b, Pow2[k])}

\* Blocks are aligned to their size ...
Placed(B) ==
  /\ B \in [Classes -> SUBSET Pages]
  /\ \A k \in Classes : \A b \in B[k] : is_aligned(b, k)

\* ... and do not overlap.
Apart(B) ==
  \A j, k \in Classes : \A a \in B[j], b \in B[k] :
    PageRange(a, Pow2[j]) \cap PageRange(b, Pow2[k]) # {} => j = k /\ a = b

\* A bit says that one of two buddies is listed, and never are both.
BitsMatch(B) ==
  \A k \in BuddyClasses : \A i \in Pairs(k) :
    /\ i \in buddies[k] <=> (LowerHalf(i, k) \in B[k] \/ UpperHalf(i, k) \in B[k])
    /\ ~(LowerHalf(i, k) \in B[k] /\ UpperHalf(i, k) \in B[k])

\* The pages that the call in progress takes from free memory or brings back
Busy == IF pc \in {"split", "return", "release"} THEN PageRange(begin, count) ELSE {}

\* Those of the block in hand, which is on no list
Loose ==
  IF pc = "split" THEN begin + count .. page + Pow2[class] - 1
  ELSE IF pc = "release" /\ remaining > 0 THEN PageRange(page, Pow2[class])
  ELSE {}

\* Those brought back so far
Claimed == IF pc = "release" THEN begin .. (IF remaining > 0 THEN Current ELSE Current - 1) ELSE {}

Shape(B, rank) == Placed(B) /\ Apart(B) /\ Linked(B, rank) /\ BitsMatch(B)

Coverage(B) ==
  /\ Covered(B) \cup Loose = free_pages \cup Claimed
  /\ Covered(B) \cap Loose = {}

ListsMatch ==
  \E B \in [Classes -> SUBSET Pages], rank \in [Pages -> Nat] : Shape(B, rank) /\ Coverage(B)

\* Which pages are free, held by clients or in the hands of a call
Books ==
  /\ free_pages \cup held \cup Busy = usable_pages
  /\ free_pages \cap held = {} /\ free_pages \cap Busy = {} /\ held \cap Busy = {}
  /\ Cardinality(free_pages) = free_memory
  /\ \A p \in Pages \ (free_pages \cup Busy) : next[p] = Garbage /\ prev[p] = Garbage /\ tag[p] = Garbage

Ranges == {r \in (0 .. PageCount) \X (0 .. PageCount) : r[1] <= r[2]}

Booting ==
  /\ ~booted => pc \in {"boot", "release"} /\ mmap \in Seq(Ranges) /\ held = {}
  /\ pc = "boot" => ~booted /\ available_memory = free_memory
  /\ pc = "release" /\ ~booted => available_memory = free_memory + count

\* What the steps of a call know of its locals
Underway ==
  /\ pc \notin {"split", "return", "release"} => remaining = 0
  /\ pc = "scan" => /\ count \in 1 .. Pow2[CLASS_COUNT] /\ class \in smallest_greater_power2(count) .. CLASS_COUNT
                    /\ \A j \in smallest_greater_power2(count) .. class - 1 : freelist[j] = NULL
  /\ pc = "fallback" => class \in -1 .. CLASS_COUNT - 1
  /\ pc = "take" => class \in Classes /\ freelist[class] # NULL /\ count \in 1 .. Pow2[class]
  /\ pc = "split" => /\ class \in Classes /\ is_aligned(page, class) /\ page \in Pages
                     /\ remaining \in 1 .. Pow2[class] /\ page + remaining = begin + count /\ begin <= page
  /\ pc \in {"return", "release"} => begin + count <= PageCount
  /\ pc = "release" /\ remaining > 0 =>
       class \in Classes /\ is_aligned(page, class) /\ page \in Pages /\ Current \in PageRange(page, Pow2[class])

IInv == TypeOK /\ Books /\ Booting /\ Underway /\ ListsMatch

\* The pages of a block are pages.
LEMMA BlockPages ==
  ASSUME NEW k \in Classes, NEW b \in Pages, is_aligned(b, k)
  PROVE  /\ PageRange(b, Pow2[k]) \subseteq Pages /\ b \in PageRange(b, Pow2[k])
         /\ \A p : p \in PageRange(b, Pow2[k]) <=> p \in Int /\ b <= p /\ p < b + Pow2[k]
<1>1. Pow2[k] \in Nat \ {0} /\ PageCount \in Nat /\ b \in Nat BY ClassFacts, PageCountAssumption DEF Pages
<1>2. b + Pow2[k] <= PageCount BY Fits
<1> QED BY <1>1, <1>2 DEF PageRange, Pages

\* Without one of its blocks, a list covers the pages of the others.
LEMMA CoverWithout ==
  ASSUME NEW B, Placed(B), Apart(B), NEW k \in Classes, NEW b \in B[k],
         NEW C, C = [B EXCEPT ![k] = @ \ {b}]
  PROVE  /\ Placed(C) /\ Apart(C)
         /\ Covered(C) = Covered(B) \ PageRange(b, Pow2[k])
         /\ PageRange(b, Pow2[k]) \subseteq Covered(B)
<1>1. C \in [Classes -> SUBSET Pages] /\ B \in [Classes -> SUBSET Pages] BY DEF Placed
<1>2. \A j \in Classes : C[j] \subseteq B[j] BY <1>1
<1>3. \A j \in Classes : \A a \in B[j] : a \in C[j] \/ (a = b /\ j = k) BY <1>1
<1>4. b \notin C[k] /\ b \in Pages /\ is_aligned(b, k) BY <1>1 DEF Placed
<1>5. Placed(C) BY <1>1, <1>2 DEF Placed
<1>6. Apart(C) BY <1>2 DEF Apart
<1>7. PageRange(b, Pow2[k]) \subseteq Covered(B) BY <1>4, BlockPages DEF Covered
<1>8. ASSUME NEW p \in Covered(C) PROVE p \in Covered(B) /\ p \notin PageRange(b, Pow2[k])
  <2>0. PICK j \in Classes : \E a \in C[j] : p \in PageRange(a, Pow2[j]) BY DEF Covered
  <2>1. PICK a \in C[j] : p \in PageRange(a, Pow2[j]) BY <2>0
  <2>2. a \in B[j] /\ ~(j = k /\ a = b) BY <1>2, <1>4, <2>1
  <2>3. p \in Covered(B) BY <2>1, <2>2 DEF Covered
  <2>4. PageRange(a, Pow2[j]) \cap PageRange(b, Pow2[k]) = {} BY <2>2 DEF Apart
  <2> QED BY <2>1, <2>3, <2>4
<1>9. ASSUME NEW p \in Covered(B), p \notin PageRange(b, Pow2[k]) PROVE p \in Covered(C)
  <2>0. PICK j \in Classes : \E a \in B[j] : p \in PageRange(a, Pow2[j]) BY DEF Covered
  <2>1. PICK a \in B[j] : p \in PageRange(a, Pow2[j]) BY <2>0
  <2>2. a \in C[j] BY <1>3, <1>9, <2>1
  <2> QED BY <2>1, <2>2 DEF Covered
<1> QED BY <1>5, <1>6, <1>7, <1>8, <1>9

\* With a block of pages that were not covered, a list covers those too.
LEMMA CoverWith ==
  ASSUME NEW B, Placed(B), Apart(B), NEW k \in Classes, NEW b \in Pages, is_aligned(b, k),
         Covered(B) \cap PageRange(b, Pow2[k]) = {},
         NEW C, C = [B EXCEPT ![k] = @ \cup {b}]
  PROVE  /\ Placed(C) /\ Apart(C) /\ b \notin B[k]
         /\ Covered(C) = Covered(B) \cup PageRange(b, Pow2[k])
<1>1. C \in [Classes -> SUBSET Pages] /\ B \in [Classes -> SUBSET Pages] BY DEF Placed
<1>2. \A j \in Classes : B[j] \subseteq C[j] /\ \A a \in C[j] : a \in B[j] \/ (a = b /\ j = k) BY <1>1
<1>3. b \in C[k] BY <1>1
<1>4. PageRange(b, Pow2[k]) \subseteq Pages /\ b \in PageRange(b, Pow2[k]) BY BlockPages
<1>5. b \notin B[k] BY <1>4 DEF Covered
<1>6. Placed(C) BY <1>1, <1>2 DEF Placed
<1>7. ASSUME NEW j \in Classes, NEW a \in B[j] PROVE PageRange(a, Pow2[j]) \cap PageRange(b, Pow2[k]) = {}
  BY <1>4 DEF Covered
<1>8. Apart(C)
  <2> SUFFICES ASSUME NEW i \in Classes, NEW j \in Classes, NEW a \in C[i], NEW c \in C[j],
                      PageRange(a, Pow2[i]) \cap PageRange(c, Pow2[j]) # {}
               PROVE  i = j /\ a = c
    BY DEF Apart
  <2>1. CASE a \in B[i] /\ c \in B[j] BY <2>1 DEF Apart
  <2>2. CASE a = b /\ i = k /\ c \in B[j] BY <1>7, <2>2
  <2>3. CASE a \in B[i] /\ c = b /\ j = k BY <1>7, <2>3
  <2>4. CASE a = b /\ i = k /\ c = b /\ j = k BY <2>4
  <2> QED BY <1>2, <2>1, <2>2, <2>3, <2>4
<1>9. ASSUME NEW p \in Covered(C) PROVE p \in Covered(B) \/ p \in PageRange(b, Pow2[k])
  BY <1>2 DEF Covered
<1>10. Covered(B) \subseteq Covered(C) BY <1>2 DEF Covered
<1>11. PageRange(b, Pow2[k]) \subseteq Covered(C) BY <1>3, <1>4 DEF Covered
<1> QED BY <1>5, <1>6, <1>8, <1>9, <1>10, <1>11

\* A listed block is off its list and its bit is cleared.
LEMMA BitsWithout ==
  ASSUME NEW B, Placed(B), BitsMatch(B), NEW k \in Classes, NEW b \in B[k],
         NEW C, C = [B EXCEPT ![k] = @ \ {b}],
         DOMAIN buddies = BuddyClasses,
         buddies' = IF k \in BuddyClasses THEN [buddies EXCEPT ![k] = @ \ {BuddyIndex(b, k)}] ELSE buddies
  PROVE  BitsMatch(C)'
<1>1. B \in [Classes -> SUBSET Pages] /\ b \in Pages /\ is_aligned(b, k) /\ BuddyClasses \subseteq Classes
  BY ClassFacts DEF Placed
<1> SUFFICES ASSUME NEW j \in BuddyClasses, NEW i \in Pairs(j)
             PROVE  /\ i \in buddies'[j] <=> (LowerHalf(i, j) \in C[j] \/ UpperHalf(i, j) \in C[j])
                    /\ ~(LowerHalf(i, j) \in C[j] /\ UpperHalf(i, j) \in C[j])
  BY DEF BitsMatch
<1>2. /\ i \in buddies[j] <=> (LowerHalf(i, j) \in B[j] \/ UpperHalf(i, j) \in B[j])
      /\ ~(LowerHalf(i, j) \in B[j] /\ UpperHalf(i, j) \in B[j])
  BY DEF BitsMatch
<1>3. CASE j # k
  <2>1. C[j] = B[j] /\ buddies'[j] = buddies[j] BY <1>1, <1>3
  <2> QED BY <1>2, <2>1
<1>4. CASE j = k
  <2>1. C[j] = B[j] \ {b} /\ buddies'[j] = buddies[j] \ {BuddyIndex(b, k)} BY <1>1, <1>4
  <2>2. CASE i = BuddyIndex(b, k)
    <3>1. b = LowerHalf(i, j) \/ b = UpperHalf(i, j) BY <1>1, <1>4, <2>2, BuddyPair
    <3> QED BY <1>2, <1>4, <2>1, <2>2, <3>1
  <2>3. CASE i # BuddyIndex(b, k)
    <3>1. b # LowerHalf(i, j) /\ b # UpperHalf(i, j) BY <1>4, <2>3, PairBlock
    <3> QED BY <1>2, <2>1, <2>3, <3>1
  <2> QED BY <2>2, <2>3
<1> QED BY <1>3, <1>4

\* A block whose buddy is not listed is put on its list and its bit is set.
LEMMA BitsWith ==
  ASSUME NEW B, Placed(B), BitsMatch(B), NEW k \in Classes, NEW b \in Pages, is_aligned(b, k), b \notin B[k],
         k \in BuddyClasses => BuddyIndex(b, k) \notin buddies[k],
         NEW C, C = [B EXCEPT ![k] = @ \cup {b}],
         DOMAIN buddies = BuddyClasses,
         buddies' = IF k \in BuddyClasses THEN [buddies EXCEPT ![k] = @ \cup {BuddyIndex(b, k)}] ELSE buddies
  PROVE  BitsMatch(C)'
<1>1. B \in [Classes -> SUBSET Pages] /\ BuddyClasses \subseteq Classes BY ClassFacts DEF Placed
<1> SUFFICES ASSUME NEW j \in BuddyClasses, NEW i \in Pairs(j)
             PROVE  /\ i \in buddies'[j] <=> (LowerHalf(i, j) \in C[j] \/ UpperHalf(i, j) \in C[j])
                    /\ ~(LowerHalf(i, j) \in C[j] /\ UpperHalf(i, j) \in C[j])
  BY DEF BitsMatch
<1>2. /\ i \in buddies[j] <=> (LowerHalf(i, j) \in B[j] \/ UpperHalf(i, j) \in B[j])
      /\ ~(LowerHalf(i, j) \in B[j] /\ UpperHalf(i, j) \in B[j])
  BY DEF BitsMatch
<1>3. CASE j # k
  <2>1. C[j] = B[j] /\ buddies'[j] = buddies[j] BY <1>1, <1>3
  <2> QED BY <1>2, <2>1
<1>4. CASE j = k
  <2>1. C[j] = B[j] \cup {b} /\ buddies'[j] = buddies[j] \cup {BuddyIndex(b, k)} BY <1>1, <1>4
  <2>2. CASE i = BuddyIndex(b, k)
    <3>1. b = LowerHalf(i, j) \/ b = UpperHalf(i, j) BY <1>4, <2>2, BuddyPair
    <3>2. LowerHalf(i, j) # UpperHalf(i, j)
      <4>1. Pow2[j] \in Nat \ {0} /\ UpperHalf(i, j) = LowerHalf(i, j) + Pow2[j] /\ LowerHalf(i, j) \in Pages
        BY <1>1, ClassFacts, PairBlock
      <4> QED BY <4>1, PageCountAssumption DEF Pages
    <3>3. LowerHalf(i, j) \notin B[j] /\ UpperHalf(i, j) \notin B[j] BY <1>2, <1>4, <2>2
    <3> QED BY <2>1, <2>2, <3>1, <3>2, <3>3
  <2>3. CASE i # BuddyIndex(b, k)
    <3>1. b # LowerHalf(i, j) /\ b # UpperHalf(i, j) BY <1>4, <2>3, PairBlock
    <3> QED BY <1>2, <2>1, <2>3, <3>1
  <2> QED BY <2>2, <2>3
<1> QED BY <1>3, <1>4

\* buddy_info counts within the bits of a class.
LEMMA BitsTyped ==
  ASSUME NEW k \in BuddyClasses, NEW p \in Pages, is_aligned(p, k)
  PROVE  BuddyIndex(p, k) \in 0 .. PageCount \div Pow2[k + 1] - 1
  BY BuddyPair DEF Pairs

\* A set of pages whose every aligned part is listed lies in one listed block.
LEMMA Merged ==
  ASSUME NEW B, Placed(B), BitsMatch(B), NEW k \in Classes, NEW p \in Pages, is_aligned(p, k),
         PageRange(p, Pow2[k]) \subseteq Covered(B)
  PROVE  \E j \in Classes : j >= k /\ \E b \in B[j] : PageRange(p, Pow2[k]) \subseteq PageRange(b, Pow2[j])
<1> DEFINE Home(i, q) == \E j \in Classes : j >= i /\ \E b \in B[j] : PageRange(q, Pow2[i]) \subseteq PageRange(b, Pow2[j])
           S == {i \in Nat : i \in Classes => \A q \in Pages :
                   is_aligned(q, i) /\ PageRange(q, Pow2[i]) \subseteq Covered(B) => Home(i, q)}
<1>0. B \in [Classes -> SUBSET Pages] /\ \A j \in Classes : \A b \in B[j] : is_aligned(b, j) /\ b \in Pages BY DEF Placed
\* A block that meets a larger one lies within it.
<1>1. ASSUME NEW i \in Classes, NEW q \in Pages, is_aligned(q, i), NEW j \in Classes, j >= i, NEW b \in B[j],
             NEW x, x \in PageRange(q, Pow2[i]), x \in PageRange(b, Pow2[j])
      PROVE  b <= q /\ q + Pow2[i] <= b + Pow2[j] /\ PageRange(q, Pow2[i]) \subseteq PageRange(b, Pow2[j])
  <2>1. i \in Nat /\ j \in Nat /\ i <= j /\ q \in Nat /\ b \in Nat /\ Pow2[i] \in Nat /\ Pow2[j] \in Nat
    BY <1>0, <1>1, ClassFacts, PageCountAssumption DEF Pages
  <2>2. x \in Nat BY <1>1, <2>1 DEF PageRange
  <2>3. b <= q /\ q + Pow2[i] <= b + Pow2[j] BY <1>0, <1>1, <2>1, <2>2, Nested
  <2> QED BY <2>1, <2>3 DEF PageRange
<1>2. 0 \in S
  <2> SUFFICES ASSUME 0 \in Classes, NEW q \in Pages, is_aligned(q, 0), PageRange(q, Pow2[0]) \subseteq Covered(B)
               PROVE  Home(0, q)
    OBVIOUS
  <2>1. q \in PageRange(q, Pow2[0]) BY BlockPages
  <2>2. PICK j \in Classes : \E b \in B[j] : q \in PageRange(b, Pow2[j]) BY <2>1 DEF Covered
  <2>3. PICK b \in B[j] : q \in PageRange(b, Pow2[j]) BY <2>2
  <2>4. j >= 0 BY ClassFacts
  <2>5. PageRange(q, Pow2[0]) \subseteq PageRange(b, Pow2[j]) BY <1>1, <2>1, <2>3, <2>4
  <2> QED BY <2>4, <2>5
<1>3. ASSUME NEW i \in Nat, i \in S PROVE i + 1 \in S
  <2> SUFFICES ASSUME i + 1 \in Classes, NEW q \in Pages, is_aligned(q, i + 1),
                      PageRange(q, Pow2[i + 1]) \subseteq Covered(B)
               PROVE  Home(i + 1, q)
    OBVIOUS
  <2> DEFINE s == Pow2[i]
  <2>1. i \in BuddyClasses /\ i \in Classes BY ClassCountAssumption DEF Classes, BuddyClasses
  <2>2. s \in Nat \ {0} /\ Pow2[i + 1] = 2 * s /\ q \in Nat BY <2>1, ClassFacts, PageCountAssumption DEF Pages
  <2>3. is_aligned(q, i) /\ is_aligned(q + s, i) BY <2>2, Halves
  <2>4. q + s \in Pages
    <3>1. q + Pow2[i + 1] <= PageCount BY Fits
    <3> QED BY <2>2, <3>1, PageCountAssumption DEF Pages
  <2>5. /\ PageRange(q, s) \subseteq PageRange(q, Pow2[i + 1])
        /\ PageRange(q + s, s) \subseteq PageRange(q, Pow2[i + 1])
    BY <2>2 DEF PageRange
  <2>6. q \in PageRange(q, s) /\ q + s \in PageRange(q + s, s) BY <2>2 DEF PageRange
  <2>7. Home(i, q) /\ Home(i, q + s) BY <1>3, <2>1, <2>3, <2>4, <2>5
  <2> HIDE DEF s
  <2>8. PICK j \in Classes : j >= i /\ \E b \in B[j] : PageRange(q, s) \subseteq PageRange(b, Pow2[j]) BY <2>7 DEF s
  <2>9. PICK b \in B[j] : PageRange(q, s) \subseteq PageRange(b, Pow2[j]) BY <2>8
  <2>10. PICK l \in Classes : l >= i /\ \E c \in B[l] : PageRange(q + s, s) \subseteq PageRange(c, Pow2[l])
    BY <2>7 DEF s
  <2>11. PICK c \in B[l] : PageRange(q + s, s) \subseteq PageRange(c, Pow2[l]) BY <2>10
  <2>12. j \in Nat /\ l \in Nat BY ClassFacts
  <2>13. CASE j >= i + 1
    <3>1. PageRange(q, Pow2[i + 1]) \subseteq PageRange(b, Pow2[j]) BY <1>1, <2>5, <2>6, <2>9, <2>13
    <3> QED BY <2>13, <3>1
  <2>14. CASE l >= i + 1
    <3>1. PageRange(q, Pow2[i + 1]) \subseteq PageRange(c, Pow2[l]) BY <1>1, <2>5, <2>6, <2>11, <2>14
    <3> QED BY <2>14, <3>1
  <2>15. CASE j = i /\ l = i
    <3>1. b \in Nat /\ c \in Nat BY <1>0, PageCountAssumption DEF Pages
    <3>2. b = q
      <4>1. q \in PageRange(b, Pow2[j]) /\ j >= i BY <2>6, <2>9, <2>15
      <4>2. b <= q /\ q + s <= b + s BY <1>1, <2>1, <2>3, <2>6, <2>15, <4>1 DEF s
      <4> QED BY <2>2, <3>1, <4>2
    <3>3. c = q + s
      <4>1. q + s \in PageRange(c, Pow2[l]) /\ l >= i BY <2>6, <2>11, <2>15
      <4>2. c <= q + s /\ (q + s) + s <= c + s BY <1>1, <2>1, <2>3, <2>4, <2>6, <2>15, <4>1 DEF s
      <4> QED BY <2>2, <3>1, <4>2
    <3>4. q \in B[i] /\ q + s \in B[i] BY <2>9, <2>11, <2>15, <3>2, <3>3
    <3> DEFINE x == BuddyIndex(q, i)
               y == BuddyIndex(q + s, i)
    <3>5. PICK h \in Nat : q = Pow2[i + 1] * h BY <2>2, AlignedMultiple
    <3>6. BuddyIndex(Pow2[i + 1] * h + 0, i) = h BY <2>2, <3>5, Unique DEF BuddyIndex
    <3>7. Pow2[i + 1] * h + 0 = q BY <2>2, <3>5
    <3>8. x = h BY <3>6, <3>7
    <3>9. x \in Pairs(i) BY <2>1, <2>3, BuddyPair
    <3>10. LowerHalf(x, i) = q /\ UpperHalf(x, i) = q + s BY <3>5, <3>8 DEF LowerHalf, UpperHalf, s
    <3> QED BY <2>1, <3>4, <3>9, <3>10 DEF BitsMatch
  <2> QED BY <2>8, <2>10, <2>12, <2>13, <2>14, <2>15
<1> HIDE DEF S
<1>4. \A i \in Nat : i \in S BY <1>2, <1>3, SetInduction
<1>5. k \in Nat BY ClassFacts
<1>6. k \in S BY <1>4, <1>5
<1> QED BY <1>6 DEF S

-----------------------------------------------------------------------------
(* Counting pages *)

\* Memory is finite, and the size of a range is its length.
LEMMA PagesFinite ==
  /\ IsFiniteSet(Pages) /\ Cardinality(Pages) = PageCount
  /\ \A S \in SUBSET Pages : IsFiniteSet(S) /\ Cardinality(S) \in Nat /\ Cardinality(S) <= PageCount
  /\ \A b \in Nat, n \in Nat : IsFiniteSet(PageRange(b, n)) /\ Cardinality(PageRange(b, n)) = n
<1>0. PageCount \in Nat BY PageCountAssumption
<1>1. IsFiniteSet(0 .. PageCount - 1)
      /\ Cardinality(0 .. PageCount - 1) = IF 0 > PageCount - 1 THEN 0 ELSE PageCount - 1 - 0 + 1
  BY <1>0, FS_Interval
<1>2. IsFiniteSet(Pages) /\ Cardinality(Pages) = PageCount BY <1>0, <1>1 DEF Pages
<1>3. \A S \in SUBSET Pages : IsFiniteSet(S) /\ Cardinality(S) \in Nat /\ Cardinality(S) <= PageCount
  BY <1>2, FS_Subset, FS_CardinalityType
<1>4. ASSUME NEW b \in Nat, NEW n \in Nat
      PROVE  IsFiniteSet(PageRange(b, n)) /\ Cardinality(PageRange(b, n)) = n
  <2>1. b \in Int /\ b + n - 1 \in Int OBVIOUS
  <2>2. IsFiniteSet(b .. b + n - 1)
        /\ Cardinality(b .. b + n - 1) = IF b > b + n - 1 THEN 0 ELSE b + n - 1 - b + 1
    BY <2>1, FS_Interval
  <2> QED BY <2>2 DEF PageRange
<1> QED BY <1>2, <1>3, <1>4

\* Disjoint sets of pages count together.
LEMMA CountApart ==
  ASSUME NEW S, IsFiniteSet(S), NEW T, IsFiniteSet(T), S \cap T = {}
  PROVE  /\ IsFiniteSet(S \cup T) /\ Cardinality(S) \in Nat /\ Cardinality(T) \in Nat
         /\ Cardinality(S \cup T) = Cardinality(S) + Cardinality(T)
<1>1. Cardinality(S) \in Nat /\ Cardinality(T) \in Nat BY FS_CardinalityType
<1>2. IsFiniteSet(S \cup T) /\ Cardinality(S \cup T) = Cardinality(S) + Cardinality(T) - Cardinality({})
  BY FS_Union
<1>3. Cardinality({}) = 0 BY FS_EmptySet
<1> QED BY <1>1, <1>2, <1>3

\* The blocks of a class cover as many pages as there are blocks, times their size.
LEMMA ClassCount ==
  ASSUME NEW B, Placed(B), Apart(B), NEW k \in Classes
  PROVE  LET covered == {p \in Pages : \E b \in B[k] : p \in PageRange(b, Pow2[k])} IN
         /\ Cardinality(covered) = Pow2[k] * Cardinality(B[k])
         /\ Cardinality(B[k]) \in Nat
<1> DEFINE s == Pow2[k]
           Low(n) == {b \in B[k] : b < n}
           Cover(n) == {p \in Pages : \E b \in Low(n) : p \in PageRange(b, s)}
           S == {n \in Nat : Cardinality(Cover(n)) = s * Cardinality(Low(n))}
<1>0. PageCount \in Nat /\ s \in Nat \ {0} BY PageCountAssumption, ClassFacts
<1>1. B[k] \in SUBSET Pages /\ \A b \in B[k] : is_aligned(b, k) /\ b \in Nat /\ b < PageCount
  BY <1>0 DEF Placed, Pages
<1>2. \A n \in Nat : /\ IsFiniteSet(Low(n)) /\ Cardinality(Low(n)) \in Nat
                     /\ IsFiniteSet(Cover(n)) /\ Cardinality(Cover(n)) \in Nat
  <2> SUFFICES ASSUME NEW n \in Nat PROVE Low(n) \in SUBSET Pages /\ Cover(n) \in SUBSET Pages BY PagesFinite
  <2> QED BY <1>1
<1>3. 0 \in S
  <2>1. Low(0) = {} BY <1>1
  <2>2. Cover(0) = {} BY <2>1
  <2>3. s * 0 = 0 BY <1>0
  <2> QED BY <2>1, <2>2, <2>3, FS_EmptySet
<1>4. ASSUME NEW n \in Nat, n \in S PROVE n + 1 \in S
  <2>1. CASE n \notin B[k]
    <3>1. Low(n + 1) = Low(n) BY <1>1, <2>1
    <3>2. Cover(n + 1) = Cover(n) BY <3>1
    <3> HIDE DEF Low, Cover
    <3> QED BY <1>4, <3>1, <3>2
  <2>2. CASE n \in B[k]
    <3>1. Low(n + 1) = Low(n) \cup {n} /\ n \notin Low(n) BY <1>1, <2>2
    <3>2. PageRange(n, s) \subseteq Pages BY <1>1, <2>2, BlockPages
    <3>3. Cover(n + 1) = Cover(n) \cup PageRange(n, s) BY <3>1, <3>2
    <3>4. Cover(n) \cap PageRange(n, s) = {}
      <4>1. ASSUME NEW b \in Low(n) PROVE PageRange(b, s) \cap PageRange(n, s) = {}
        <5>1. b \in B[k] /\ b # n BY <3>1
        <5> QED BY <2>2, <5>1 DEF Apart
      <4> QED BY <4>1
    <3>5. IsFiniteSet(PageRange(n, s)) /\ Cardinality(PageRange(n, s)) = s BY <1>0, PagesFinite
    <3> HIDE DEF Low, Cover, s
    <3>6. Cardinality(Cover(n + 1)) = Cardinality(Cover(n)) + s
      BY <1>2, <3>3, <3>4, <3>5, CountApart
    <3>7. Cardinality(Low(n + 1)) = Cardinality(Low(n)) + 1 BY <1>2, <3>1, FS_AddElement
    <3>8. Cardinality(Low(n)) \in Nat BY <1>2
    <3>9. s * (Cardinality(Low(n)) + 1) = s * Cardinality(Low(n)) + s BY <1>0, <3>8, SMT
    <3> QED BY <1>4, <3>6, <3>7, <3>9
  <2> QED BY <2>1, <2>2
<1>5. PageCount \in S
  <2> HIDE DEF S
  <2> QED BY <1>0, <1>3, <1>4, SetInduction
<1>6. Low(PageCount) = B[k] BY <1>1
<1>7. Cardinality(B[k]) \in Nat BY <1>0, <1>2, <1>6
<1>8. Cover(PageCount) = {p \in Pages : \E b \in B[k] : p \in PageRange(b, Pow2[k])} BY <1>6
<1> HIDE DEF Low, Cover
<1> QED BY <1>5, <1>6, <1>7, <1>8

\* The sum of validate_heap, class by class.
LEMMA SumSteps ==
  /\ calculated_free_memory[0] = 0
  /\ \A n \in 0 .. CLASS_COUNT - 1 :
       calculated_free_memory[n + 1] = calculated_free_memory[n] + Pow2[n] * Cardinality(Blocks(n))
<1>0. CLASS_COUNT \in Nat BY ClassFacts
<1> DEFINE f == calculated_free_memory
<1>1. FiniteNatInductiveDefHypothesis(calculated_free_memory, 0,
        LAMBDA v, n : v + Pow2[n - 1] * Cardinality(Blocks(n - 1)), 0, CLASS_COUNT)
  BY DEF FiniteNatInductiveDefHypothesis, calculated_free_memory
<1>2. FiniteNatInductiveDefConclusion(calculated_free_memory, 0,
        LAMBDA v, n : v + Pow2[n - 1] * Cardinality(Blocks(n - 1)), 0, CLASS_COUNT)
  BY <1>0, <1>1, FiniteNatInductiveDef
<1>3. f = [n \in 0 .. CLASS_COUNT |-> IF n = 0 THEN 0
                                      ELSE f[n - 1] + Pow2[n - 1] * Cardinality(Blocks(n - 1))]
  BY <1>2 DEF FiniteNatInductiveDefConclusion
<1> HIDE DEF f
<1>4. f[0] = 0 BY <1>0, <1>3
<1>5. ASSUME NEW n \in 0 .. CLASS_COUNT - 1 PROVE f[n + 1] = f[n] + Pow2[n] * Cardinality(Blocks(n))
  <2>1. n + 1 \in 0 .. CLASS_COUNT /\ n + 1 # 0 /\ (n + 1) - 1 = n BY <1>0
  <2> QED BY <1>3, <2>1
<1> QED BY <1>4, <1>5 DEF f

\* The sum of validate_heap counts the pages that the lists cover.
LEMMA CoverCount ==
  ASSUME NEW B, Placed(B), Apart(B), \A k \in Classes : Blocks(k) = B[k]
  PROVE  calculated_free_memory[CLASS_COUNT] = Cardinality(Covered(B))
<1> DEFINE Part(k) == {p \in Pages : \E b \in B[k] : p \in PageRange(b, Pow2[k])}
           Upto(n) == {p \in Pages : \E k \in Classes : k < n /\ \E b \in B[k] : p \in PageRange(b, Pow2[k])}
           S == {n \in Nat : n <= CLASS_COUNT => calculated_free_memory[n] = Cardinality(Upto(n))}
<1>0. CLASS_COUNT \in Nat /\ Classes = 0 .. CLASS_COUNT - 1 BY ClassFacts DEF Classes
<1>1. 0 \in S
  <2>1. Upto(0) = {} BY <1>0
  <2> QED BY <2>1, SumSteps, FS_EmptySet
<1>2. ASSUME NEW n \in Nat, n \in S PROVE n + 1 \in S
  <2> SUFFICES ASSUME n + 1 <= CLASS_COUNT PROVE calculated_free_memory[n + 1] = Cardinality(Upto(n + 1)) OBVIOUS
  <2>1. n \in Classes /\ n \in 0 .. CLASS_COUNT - 1 /\ n <= CLASS_COUNT BY <1>0
  <2>2. calculated_free_memory[n] = Cardinality(Upto(n)) BY <1>2, <2>1
  <2>3. calculated_free_memory[n + 1] = calculated_free_memory[n] + Pow2[n] * Cardinality(B[n]) BY <2>1, SumSteps
  <2>4. Cardinality(Part(n)) = Pow2[n] * Cardinality(B[n]) BY <2>1, ClassCount
  <2>5. Upto(n + 1) = Upto(n) \cup Part(n)
    <3>1. \A k \in Classes : k < n + 1 <=> k < n \/ k = n BY <1>0
    <3> QED BY <2>1, <3>1
  <2>6. Upto(n) \cap Part(n) = {}
    <3>1. ASSUME NEW k \in Classes, k < n, NEW a \in B[k], NEW b \in B[n]
          PROVE  PageRange(a, Pow2[k]) \cap PageRange(b, Pow2[n]) = {}
      <4>1. k # n BY <1>0, <3>1
      <4> QED BY <2>1, <4>1 DEF Apart
    <3> QED BY <2>1, <3>1
  <2>7. Upto(n) \in SUBSET Pages /\ Part(n) \in SUBSET Pages OBVIOUS
  <2> HIDE DEF Upto, Part
  <2>8. Cardinality(Upto(n + 1)) = Cardinality(Upto(n)) + Cardinality(Part(n))
    BY <2>5, <2>6, <2>7, PagesFinite, CountApart
  <2> QED BY <2>2, <2>3, <2>4, <2>8
<1>3. CLASS_COUNT \in S
  <2> HIDE DEF S
  <2> QED BY <1>0, <1>1, <1>2, SetInduction
<1>4. Upto(CLASS_COUNT) = Covered(B) BY <1>0 DEF Covered
<1> HIDE DEF Upto
<1> QED BY <1>0, <1>3, <1>4

\* 64 - clz(n - 1) counts the bits of n - 1.
LEMMA BitsOf ==
  ASSUME NEW n \in 1 .. Pow2[CLASS_COUNT], ~(n <= 1)
  PROVE  LET x == smallest_greater_power2(n) IN
         x \in 1 .. 63 /\ Pow2[x - 1] <= n - 1 /\ n - 1 < Pow2[x]
<1> DEFINE m == n - 1
           T == {k \in Nat : m < Pow2[k]}
           P(k) == Pow2[k - 1] <= m /\ m < Pow2[k]
           x == CHOOSE k \in 1 .. 63 : P(k)
<1>0. CLASS_COUNT \in Nat /\ CLASS_COUNT <= 63 /\ Pow2[CLASS_COUNT] \in Nat \ {0} /\ Pow2[0] = 1
  BY ClassCountAssumption, ClassFacts, Pow2Type
<1>1. m \in Nat /\ 1 <= m /\ m < Pow2[CLASS_COUNT] BY <1>0
<1>2. CLASS_COUNT \in T BY <1>0, <1>1
<1>3. PICK y \in T : \A z \in T : y <= z BY <1>2, Least
<1>4. y \in Nat /\ y <= CLASS_COUNT /\ y # 0 BY <1>0, <1>1, <1>2, <1>3
<1>5. y - 1 \in Nat /\ ~(y <= y - 1) BY <1>4
<1>6. y - 1 \notin T BY <1>3, <1>5
<1>7. Pow2[y - 1] \in Nat /\ Pow2[y] \in Nat BY <1>4, <1>5, Pow2Type
<1>8. P(y) /\ y \in 1 .. 63 BY <1>0, <1>1, <1>3, <1>4, <1>5, <1>6, <1>7
<1> HIDE DEF P
<1>9. x \in 1 .. 63 /\ P(x) BY <1>8
<1>10. smallest_greater_power2(n) = x BY DEF smallest_greater_power2, P
<1> HIDE DEF x
<1> QED BY <1>9, <1>10 DEF P

\* The least class whose blocks are large enough.
LEMMA ClassFor ==
  ASSUME NEW n \in 1 .. Pow2[CLASS_COUNT]
  PROVE  smallest_greater_power2(n) \in 0 .. CLASS_COUNT /\ n <= Pow2[smallest_greater_power2(n)]
<1>0. CLASS_COUNT \in Nat /\ Pow2[CLASS_COUNT] \in Nat \ {0} /\ Pow2[0] = 1 BY ClassFacts, Pow2Type
<1>1. CASE n <= 1
  <2>1. smallest_greater_power2(n) = 0 BY <1>1 DEF smallest_greater_power2
  <2> QED BY <1>0, <1>1, <2>1
<1>2. CASE ~(n <= 1)
  <2>1. PICK x : x = smallest_greater_power2(n) OBVIOUS
  <2>2. x \in 1 .. 63 /\ Pow2[x - 1] <= n - 1 /\ n - 1 < Pow2[x] BY <1>2, <2>1, BitsOf
  <2>3. x - 1 \in Nat /\ Pow2[x - 1] \in Nat /\ Pow2[x] \in Nat BY <2>2, Pow2Type
  <2>4. ~(CLASS_COUNT <= x - 1)
    <3> SUFFICES ASSUME CLASS_COUNT <= x - 1 PROVE FALSE OBVIOUS
    <3>1. Pow2[CLASS_COUNT] <= Pow2[x - 1] BY <1>0, <2>3, Pow2Grows
    <3> QED BY <1>0, <2>2, <2>3, <3>1
  <2>5. x \in 0 .. CLASS_COUNT BY <1>0, <2>2, <2>3, <2>4
  <2>6. n <= Pow2[x] BY <1>0, <2>2, <2>3
  <2> QED BY <2>1, <2>5, <2>6
<1> QED BY <1>1, <1>2

-----------------------------------------------------------------------------
(* The invariant is inductive *)

\* At the start there are no blocks.
LEMMA InitInv == Init => IInv
<1> SUFFICES ASSUME Init PROVE IInv OBVIOUS
<1> DEFINE B == [k \in Classes |-> {}]
           rank == [p \in Pages |-> 0]
<1>1. PageCount \in Nat /\ CLASS_COUNT \in Nat BY PageCountAssumption, ClassFacts
<1>2. Covered(B) = {} BY DEF Covered
<1>3. Shape(B, rank)
  <2>1. Linked(B, rank) BY DEF Linked, Init
  <2>2. BitsMatch(B) BY ClassFacts DEF BitsMatch, Init
  <2> QED BY <2>1, <2>2 DEF Shape, Placed, Apart
<1>4. Loose = {} /\ Claimed = {} /\ Busy = {} BY DEF Init, Loose, Claimed, Busy
<1>5. Coverage(B) BY <1>2, <1>4 DEF Coverage, Init
<1>6. B \in [Classes -> SUBSET Pages] /\ rank \in [Pages -> Nat] OBVIOUS
<1> HIDE DEF B, rank
<1>7. ListsMatch BY <1>3, <1>5, <1>6 DEF ListsMatch
<1>8. mmap \in Seq(Ranges) BY MapsAssumption DEF Init, Ranges
<1>9. TypeOK
  <2>1. exact \in BOOLEAN /\ booted \in BOOLEAN BY Zenon DEF Init
  <2>2. freelist \in [Classes -> Pages \cup {NULL}] BY DEF Init
  <2>3. \A f \in {next, prev} : f \in [Pages -> Pages \cup {NULL, Garbage}] BY DEF Init
  <2>4. tag \in [Pages -> Classes \cup {Garbage}] BY DEF Init
  <2>5. DOMAIN buddies = BuddyClasses /\ \A k \in BuddyClasses : buddies[k] = {} BY DEF Init
  <2> QED BY <1>1, <2>1, <2>2, <2>3, <2>4, <2>5 DEF TypeOK, Init
<1>10. Books BY <1>4, FS_EmptySet DEF Books, Init
<1>11. Booting BY <1>8 DEF Booting, Init
<1>12. Underway BY DEF Underway, Init
<1> QED BY <1>7, <1>9, <1>10, <1>11, <1>12 DEF IInv

\* The shape of the lists depends on their links and bits only.
LEMMA ShapeKept ==
  ASSUME NEW B, NEW rank, Shape(B, rank), UNCHANGED <<lists, buddies>>
  PROVE  Shape(B, rank)'
<1>1. Linked(B, rank)' BY DEF Shape, Linked, lists
<1>2. BitsMatch(B)' BY DEF Shape, BitsMatch
<1> QED BY <1>1, <1>2 DEF Shape

\* A step that neither touches memory nor begins or ends to hold pages
LEMMA Quiet ==
  ASSUME IInv, UNCHANGED <<accounts, lists, buddies, held>>,
         pc \notin {"split", "return", "release"}, pc' \notin {"split", "return", "release"}
  PROVE  Books' /\ ListsMatch'
<1>1. Books' BY DEF IInv, Books, Busy, accounts, lists
<1>2. PICK B \in [Classes -> SUBSET Pages], rank \in [Pages -> Nat] : Shape(B, rank) /\ Coverage(B)
  BY DEF IInv, ListsMatch
<1>3. Shape(B, rank)' BY <1>2, ShapeKept
<1>4. Coverage(B)' BY <1>2 DEF Coverage, Loose, Claimed, accounts
<1>5. ListsMatch' BY <1>3, <1>4 DEF ListsMatch
<1> QED BY <1>1, <1>5

\* memory__init has built the heap.
LEMMA BootDoneInv ==
  ASSUME IInv, BootDone PROVE IInv'
<1> USE DEF BootDone, Goto
<1>1. Books' /\ ListsMatch' BY Quiet DEF accounts, lists
<1>2. TypeOK' BY DEF IInv, TypeOK, accounts, lists, locals
<1>3. Booting' BY DEF IInv, Booting
<1>4. Underway' BY DEF IInv, Underway, locals
<1> QED BY <1>1, <1>2, <1>3, <1>4 DEF IInv

\* A call of the allocator begins with the least class that can serve it.
LEMMA AllocRawInv ==
  ASSUME IInv, NEW n \in 1 .. MaxRequest, NEW ex \in BOOLEAN, AllocRaw(n, ex) PROVE IInv'
<1> USE DEF AllocRaw, Goto
<1>0. n \in Nat /\ n \in 1 .. Pow2[CLASS_COUNT] /\ CLASS_COUNT \in Nat
  BY MaxRequestAssumption, ClassFacts, Pow2Type
<1>1. Books' /\ ListsMatch' BY Quiet DEF accounts, lists
<1>2. smallest_greater_power2(n) \in 0 .. CLASS_COUNT BY <1>0, ClassFor
<1>3. remaining = 0 BY DEF IInv, Underway
<1>4. TypeOK' BY <1>0, <1>2, <1>3 DEF IInv, TypeOK, accounts, lists, boot
<1>5. Booting' BY DEF IInv, Booting, boot
<1>6. class' = smallest_greater_power2(count') /\ class' \in smallest_greater_power2(count') .. CLASS_COUNT
      /\ smallest_greater_power2(count') .. class' - 1 = {}
  BY <1>0, <1>2
<1>7. Underway' BY <1>0, <1>3, <1>6 DEF IInv, Underway
<1> QED BY <1>1, <1>4, <1>5, <1>7 DEF IInv

\* alloc_raw looks at the next class.
LEMMA ScanNextInv ==
  ASSUME IInv, ScanNext PROVE IInv'
<1> USE DEF ScanNext
<1>0. CLASS_COUNT \in Nat BY ClassFacts
<1>1. Books' /\ ListsMatch' BY Quiet DEF accounts, lists
<1>2. /\ count \in 1 .. Pow2[CLASS_COUNT] /\ class \in smallest_greater_power2(count) .. CLASS_COUNT
      /\ \A j \in smallest_greater_power2(count) .. class - 1 : freelist[j] = NULL
  BY DEF IInv, Underway
<1>3. smallest_greater_power2(count) \in 0 .. CLASS_COUNT BY <1>2, ClassFor
<1>4. TypeOK' BY <1>0, <1>2, <1>3 DEF IInv, TypeOK, accounts, lists, boot
<1>5. Booting' BY DEF IInv, Booting, boot
<1>6. class' \in smallest_greater_power2(count) .. CLASS_COUNT BY <1>0, <1>2, <1>3
<1>7. \A j \in smallest_greater_power2(count) .. class' - 1 : freelist[j] = NULL BY <1>0, <1>2, <1>3
<1>8. remaining = 0 BY DEF IInv, Underway
<1> HIDE DEF ScanNext
<1>9. pc' = "scan" /\ remaining' = remaining /\ count' = count /\ freelist' = freelist BY DEF ScanNext, lists
<1>10. Underway' BY <1>2, <1>6, <1>7, <1>8, <1>9 DEF Underway
<1> QED BY <1>1, <1>4, <1>5, <1>10 DEF IInv

\* alloc_raw has found a block.
LEMMA ScanFoundInv ==
  ASSUME IInv, ScanFound PROVE IInv'
<1> USE DEF ScanFound, Goto
<1>0. CLASS_COUNT \in Nat BY ClassFacts
<1>1. Books' /\ ListsMatch' BY Quiet DEF accounts, lists
<1>2. count \in 1 .. Pow2[CLASS_COUNT] /\ class \in smallest_greater_power2(count) .. CLASS_COUNT
  BY DEF IInv, Underway
<1>3. smallest_greater_power2(count) \in 0 .. CLASS_COUNT /\ count <= Pow2[smallest_greater_power2(count)]
  BY <1>2, ClassFor
<1>4. TypeOK' BY DEF IInv, TypeOK, accounts, lists, boot, locals
<1>5. Booting' BY DEF IInv, Booting, boot, locals
<1>6. count \in 1 .. Pow2[class]
  <2> DEFINE c == smallest_greater_power2(count)
  <2> HIDE DEF c
  <2>1. c \in Nat /\ class \in Nat /\ c <= class BY <1>0, <1>2, <1>3 DEF c
  <2>2. Pow2[c] <= Pow2[class] /\ Pow2[c] \in Nat /\ Pow2[class] \in Nat BY <2>1, Pow2Grows, Pow2Type
  <2>3. count \in Nat /\ 1 <= count /\ count <= Pow2[c] BY <1>2, <1>3 DEF c
  <2> QED BY <2>2, <2>3
<1>7. Underway' BY <1>6 DEF IInv, Underway, locals, lists
<1> QED BY <1>1, <1>4, <1>5, <1>7 DEF IInv

\* alloc_raw gives up.
LEMMA GiveUpInv ==
  ASSUME IInv, ScanFails \/ FallbackFails PROVE IInv'
<1> USE DEF ScanFails, FallbackFails, Return
<1>0. CLASS_COUNT \in Nat /\ PageCount \in Nat BY ClassFacts, PageCountAssumption
<1>1. Books' /\ ListsMatch' BY Quiet DEF accounts, lists
<1>2. TypeOK'
  <2>1. exact' \in BOOLEAN BY Zenon
  <2> QED BY <1>0, <2>1 DEF IInv, TypeOK, accounts, lists, boot
<1>3. Booting' BY DEF IInv, Booting, boot
<1>4. Underway' BY DEF IInv, Underway
<1> QED BY <1>1, <1>2, <1>3, <1>4 DEF IInv

\* try_raw_pages turns to the smaller classes ...
LEMMA ScanFallsBackInv ==
  ASSUME IInv, ScanFallsBack PROVE IInv'
<1> USE DEF ScanFallsBack, Goto
<1>0. CLASS_COUNT \in Nat /\ PageCount \in Nat BY ClassFacts, PageCountAssumption
<1>1. Books' /\ ListsMatch' BY Quiet DEF accounts, lists
<1>2. count \in 1 .. Pow2[CLASS_COUNT] BY DEF IInv, Underway
<1>3. smallest_greater_power2(count) \in 0 .. CLASS_COUNT BY <1>2, ClassFor
<1>4. class' \in -1 .. CLASS_COUNT - 1 /\ class' \in -1 .. CLASS_COUNT BY <1>0, <1>3
<1>5. TypeOK' BY <1>4 DEF IInv, TypeOK, accounts, lists, boot
<1>6. Booting' BY DEF IInv, Booting, boot
<1>7. Underway' BY <1>4 DEF IInv, Underway
<1> QED BY <1>1, <1>5, <1>6, <1>7 DEF IInv

\* ... looks at the next one ...
LEMMA FallbackNextInv ==
  ASSUME IInv, FallbackNext PROVE IInv'
<1> USE DEF FallbackNext
<1>0. CLASS_COUNT \in Nat /\ PageCount \in Nat BY ClassFacts, PageCountAssumption
<1>1. Books' /\ ListsMatch' BY Quiet DEF accounts, lists
<1>2. class \in -1 .. CLASS_COUNT - 1 /\ class >= 0 BY DEF IInv, Underway
<1>4. class' \in -1 .. CLASS_COUNT - 1 /\ class' \in -1 .. CLASS_COUNT BY <1>0, <1>2
<1>5. TypeOK' BY <1>4 DEF IInv, TypeOK, accounts, lists, boot
<1>6. Booting' BY DEF IInv, Booting, boot
<1>7. Underway' BY <1>4 DEF IInv, Underway
<1> QED BY <1>1, <1>5, <1>6, <1>7 DEF IInv

\* ... and has found a block.
LEMMA FallbackFoundInv ==
  ASSUME IInv, FallbackFound PROVE IInv'
<1> USE DEF FallbackFound, Goto
<1>0. CLASS_COUNT \in Nat /\ PageCount \in Nat BY ClassFacts, PageCountAssumption
<1>1. Books' /\ ListsMatch' BY Quiet DEF accounts, lists
<1>2. class \in Classes BY <1>0 DEF IInv, Underway, Classes
<1>3. Pow2[class] \in Nat \ {0} /\ Pow2[class] \in 1 .. Pow2[class] BY <1>2, ClassFacts
<1>4. remaining = 0 BY DEF IInv, Underway
<1>5. TypeOK' BY <1>3, <1>4 DEF IInv, TypeOK, accounts, lists, boot
<1>6. Booting' BY DEF IInv, Booting, boot
<1>7. Underway' BY <1>2, <1>3, <1>4 DEF Underway, lists
<1> QED BY <1>1, <1>5, <1>6, <1>7 DEF IInv

\* What the invariant says of the lists, for some blocks B
LEMMA Listing ==
  ASSUME IInv
  PROVE  /\ LinkTypes /\ DOMAIN buddies = BuddyClasses /\ free_pages \in SUBSET Pages
         /\ \E B \in [Classes -> SUBSET Pages], rank \in [Pages -> Nat] :
              /\ Shape(B, rank) /\ Coverage(B)
              /\ Placed(B) /\ Apart(B) /\ Linked(B, rank) /\ BitsMatch(B)
  BY DEF IInv, TypeOK, LinkTypes, ListsMatch, Shape

\* All classes but the largest have buddies.
LEMMA TopClass == \A k \in Classes : k \in BuddyClasses <=> k # CLASS_COUNT - 1
  BY ClassCountAssumption DEF Classes, BuddyClasses

\* A block leaves its list for the call that allocates it.
LEMMA TakeInv ==
  ASSUME IInv, Take PROVE IInv'
<1>0. CLASS_COUNT \in Nat /\ PageCount \in Nat BY ClassFacts, PageCountAssumption
<1> DEFINE b == freelist[class]
           s == Pow2[class]
<1>1. /\ pc = "take" /\ class \in Classes /\ freelist[class] # NULL /\ count \in 1 .. Pow2[class]
      /\ pc' = "split" /\ class' = class /\ count' = count /\ begin' = b /\ page' = b /\ remaining' = count
      /\ exact' = exact /\ held' = held /\ usable_pages' = usable_pages
      /\ mmap' = mmap /\ available_memory' = available_memory /\ booted' = booted
      /\ free_memory' = free_memory - count /\ free_pages' = free_pages \ PageRange(b, count)
  BY DEF IInv, Underway, Take, Goto, boot
<1>2. PICK B \in [Classes -> SUBSET Pages], rank \in [Pages -> Nat] :
        Shape(B, rank) /\ Coverage(B) /\ Placed(B) /\ Apart(B) /\ Linked(B, rank) /\ BitsMatch(B)
  BY Listing
<1>3. b \in B[class] BY <1>1, <1>2 DEF Linked
<1>4. b \in Pages /\ b \in Nat /\ is_aligned(b, class) /\ s \in Nat \ {0} /\ b + s <= PageCount
  <2>1. b \in Pages /\ is_aligned(b, class) BY <1>1, <1>2, <1>3 DEF Placed
  <2> QED BY <1>0, <1>1, <2>1, Fits, ClassFacts DEF Pages
<1>5. PICK C : C = [B EXCEPT ![class] = @ \ {b}] OBVIOUS
<1>6. /\ Placed(C) /\ Apart(C) /\ Covered(C) = Covered(B) \ PageRange(b, s)
      /\ PageRange(b, s) \subseteq Covered(B)
  BY <1>1, <1>2, <1>3, <1>5, CoverWithout
<1>7. C \in [Classes -> SUBSET Pages] BY <1>6 DEF Placed
<1>8. pop_freelist(class) BY DEF Take
<1>9. LinkTypes' /\ Linked(C, rank)' BY <1>1, <1>2, <1>5, <1>7, <1>8, Listing, Popped
<1>10. buddies' = IF class \in BuddyClasses THEN [buddies EXCEPT ![class] = @ \ {BuddyIndex(b, class)}] ELSE buddies
  BY <1>1, TopClass DEF Take
<1>11. BitsMatch(C)' BY <1>1, <1>2, <1>3, <1>5, <1>10, Listing, BitsWithout
<1> HIDE DEF b, s
<1>12. Covered(B) = free_pages BY <1>1, <1>2 DEF Coverage, Loose, Claimed
<1>13. /\ Busy' = PageRange(b, count) /\ Busy = {}
       /\ Loose' = b + count .. b + s - 1 /\ Claimed' = {}
  BY <1>1 DEF Busy, Loose, Claimed, s
<1>14. count \in Nat /\ 1 <= count /\ count <= s BY <1>1, <1>4 DEF s
<1>15. \A p : p \in Loose' <=> p \in PageRange(b, s) /\ p \notin PageRange(b, count)
  BY <1>4, <1>13, <1>14 DEF PageRange
<1>16. PageRange(b, count) \subseteq PageRange(b, s) BY <1>4, <1>14 DEF PageRange
<1>17. Coverage(C)' BY <1>1, <1>6, <1>12, <1>13, <1>15, <1>16 DEF Coverage, Covered
<1>18. ListsMatch' BY <1>2, <1>6, <1>7, <1>9, <1>11, <1>17 DEF ListsMatch, Shape, Placed, Apart
<1>19. PageRange(b, count) \subseteq free_pages BY <1>6, <1>12, <1>16
<1>20. free_memory' = Cardinality(free_pages') /\ free_memory' \in 0 .. PageCount
  <2>1. free_pages' \in SUBSET Pages /\ free_pages \in SUBSET Pages BY <1>1, Listing
  <2>2. IsFiniteSet(free_pages') /\ Cardinality(free_pages') \in 0 .. PageCount BY <1>0, <2>1, PagesFinite
  <2>3. IsFiniteSet(PageRange(b, count)) /\ Cardinality(PageRange(b, count)) = count
    BY <1>4, <1>14, PagesFinite
  <2>4. free_pages' \cup PageRange(b, count) = free_pages /\ free_pages' \cap PageRange(b, count) = {}
    BY <1>1, <1>19
  <2>5. Cardinality(free_pages) = Cardinality(free_pages') + count BY <2>2, <2>3, <2>4, CountApart
  <2>6. Cardinality(free_pages) = free_memory BY DEF IInv, Books
  <2> QED BY <1>1, <1>14, <2>2, <2>5, <2>6
<1>21. Books'
  <2>1. /\ free_pages \cup held = usable_pages /\ free_pages \cap held = {}
        /\ \A p \in Pages \ free_pages : next[p] = Garbage /\ prev[p] = Garbage /\ tag[p] = Garbage
    BY <1>13 DEF IInv, Books
  <2>2. \A p \in Pages \ free_pages : p \notin B[class] BY <1>12, <1>1, <1>2, BlockPages DEF Covered, Placed
  <2>3. ASSUME NEW p \in Pages \ free_pages PROVE next'[p] = Garbage /\ prev'[p] = Garbage /\ tag'[p] = Garbage
    <3>1. next[b] \in B[class] \cup {NULL} BY <1>1, <1>2, <1>3 DEF Linked
    <3>2. next' = next /\ tag' = tag /\ prev' = [q \in Pages |-> IF q = next[b] THEN NULL ELSE prev[q]]
      BY <1>8 DEF pop_freelist, b
    <3>3. p # next[b] BY <2>2, <3>1, NullIsNoPage
    <3> QED BY <2>1, <3>2, <3>3
  <2>4. free_pages' \cup Busy' = free_pages /\ free_pages' \cap Busy' = {} BY <1>1, <1>13, <1>19
  <2>5. free_pages' \cup held' \cup Busy' = usable_pages' /\ free_pages' \cap held' = {} /\ held' \cap Busy' = {}
    BY <1>1, <2>1, <2>4
  <2> QED BY <1>20, <2>3, <2>4, <2>5 DEF Books
<1>22. TypeOK'
  <2>1. DOMAIN buddies' = BuddyClasses /\ \A k \in BuddyClasses : buddies'[k] \subseteq buddies[k]
    BY <1>10 DEF IInv, TypeOK
  <2>2. \A k \in BuddyClasses : buddies'[k] \subseteq 0 .. PageCount \div Pow2[k + 1] - 1
    BY <2>1 DEF IInv, TypeOK
  <2>3. b \in 0 .. PageCount /\ count \in 0 .. count /\ class \in -1 .. CLASS_COUNT
    BY <1>0, <1>1, <1>4, <1>14 DEF Classes
  <2>4. free_pages' \subseteq Pages BY <1>1, Listing
  <2>5. usable_pages \subseteq Pages /\ held \subseteq Pages /\ available_memory \in 0 .. PageCount
        /\ booted \in BOOLEAN /\ exact \in BOOLEAN
    BY DEF IInv, TypeOK
  <2> QED BY <1>1, <1>9, <1>14, <1>20, <2>1, <2>2, <2>3, <2>4, <2>5 DEF TypeOK, LinkTypes
<1>23. Booting' BY <1>1 DEF IInv, Booting
<1>24. Underway' BY <1>1, <1>4, <1>14 DEF Underway, s
<1> QED BY <1>18, <1>21, <1>22, <1>23, <1>24 DEF IInv

\* The upper half is needed too.
LEMMA SplitUpperInv ==
  ASSUME IInv, SplitUpper PROVE IInv'
<1>0. CLASS_COUNT \in Nat /\ PageCount \in Nat BY ClassFacts, PageCountAssumption
<1> DEFINE s == Pow2[class - 1]
<1>1. /\ pc = "split" /\ class > 0 /\ remaining > s
      /\ remaining' = remaining - s /\ page' = page + s /\ class' = class - 1
      /\ pc' = pc /\ exact' = exact /\ begin' = begin /\ count' = count /\ held' = held
      /\ UNCHANGED <<accounts, lists, buddies, boot>>
  BY DEF SplitUpper
<1>2. /\ class \in Classes /\ is_aligned(page, class) /\ page \in Pages
      /\ remaining \in 1 .. Pow2[class] /\ page + remaining = begin + count /\ begin <= page
      /\ begin \in 0 .. PageCount /\ count \in Nat
  BY <1>1 DEF IInv, Underway, TypeOK
<1>3. class - 1 \in Nat /\ class - 1 \in Classes /\ (class - 1) + 1 = class BY <1>0, <1>1, <1>2 DEF Classes
<1>4. s \in Nat \ {0} /\ Pow2[class] = 2 * s BY <1>3, Pow2Type
<1>5. page \in Nat /\ page + 2 * s <= PageCount BY <1>0, <1>2, <1>4, Fits DEF Pages
<1>6. is_aligned(page + s, class - 1) BY <1>2, <1>3, <1>5, Halves
<1> HIDE DEF s
<1>7. page' \in Pages /\ page' \in 0 .. PageCount BY <1>0, <1>1, <1>4, <1>5 DEF Pages
<1>8. remaining' \in 1 .. s /\ page' + remaining' = begin + count /\ begin <= page' /\ remaining' \in 0 .. count
  BY <1>0, <1>1, <1>2, <1>4, <1>5
<1>9. Pow2[class'] = s BY <1>1 DEF s
<1>10. Loose' = Loose /\ Claimed' = Claimed /\ Busy' = Busy
  BY <1>1, <1>4, <1>5, <1>9 DEF Loose, Claimed, Busy, s
<1>11. PICK B \in [Classes -> SUBSET Pages], rank \in [Pages -> Nat] : Shape(B, rank) /\ Coverage(B)
  BY Listing
<1>12. Shape(B, rank)' BY <1>1, <1>11, ShapeKept
<1>13. Coverage(B)' BY <1>1, <1>10, <1>11 DEF Coverage, accounts
<1>14. ListsMatch' BY <1>12, <1>13 DEF ListsMatch
<1>15. Books' BY <1>1, <1>10 DEF IInv, Books, accounts, lists
<1>16. class' \in -1 .. CLASS_COUNT BY <1>0, <1>1, <1>3 DEF Classes
<1>17. TypeOK' BY <1>1, <1>7, <1>8, <1>16 DEF IInv, TypeOK, accounts, lists, boot
<1>18. Booting' BY <1>1 DEF IInv, Booting, boot
<1>19. Underway' BY <1>1, <1>3, <1>6, <1>7, <1>8, <1>9 DEF Underway, s
<1> QED BY <1>14, <1>15, <1>17, <1>18, <1>19 DEF IInv

\* The whole block is used.
LEMMA SplitDoneInv ==
  ASSUME IInv, SplitDone PROVE IInv'
<1>0. CLASS_COUNT \in Nat /\ PageCount \in Nat BY ClassFacts, PageCountAssumption
<1>1. /\ pc = "split" /\ class = 0 /\ pc' = "return" /\ held' = held
      /\ UNCHANGED <<accounts, lists, buddies, boot, locals>>
  BY DEF SplitDone, Goto
<1>2. /\ class \in Classes /\ is_aligned(page, class) /\ page \in Pages
      /\ remaining \in 1 .. Pow2[class] /\ page + remaining = begin + count
      /\ begin \in 0 .. PageCount /\ count \in Nat
  BY <1>1 DEF IInv, Underway, TypeOK
<1>3. Pow2[class] = 1 /\ page \in Nat /\ page < PageCount BY <1>0, <1>1, <1>2, Pow2Type DEF Pages
<1>4. begin + count = page + 1 BY <1>2, <1>3
<1>5. begin + count <= PageCount BY <1>0, <1>3, <1>4
<1>6. Loose = {} /\ Loose' = {} /\ Claimed' = Claimed /\ Busy' = Busy
  BY <1>1, <1>3, <1>4 DEF Loose, Claimed, Busy, locals
<1>7. PICK B \in [Classes -> SUBSET Pages], rank \in [Pages -> Nat] : Shape(B, rank) /\ Coverage(B)
  BY Listing
<1>8. Shape(B, rank)' BY <1>1, <1>7, ShapeKept
<1>9. Coverage(B)' BY <1>1, <1>6, <1>7 DEF Coverage, accounts
<1>10. ListsMatch' BY <1>8, <1>9 DEF ListsMatch
<1>11. Books' BY <1>1, <1>6 DEF IInv, Books, accounts, lists
<1>12. TypeOK' BY <1>1 DEF IInv, TypeOK, accounts, lists, boot, locals
<1>13. Booting' BY <1>1 DEF IInv, Booting, boot
<1>14. Underway' BY <1>1, <1>5 DEF Underway, locals
<1> QED BY <1>10, <1>11, <1>12, <1>13, <1>14 DEF IInv

\* Putting a block on a list writes to the block and the first of the list only.
LEMMA AddedWrites ==
  ASSUME LinkTypes, NEW k \in Classes, NEW p \in Pages, add_to_freelist(p, k),
         NEW q \in Pages, q # p, q # freelist[k]
  PROVE  next'[q] = next[q] /\ prev'[q] = prev[q] /\ tag'[q] = tag[q]
<1>1. next'[q] = next[q] /\ tag'[q] = tag[q] BY DEF add_to_freelist, LinkTypes
<1>2. prev'[q] = CASE q = freelist[k] -> p [] q = p -> NULL [] OTHER -> prev[q] BY DEF add_to_freelist
<1>3. prev'[q] = prev[q] BY <1>2
<1> QED BY <1>1, <1>3

\* Taking a block off its list writes to its neighbours only.
LEMMA RemovedWrites ==
  ASSUME NEW k \in Classes, NEW p \in Pages, remove_from_freelist(p, k),
         NEW q \in Pages, q # next[p], q # prev[p]
  PROVE  next'[q] = next[q] /\ prev'[q] = prev[q] /\ tag'[q] = tag[q]
  BY DEF remove_from_freelist

\* Setting or clearing the bit of a block keeps the bits within their range.
LEMMA BitsKeepType ==
  ASSUME TypeOK, NEW k \in Classes, NEW b \in Pages, is_aligned(b, k),
         \/ buddies' = buddies
         \/ k \in BuddyClasses /\ buddies' = [buddies EXCEPT ![k] = @ \cup {BuddyIndex(b, k)}]
         \/ k \in BuddyClasses /\ buddies' = [buddies EXCEPT ![k] = @ \ {BuddyIndex(b, k)}]
  PROVE  /\ DOMAIN buddies' = BuddyClasses
         /\ \A j \in BuddyClasses : buddies'[j] \subseteq 0 .. PageCount \div Pow2[j + 1] - 1
<1>1. /\ DOMAIN buddies = BuddyClasses
      /\ \A j \in BuddyClasses : buddies[j] \subseteq 0 .. PageCount \div Pow2[j + 1] - 1
  BY DEF TypeOK
<1>2. k \in BuddyClasses => BuddyIndex(b, k) \in 0 .. PageCount \div Pow2[k + 1] - 1 BY BitsTyped
<1>3. DOMAIN buddies' = BuddyClasses BY <1>1
<1>4. ASSUME NEW j \in BuddyClasses PROVE buddies'[j] \subseteq 0 .. PageCount \div Pow2[j + 1] - 1
  <2>1. \/ buddies'[j] = buddies[j]
        \/ j = k /\ buddies'[j] = buddies[j] \cup {BuddyIndex(b, k)}
        \/ j = k /\ buddies'[j] = buddies[j] \ {BuddyIndex(b, k)}
    BY <1>1
  <2> QED BY <1>1, <1>2, <2>1
<1> QED BY <1>3, <1>4

\* The upper half goes back to its list.
LEMMA SplitLowerInv ==
  ASSUME IInv, SplitLower PROVE IInv'
<1>0. CLASS_COUNT \in Nat /\ PageCount \in Nat BY ClassFacts, PageCountAssumption
<1> DEFINE k == class - 1
           s == Pow2[k]
           u == page + s
<1>1. /\ pc = "split" /\ class > 0 /\ remaining <= s /\ BuddyIndex(page, k) \notin buddies[k]
      /\ pc' = IF remaining = s THEN "return" ELSE "split"
      /\ add_to_freelist(u, k)
      /\ buddies' = [buddies EXCEPT ![k] = @ \cup {BuddyIndex(page, k)}]
      /\ class' = k /\ remaining' = remaining /\ page' = page
      /\ exact' = exact /\ begin' = begin /\ count' = count /\ held' = held
      /\ UNCHANGED <<accounts, boot>>
  BY DEF SplitLower, SplitAsserts
<1>2. /\ class \in Classes /\ is_aligned(page, class) /\ page \in Pages
      /\ remaining \in 1 .. Pow2[class] /\ page + remaining = begin + count /\ begin <= page
      /\ begin \in 0 .. PageCount /\ count \in Nat
  BY <1>1 DEF IInv, Underway, TypeOK
<1>3. k \in Nat /\ k \in Classes /\ k + 1 = class /\ k \in BuddyClasses
  BY <1>0, <1>1, <1>2 DEF Classes, BuddyClasses
<1>4. s \in Nat \ {0} /\ Pow2[class] = 2 * s BY <1>3, Pow2Type
<1>5. page \in Nat /\ page + 2 * s <= PageCount BY <1>0, <1>2, <1>4, Fits DEF Pages
<1>6. is_aligned(page, k) /\ is_aligned(u, k) BY <1>2, <1>3, <1>5, Halves
<1>7. u \in Pages BY <1>0, <1>4, <1>5 DEF Pages
<1>8. BuddyIndex(u, k) = BuddyIndex(page, k)
  <2>1. PICK h \in Nat : page = Pow2[k + 1] * h BY <1>2, <1>3, <1>5, AlignedMultiple
  <2>2. Pow2[k + 1] \in Nat \ {0} /\ s \in 0 .. Pow2[k + 1] - 1 /\ 0 \in 0 .. Pow2[k + 1] - 1 BY <1>3, <1>4
  <2>3. (Pow2[k + 1] * h + 0) \div Pow2[k + 1] = h /\ (Pow2[k + 1] * h + s) \div Pow2[k + 1] = h BY <2>2, Unique
  <2>4. Pow2[k + 1] * h + 0 = page BY <1>5, <2>1
  <2> QED BY <2>1, <2>3, <2>4 DEF BuddyIndex
<1>9. PICK B \in [Classes -> SUBSET Pages], rank \in [Pages -> Nat] :
        Shape(B, rank) /\ Coverage(B) /\ Placed(B) /\ Apart(B) /\ Linked(B, rank) /\ BitsMatch(B)
  BY Listing
<1> HIDE DEF k, s, u
<1>10. begin + count <= u /\ begin + count = page + remaining BY <1>1, <1>2, <1>4, <1>5 DEF u
<1>11. Loose = begin + count .. page + 2 * s - 1 /\ Loose' = begin + count .. u - 1 /\ Claimed = {} /\ Claimed' = {}
  <2>1. Loose = begin + count .. page + 2 * s - 1 /\ Claimed = {} BY <1>1, <1>4 DEF Loose, Claimed
  <2>2. CASE remaining = s
    <3>1. begin + count .. u - 1 = {} BY <1>2, <1>4, <1>5, <1>10, <2>2 DEF u
    <3> QED BY <1>1, <2>1, <2>2, <3>1 DEF Loose, Claimed
  <2>3. CASE remaining # s
    <3>1. pc' = "split" BY <1>1, <2>3
    <3>2. page' = page /\ class' = k BY <1>1
    <3>3. page' + Pow2[class'] - 1 = u - 1
      <4>1. page' \in Nat /\ Pow2[class'] = s BY <1>5, <3>2 DEF s
      <4>2. page' + s - 1 = page + s - 1 /\ page + s - 1 = (page + s) - 1 BY <1>4, <1>5, <3>2
      <4> QED BY <4>1, <4>2 DEF u
    <3>4. Loose' = begin' + count' .. page' + Pow2[class'] - 1 /\ Claimed' = {} BY <3>1 DEF Loose, Claimed
    <3>5. begin' = begin /\ count' = count BY <1>1
    <3>6. Loose' = begin + count .. u - 1 BY <3>3, <3>4, <3>5, Zenon
    <3> QED BY <2>1, <3>4, <3>6
  <2> QED BY <2>2, <2>3
<1>12. PageRange(u, s) \subseteq Loose /\ PageRange(u, s) \cap Loose' = {} /\ Loose' \cup PageRange(u, s) = Loose
  <2>1. \A p : p \in PageRange(u, s) <=> p \in Int /\ u <= p /\ p < u + s BY <1>3, <1>6, <1>7, BlockPages DEF s
  <2>2. u = page + s /\ u \in Nat BY <1>4, <1>5 DEF u
  <2>3. begin + count \in Nat BY <1>2
  <2> QED BY <1>4, <1>5, <1>10, <1>11, <2>1, <2>2, <2>3
<1>13. Covered(B) \cup Loose = free_pages /\ Covered(B) \cap Loose = {} BY <1>9, <1>11 DEF Coverage
<1>14. PICK C : C = [B EXCEPT ![k] = @ \cup {u}] OBVIOUS
<1>15. Placed(C) /\ Apart(C) /\ u \notin B[k] /\ Covered(C) = Covered(B) \cup PageRange(u, s)
  BY <1>3, <1>6, <1>7, <1>9, <1>12, <1>13, <1>14, CoverWith DEF s
<1>16. C \in [Classes -> SUBSET Pages] BY <1>15 DEF Placed
<1>17. \A j \in Classes : u \notin B[j]
  <2>1. u \in Loose BY <1>3, <1>6, <1>7, <1>12, BlockPages DEF s
  <2>2. \A j \in Classes : \A b \in B[j] : b \in Covered(B) BY <1>9, BlockPages DEF Covered, Placed
  <2> QED BY <1>13, <2>1, <2>2
<1>18. LinkTypes' /\ \E r \in [Pages -> Nat] : Linked(C, r)'
  BY <1>1, <1>3, <1>7, <1>9, <1>14, <1>16, <1>17, Listing, Added
<1>19. BitsMatch(C)'
  BY <1>1, <1>3, <1>6, <1>7, <1>8, <1>9, <1>14, <1>15, Listing, BitsWith
<1>20. Coverage(C)'
  <2>1. free_pages' = free_pages /\ Covered(C)' = Covered(C) BY <1>1 DEF accounts, Covered
  <2>2. Covered(C) \cup Loose' = free_pages /\ Covered(C) \cap Loose' = {} BY <1>12, <1>13, <1>15
  <2> QED BY <1>11, <2>1, <2>2 DEF Coverage
<1>21. ListsMatch' BY <1>15, <1>16, <1>18, <1>19, <1>20 DEF ListsMatch, Shape, Placed, Apart
<1>22. Busy' = Busy BY <1>1 DEF Busy
<1>23. Books'
  <2>1. ASSUME NEW p \in Pages \ (free_pages \cup Busy)
        PROVE  next'[p] = Garbage /\ prev'[p] = Garbage /\ tag'[p] = Garbage
    <3>1. next[p] = Garbage /\ prev[p] = Garbage /\ tag[p] = Garbage BY DEF IInv, Books
    <3>2. p # u BY <1>3, <1>6, <1>7, <1>12, <1>13, BlockPages DEF s
    <3>3. p # freelist[k]
      <4>1. freelist[k] # NULL => freelist[k] \in B[k] BY <1>3, <1>9 DEF Linked
      <4>2. \A b \in B[k] : b \in Covered(B) BY <1>3, <1>9, BlockPages DEF Covered, Placed
      <4> QED BY <1>13, <4>1, <4>2, NullIsNoPage
    <3> QED BY <1>1, <1>3, <1>7, <3>1, <3>2, <3>3, Listing, AddedWrites
  <2> QED BY <1>1, <1>22, <2>1 DEF IInv, Books, accounts
<1>24. TypeOK'
  <2>1. /\ DOMAIN buddies' = BuddyClasses
        /\ \A j \in BuddyClasses : buddies'[j] \subseteq 0 .. PageCount \div Pow2[j + 1] - 1
    BY <1>1, <1>2, <1>3, <1>6, BitsKeepType DEF IInv
  <2>2. class' \in -1 .. CLASS_COUNT BY <1>0, <1>1, <1>3 DEF Classes
  <2>3. pc' \in {"split", "return"} BY <1>1
  <2>4. TypeOK BY DEF IInv
  <2> QED BY <1>1, <1>18, <2>1, <2>2, <2>3, <2>4 DEF TypeOK, LinkTypes, accounts, boot
<1>25. Booting' BY <1>1 DEF IInv, Booting, boot
<1>26. Underway'
  <2>1. remaining \in 1 .. Pow2[k] BY <1>1, <1>2, <1>4 DEF s
  <2>2. begin + count <= PageCount BY <1>0, <1>2, <1>4, <1>5, <1>10 DEF u
  <2> QED BY <1>1, <1>2, <1>3, <1>6, <2>1, <2>2 DEF Underway
<1> QED BY <1>21, <1>23, <1>24, <1>25, <1>26 DEF IInv

\* The pages go to the client.
LEMMA HandOutInv ==
  ASSUME IInv, HandOut PROVE IInv'
<1>0. CLASS_COUNT \in Nat /\ PageCount \in Nat BY ClassFacts, PageCountAssumption
<1> DEFINE given == PageRange(begin, count)
<1>1. /\ pc = "return" /\ pc' = "idle" /\ exact' = FALSE
      /\ begin' = 0 /\ count' = 0 /\ class' = 0 /\ page' = 0 /\ remaining' = 0
      /\ held' = held \cup given
      /\ next' = [p \in Pages |-> IF p \in given THEN Garbage ELSE next[p]]
      /\ prev' = [p \in Pages |-> IF p \in given THEN Garbage ELSE prev[p]]
      /\ tag' = [p \in Pages |-> IF p \in given THEN Garbage ELSE tag[p]]
      /\ freelist' = freelist /\ buddies' = buddies
      /\ UNCHANGED <<accounts, boot>>
  BY DEF HandOut, Return
<1>2. begin + count <= PageCount /\ begin \in Nat /\ count \in Nat BY <1>1 DEF IInv, Underway, TypeOK
<1>3. given \in SUBSET Pages BY <1>0, <1>2 DEF Pages, PageRange
<1> HIDE DEF given
<1>4. Busy = given /\ Busy' = {} /\ Loose = {} /\ Loose' = {} /\ Claimed = {} /\ Claimed' = {}
  BY <1>1 DEF Busy, Loose, Claimed, given
<1>5. PICK B \in [Classes -> SUBSET Pages], rank \in [Pages -> Nat] :
        Shape(B, rank) /\ Coverage(B) /\ Placed(B) /\ Apart(B) /\ Linked(B, rank) /\ BitsMatch(B)
  BY Listing
<1>6. Covered(B) = free_pages BY <1>4, <1>5 DEF Coverage
<1>7. /\ free_pages \cup held \cup given = usable_pages /\ free_pages \cap held = {}
      /\ free_pages \cap given = {} /\ held \cap given = {} /\ Cardinality(free_pages) = free_memory
      /\ \A p \in Pages \ (free_pages \cup given) : next[p] = Garbage /\ prev[p] = Garbage /\ tag[p] = Garbage
  BY <1>4 DEF IInv, Books
<1>8. \A k \in Classes : B[k] \cap given = {}
  <2>1. \A k \in Classes : \A b \in B[k] : b \in Covered(B) BY <1>5, BlockPages DEF Covered, Placed
  <2> QED BY <1>6, <1>7, <2>1
<1>9. LinkTypes' /\ Linked(B, rank)' BY <1>1, <1>3, <1>5, <1>8, Listing, Overwriting
<1>10. BitsMatch(B)' BY <1>1, <1>5 DEF BitsMatch
<1>11. Coverage(B)' BY <1>1, <1>4, <1>6 DEF Coverage, Covered, accounts
<1>12. ListsMatch' BY <1>5, <1>9, <1>10, <1>11 DEF ListsMatch, Shape, Placed, Apart
<1>13. Books'
  <2>1. ASSUME NEW p \in Pages \ free_pages PROVE next'[p] = Garbage /\ prev'[p] = Garbage /\ tag'[p] = Garbage
    BY <1>1, <1>7
  <2> QED BY <1>1, <1>4, <1>7, <2>1 DEF Books, accounts
<1>14. TypeOK'
  <2>1. exact' \in BOOLEAN BY <1>1, Zenon
  <2>2. TypeOK BY DEF IInv
  <2> QED BY <1>0, <1>1, <1>3, <1>9, <2>1, <2>2 DEF TypeOK, LinkTypes, accounts, boot
<1>15. Booting' BY <1>1 DEF IInv, Booting, boot
<1>16. Underway' BY <1>1 DEF Underway
<1> QED BY <1>12, <1>13, <1>14, <1>15, <1>16 DEF IInv

\* Where a release stands
LEMMA Releasing ==
  ASSUME IInv, pc = "release"
  PROVE  /\ begin \in Nat /\ count \in Nat /\ remaining \in Nat /\ remaining <= count
         /\ begin + count <= PageCount /\ Current = begin + (count - remaining)
         /\ Busy = PageRange(begin, count) /\ Busy \subseteq Pages
         /\ remaining > 0 => /\ class \in Classes /\ is_aligned(page, class) /\ page \in Pages
                             /\ Current \in PageRange(page, Pow2[class]) /\ Current \in Pages /\ Current \in Busy
                             /\ Loose = PageRange(page, Pow2[class]) /\ Claimed = begin .. Current
<1>0. PageCount \in Nat BY PageCountAssumption
<1>1. begin \in Nat /\ count \in Nat /\ remaining \in Nat /\ remaining <= count BY <1>0 DEF IInv, TypeOK
<1>2. begin + count <= PageCount BY DEF IInv, Underway
<1>3. Current = begin + (count - remaining) BY <1>1 DEF Current
<1>4. Busy = PageRange(begin, count) BY DEF Busy
<1>5. Busy \subseteq Pages BY <1>0, <1>1, <1>2, <1>4 DEF PageRange, Pages
<1>6. ASSUME remaining > 0
      PROVE  /\ class \in Classes /\ is_aligned(page, class) /\ page \in Pages
             /\ Current \in PageRange(page, Pow2[class]) /\ Current \in Busy
             /\ Loose = PageRange(page, Pow2[class]) /\ Claimed = begin .. Current
  <2>1. Current \in Busy BY <1>1, <1>3, <1>4, <1>6 DEF PageRange
  <2> HIDE DEF Current
  <2> QED BY <1>6, <2>1 DEF IInv, Underway, Loose, Claimed
<1> QED BY <1>1, <1>2, <1>3, <1>4, <1>5, <1>6

\* Two free buddies become one block.
LEMMA MergeInv ==
  ASSUME IInv, Merge PROVE IInv'
<1>0. CLASS_COUNT \in Nat /\ PageCount \in Nat BY ClassFacts, PageCountAssumption
<1> DEFINE u == Buddy(page, class)
           s == Pow2[class]
           i == BuddyIndex(page, class)
           low == IF page < u THEN page ELSE u
<1>1. /\ pc = "release" /\ remaining > 0 /\ class \in BuddyClasses /\ is_aligned(page, class)
      /\ i \in buddies[class] /\ buddies' = [buddies EXCEPT ![class] = @ \ {i}]
      /\ remove_from_freelist(u, class) /\ page' = low /\ class' = class + 1
      /\ pc' = pc /\ exact' = exact /\ begin' = begin /\ count' = count /\ remaining' = remaining /\ held' = held
      /\ UNCHANGED <<accounts, boot>>
  BY DEF Merge, BuddyIsFree
<1>2. /\ class \in Classes /\ page \in Pages /\ Current \in PageRange(page, s) /\ Current \in Pages
      /\ Loose = PageRange(page, s) /\ Claimed = begin .. Current
      /\ Busy = PageRange(begin, count)
  BY <1>1, Releasing
<1>3. /\ class \in Nat /\ class + 1 \in Classes /\ class + 1 \in Nat /\ s \in Nat \ {0} /\ Pow2[class + 1] = 2 * s
  BY <1>1, <1>2, ClassFacts
<1>4. PICK B \in [Classes -> SUBSET Pages], rank \in [Pages -> Nat] :
        Shape(B, rank) /\ Coverage(B) /\ Placed(B) /\ Apart(B) /\ Linked(B, rank) /\ BitsMatch(B)
  BY Listing
<1>5. /\ i \in Pairs(class) /\ i \in Nat
      /\ \/ page = LowerHalf(i, class) /\ u = UpperHalf(i, class)
         \/ page = UpperHalf(i, class) /\ u = LowerHalf(i, class)
  BY <1>1, <1>2, BuddyPair
<1> HIDE DEF u, s, i
<1>6. page \notin B[class]
  <2>1. page \in Loose BY <1>1, <1>2, BlockPages DEF s
  <2>2. \A b \in B[class] : b \in Covered(B) BY <1>2, <1>4, BlockPages DEF Covered, Placed
  <2> QED BY <1>4, <2>1, <2>2 DEF Coverage
<1>7. u \in B[class] BY <1>1, <1>4, <1>5, <1>6 DEF BitsMatch
<1>8. /\ LowerHalf(i, class) \in Pages /\ UpperHalf(i, class) = LowerHalf(i, class) + s
      /\ is_aligned(LowerHalf(i, class), class + 1) /\ BuddyIndex(u, class) = i
  BY <1>1, <1>5, PairBlock DEF s
<1>9. u \in Pages /\ page \in Nat /\ u \in Nat /\ low = LowerHalf(i, class)
  <2>1. u \in Pages BY <1>2, <1>7
  <2>2. page \in Nat /\ u \in Nat /\ LowerHalf(i, class) \in Nat BY <1>0, <1>2, <1>8, <2>1 DEF Pages
  <2> QED BY <1>3, <1>5, <1>8, <2>1, <2>2
<1> HIDE DEF low
<1>10. PICK C : C = [B EXCEPT ![class] = @ \ {u}] OBVIOUS
<1>11. /\ Placed(C) /\ Apart(C) /\ Covered(C) = Covered(B) \ PageRange(u, s)
       /\ PageRange(u, s) \subseteq Covered(B)
  BY <1>2, <1>4, <1>7, <1>10, CoverWithout DEF s
<1>12. C \in [Classes -> SUBSET Pages] BY <1>11 DEF Placed
<1>13. LinkTypes' /\ Linked(C, rank)' BY <1>1, <1>2, <1>4, <1>7, <1>10, <1>12, Listing, Removed
<1>14. BitsMatch(C)' BY <1>1, <1>2, <1>4, <1>7, <1>8, <1>10, Listing, BitsWithout
<1>15. PageRange(low, 2 * s) = PageRange(page, s) \cup PageRange(u, s)
  <2>1. \/ page = low /\ u = low + s
        \/ page = low + s /\ u = low
    BY <1>5, <1>8, <1>9
  <2>2. low \in Nat BY <1>0, <1>8, <1>9 DEF Pages
  <2> QED BY <1>3, <2>1, <2>2 DEF PageRange
<1>16. /\ Pow2[class'] = 2 * s /\ Current' = Current /\ Claimed' = Claimed /\ Busy' = Busy
       /\ Loose' = PageRange(low, 2 * s)
  <2>1. Pow2[class'] = 2 * s BY <1>1, <1>3
  <2>2. Current' = Current BY <1>1 DEF Current
  <2>3. Claimed' = Claimed /\ Busy' = Busy BY <1>1, <2>2 DEF Claimed, Busy
  <2>4. Loose' = PageRange(page', Pow2[class']) BY <1>1 DEF Loose
  <2> QED BY <1>1, <2>1, <2>2, <2>3, <2>4
<1>17. Coverage(C)'
  <2>1. Covered(B) \cup PageRange(page, s) = free_pages \cup Claimed /\ Covered(B) \cap PageRange(page, s) = {}
    BY <1>2, <1>4 DEF Coverage
  <2>2. Covered(C) \cup PageRange(low, 2 * s) = free_pages \cup Claimed /\ Covered(C) \cap PageRange(low, 2 * s) = {}
    BY <1>11, <1>15, <2>1
  <2>3. free_pages' = free_pages /\ Covered(C)' = Covered(C) BY <1>1 DEF accounts, Covered
  <2> QED BY <1>16, <2>2, <2>3 DEF Coverage
<1>18. ListsMatch' BY <1>11, <1>12, <1>13, <1>14, <1>17 DEF ListsMatch, Shape, Placed, Apart
<1>19. Books'
  <2>1. \A b \in B[class] : b \in Covered(B) BY <1>2, <1>4, BlockPages DEF Covered, Placed
  <2>2. Covered(B) \subseteq free_pages \cup Busy
    <3>1. Claimed \subseteq Busy
      <4>1. \A p \in Claimed : p \in PageRange(begin, count) BY <1>1, <1>2, Releasing DEF PageRange
      <4> QED BY <1>2, <4>1
    <3> QED BY <1>4, <3>1 DEF Coverage
  <2>3. ASSUME NEW p \in Pages \ (free_pages \cup Busy)
        PROVE  next'[p] = Garbage /\ prev'[p] = Garbage /\ tag'[p] = Garbage
    <3>1. next[p] = Garbage /\ prev[p] = Garbage /\ tag[p] = Garbage BY DEF IInv, Books
    <3>2. next[u] \in B[class] \cup {NULL} /\ prev[u] \in B[class] \cup {NULL} BY <1>2, <1>4, <1>7 DEF Linked
    <3>3. p # next[u] /\ p # prev[u] BY <2>1, <2>2, <3>2, NullIsNoPage
    <3> QED BY <1>1, <1>2, <1>9, <3>1, <3>3, RemovedWrites
  <2> QED BY <1>1, <1>16, <2>3 DEF IInv, Books, accounts
<1>20. TypeOK'
  <2>1. /\ DOMAIN buddies' = BuddyClasses
        /\ \A j \in BuddyClasses : buddies'[j] \subseteq 0 .. PageCount \div Pow2[j + 1] - 1
    BY <1>1, <1>2, BitsKeepType DEF IInv, i
  <2>2. class' \in -1 .. CLASS_COUNT /\ page' \in 0 .. PageCount BY <1>0, <1>1, <1>3, <1>8, <1>9 DEF Classes, Pages
  <2>3. TypeOK BY DEF IInv
  <2> QED BY <1>1, <1>13, <2>1, <2>2, <2>3 DEF TypeOK, LinkTypes, accounts, boot
<1>21. Booting' BY <1>1 DEF IInv, Booting, accounts, boot
<1>22. Underway'
  <2>1. Current' \in PageRange(page', Pow2[class']) BY <1>1, <1>2, <1>15, <1>16
  <2>2. class' \in Classes /\ is_aligned(page', class') /\ page' \in Pages BY <1>1, <1>3, <1>8, <1>9
  <2>3. begin' + count' <= PageCount BY <1>1, Releasing
  <2> HIDE DEF Current
  <2> QED BY <1>1, <2>1, <2>2, <2>3 DEF Underway
<1> QED BY <1>18, <1>19, <1>20, <1>21, <1>22 DEF IInv

\* The merged block goes on its list.
LEMMA AddBlockInv ==
  ASSUME IInv, AddBlock PROVE IInv'
<1>0. CLASS_COUNT \in Nat /\ PageCount \in Nat /\ 0 \in Classes /\ Pow2[0] = 1
  BY ClassFacts, ClassCountAssumption, PageCountAssumption, Pow2Type DEF Classes
<1> DEFINE s == Pow2[class]
           i == BuddyIndex(page, class)
<1>1. /\ pc = "release" /\ remaining > 0 /\ (class \in BuddyClasses => i \notin buddies[class])
      /\ buddies' = IF class \in BuddyClasses THEN [buddies EXCEPT ![class] = @ \cup {i}] ELSE buddies
      /\ add_to_freelist(page, class) /\ remaining' = remaining - 1 /\ page' = Current + 1 /\ class' = 0
      /\ pc' = pc /\ exact' = exact /\ begin' = begin /\ count' = count /\ held' = held
      /\ UNCHANGED <<accounts, boot>>
  BY DEF AddBlock, BuddyIsFree
<1>2. /\ class \in Classes /\ page \in Pages /\ is_aligned(page, class) /\ Current \in Pages
      /\ Loose = PageRange(page, s) /\ Claimed = begin .. Current /\ Busy = PageRange(begin, count)
      /\ begin \in Nat /\ count \in Nat /\ remaining \in Nat /\ remaining <= count
      /\ begin + count <= PageCount /\ Current = begin + (count - remaining)
  BY <1>1, Releasing
<1>3. PICK B \in [Classes -> SUBSET Pages], rank \in [Pages -> Nat] :
        Shape(B, rank) /\ Coverage(B) /\ Placed(B) /\ Apart(B) /\ Linked(B, rank) /\ BitsMatch(B)
  BY Listing
<1> HIDE DEF s, i
<1>4. Covered(B) \cup PageRange(page, s) = free_pages \cup Claimed /\ Covered(B) \cap PageRange(page, s) = {}
  BY <1>2, <1>3 DEF Coverage
<1>5. PICK C : C = [B EXCEPT ![class] = @ \cup {page}] OBVIOUS
<1>6. Placed(C) /\ Apart(C) /\ page \notin B[class] /\ Covered(C) = Covered(B) \cup PageRange(page, s)
  BY <1>2, <1>3, <1>4, <1>5, CoverWith DEF s
<1>7. C \in [Classes -> SUBSET Pages] BY <1>6 DEF Placed
<1>8. page \in PageRange(page, s) BY <1>2, BlockPages DEF s
<1>9. \A j \in Classes : \A b \in B[j] : b \in Covered(B) BY <1>3, BlockPages DEF Covered, Placed
<1>10. LinkTypes' /\ \E r \in [Pages -> Nat] : Linked(C, r)'
  <2>1. \A j \in Classes : page \notin B[j] BY <1>4, <1>8, <1>9
  <2> QED BY <1>1, <1>2, <1>3, <1>5, <1>7, <2>1, Listing, Added
<1>11. BitsMatch(C)' BY <1>1, <1>2, <1>3, <1>5, <1>6, Listing, BitsWith DEF i
<1>12. Current' = Current + 1 /\ Busy' = Busy
  BY <1>1, <1>2 DEF Current, Busy
<1>13. /\ remaining' > 0 => Claimed' = begin .. Current + 1 /\ Loose' = PageRange(Current + 1, 1)
       /\ ~(remaining' > 0) => Claimed' = begin .. Current /\ Loose' = {}
  <2>1. remaining' > 0 => Claimed' = begin .. Current' BY <1>1 DEF Claimed
  <2>2. ~(remaining' > 0) => Claimed' = begin .. Current' - 1 BY <1>1 DEF Claimed
  <2>3. Current' - 1 = Current BY <1>2, <1>12
  <2>4. remaining' > 0 => Loose' = PageRange(page', Pow2[class']) BY <1>1 DEF Loose
  <2>5. ~(remaining' > 0) => Loose' = {} BY <1>1 DEF Loose
  <2>6. page' = Current + 1 /\ Pow2[class'] = 1 BY <1>0, <1>1
  <2> QED BY <1>12, <2>1, <2>2, <2>3, <2>4, <2>5, <2>6
<1>14. remaining' > 0 => Current + 1 \in Busy BY <1>1, <1>2 DEF PageRange
<1>15. Coverage(C)'
  <2>1. Covered(C) = free_pages \cup Claimed BY <1>4, <1>6
  <2>2. free_pages' = free_pages /\ Covered(C)' = Covered(C) BY <1>1 DEF accounts, Covered
  <2>3. CASE remaining' > 0
    <3>1. Current \in Nat /\ begin <= Current BY <1>2
    <3>2. PageRange(Current + 1, 1) = {Current + 1} BY <3>1 DEF PageRange
    <3>3. begin .. Current + 1 = (begin .. Current) \cup {Current + 1} /\ Current + 1 \notin begin .. Current
      BY <1>2, <3>1
    <3>4. Current + 1 \notin free_pages BY <1>14, <2>3 DEF IInv, Books
    <3>5. Covered(C) \cap {Current + 1} = {} BY <1>2, <2>1, <3>3, <3>4
    <3>6. Covered(C) \cup {Current + 1} = free_pages \cup Claimed' BY <1>2, <1>13, <2>1, <2>3, <3>3
    <3>7. Loose' = {Current + 1} BY <1>13, <2>3, <3>2
    <3> QED BY <2>2, <3>5, <3>6, <3>7 DEF Coverage
  <2>4. CASE ~(remaining' > 0)
    <3>1. Loose' = {} /\ Claimed' = Claimed BY <1>2, <1>13, <2>4
    <3> QED BY <2>1, <2>2, <3>1 DEF Coverage
  <2> QED BY <2>3, <2>4
<1>16. ListsMatch' BY <1>6, <1>7, <1>10, <1>11, <1>15 DEF ListsMatch, Shape, Placed, Apart
<1>17. Books'
  <2>1. Claimed \subseteq Busy
    <3>1. \A p \in Claimed : p \in PageRange(begin, count) BY <1>1, <1>2 DEF PageRange
    <3> QED BY <1>2, <3>1
  <2>2. Covered(B) \subseteq free_pages \cup Busy /\ page \in free_pages \cup Busy BY <1>4, <1>8, <2>1
  <2>3. freelist[class] # NULL => freelist[class] \in B[class] BY <1>2, <1>3 DEF Linked
  <2>4. ASSUME NEW p \in Pages \ (free_pages \cup Busy)
        PROVE  next'[p] = Garbage /\ prev'[p] = Garbage /\ tag'[p] = Garbage
    <3>1. next[p] = Garbage /\ prev[p] = Garbage /\ tag[p] = Garbage BY DEF IInv, Books
    <3>2. p # page /\ p # freelist[class] BY <1>2, <1>9, <2>2, <2>3, NullIsNoPage
    <3> QED BY <1>1, <1>2, <3>1, <3>2, Listing, AddedWrites
  <2> QED BY <1>1, <1>12, <2>4 DEF IInv, Books, accounts
<1>18. TypeOK'
  <2>1. /\ DOMAIN buddies' = BuddyClasses
        /\ \A j \in BuddyClasses : buddies'[j] \subseteq 0 .. PageCount \div Pow2[j + 1] - 1
    BY <1>1, <1>2, BitsKeepType DEF IInv, i
  <2>2. class' \in -1 .. CLASS_COUNT BY <1>0, <1>1
  <2>3. page' \in 0 .. PageCount /\ remaining' \in 0 .. count BY <1>0, <1>1, <1>2
  <2>4. TypeOK BY DEF IInv
  <2> QED BY <1>1, <1>10, <2>1, <2>2, <2>3, <2>4 DEF TypeOK, LinkTypes, accounts, boot
<1>19. Booting' BY <1>1 DEF IInv, Booting, accounts, boot
<1>20. Underway'
  <2>1. begin' + count' <= PageCount /\ pc' = "release" BY <1>1, <1>2
  <2>2. ASSUME remaining' > 0
        PROVE  class' \in Classes /\ is_aligned(page', class') /\ page' \in Pages
               /\ Current' \in PageRange(page', Pow2[class'])
    <3>1. page' \in Pages BY <1>1, <1>2, <1>14, <2>2, Releasing
    <3>2. page' \in Nat BY <1>1, <1>2
    <3>3. \A x \in Nat : is_aligned(x, 0) /\ x \in PageRange(x, Pow2[0]) BY <1>0 DEF is_aligned, PageRange
    <3>4. page' = Current' /\ class' = 0 BY <1>1, <1>12
    <3>5. is_aligned(page', class') /\ page' \in PageRange(page', Pow2[class']) BY <3>2, <3>3, <3>4
    <3> QED BY <1>0, <3>1, <3>4, <3>5
  <2> HIDE DEF Current
  <2> QED BY <2>1, <2>2 DEF Underway
<1> QED BY <1>16, <1>17, <1>18, <1>19, <1>20 DEF IInv

\* All pages are back on the lists, and the accounts say so.
LEMMA ReleaseDoneInv ==
  ASSUME IInv, ReleaseDone PROVE IInv'
<1>0. CLASS_COUNT \in Nat /\ PageCount \in Nat BY ClassFacts, PageCountAssumption
<1>1. /\ pc = "release" /\ remaining = 0 /\ pc' = (IF booted THEN "idle" ELSE "boot") /\ exact' = FALSE
      /\ begin' = 0 /\ count' = 0 /\ class' = 0 /\ page' = 0 /\ remaining' = 0
      /\ free_memory' = free_memory + count /\ free_pages' = free_pages \cup PageRange(begin, count)
      /\ usable_pages' = usable_pages /\ held' = held
      /\ UNCHANGED <<lists, buddies, boot>>
  BY DEF ReleaseDone, Return
<1>2. /\ begin \in Nat /\ count \in Nat /\ Current = begin + (count - 0)
      /\ Busy = PageRange(begin, count) /\ Busy \subseteq Pages
  BY <1>1, Releasing
<1>3. Claimed = Busy /\ Loose = {}
  <2>1. Claimed = begin .. Current - 1 /\ Loose = {} BY <1>1 DEF Claimed, Loose
  <2>2. begin .. Current - 1 = begin .. begin + count - 1 BY <1>2
  <2> QED BY <1>2, <2>1, <2>2 DEF PageRange
<1>4. Claimed' = {} /\ Loose' = {} /\ Busy' = {} BY <1>1 DEF Claimed, Loose, Busy
<1>5. PICK B \in [Classes -> SUBSET Pages], rank \in [Pages -> Nat] : Shape(B, rank) /\ Coverage(B)
  BY Listing
<1>6. Shape(B, rank)' BY <1>1, <1>5, ShapeKept
<1>7. Coverage(B)' BY <1>1, <1>2, <1>3, <1>4, <1>5 DEF Coverage, Covered
<1>8. ListsMatch' BY <1>6, <1>7 DEF ListsMatch
<1>9. /\ free_pages \cup held \cup Busy = usable_pages /\ free_pages \cap held = {}
      /\ free_pages \cap Busy = {} /\ held \cap Busy = {} /\ Cardinality(free_pages) = free_memory
      /\ \A p \in Pages \ (free_pages \cup Busy) : next[p] = Garbage /\ prev[p] = Garbage /\ tag[p] = Garbage
  BY DEF IInv, Books
<1>10. free_memory' = Cardinality(free_pages') /\ free_memory' \in 0 .. PageCount
  <2>1. free_pages \in SUBSET Pages /\ free_pages' \in SUBSET Pages BY <1>1, <1>2, Listing
  <2>2. IsFiniteSet(free_pages) /\ Cardinality(free_pages') \in 0 .. PageCount BY <1>0, <2>1, PagesFinite
  <2>3. IsFiniteSet(PageRange(begin, count)) /\ Cardinality(PageRange(begin, count)) = count
    BY <1>2, PagesFinite
  <2>4. Cardinality(free_pages') = Cardinality(free_pages) + count BY <1>1, <1>2, <1>9, <2>2, <2>3, CountApart
  <2> QED BY <1>1, <1>9, <2>2, <2>4
<1>11. Books'
  <2>1. free_pages' = free_pages \cup Busy BY <1>1, <1>2
  <2> QED BY <1>1, <1>4, <1>9, <1>10, <2>1 DEF Books, lists
<1>12. TypeOK'
  <2>1. exact' \in BOOLEAN BY <1>1, Zenon
  <2>2. pc' \in {"idle", "boot"} BY <1>1
  <2>3. free_pages' \subseteq Pages BY <1>1, <1>2, Listing
  <2>4. TypeOK BY DEF IInv
  <2> QED BY <1>0, <1>1, <1>10, <2>1, <2>2, <2>3, <2>4 DEF TypeOK, lists, boot
<1>13. Booting'
  <2>1. ~booted => available_memory = free_memory + count /\ mmap \in Seq(Ranges) /\ held = {}
    BY <1>1 DEF IInv, Booting
  <2>2. booted' = booted /\ available_memory' = available_memory /\ mmap' = mmap BY <1>1 DEF boot
  <2> QED BY <1>1, <2>1, <2>2 DEF Booting
<1>14. Underway' BY <1>1 DEF Underway
<1> QED BY <1>8, <1>11, <1>12, <1>13, <1>14 DEF IInv

\* Pages that were neither free nor listed are in hand when their release begins.
LEMMA ReleaseBegins ==
  ASSUME IInv, pc \in {"boot", "idle"}, NEW b \in 0 .. PageCount, NEW n \in Nat, b + n <= PageCount,
         StartRelease(b, n), PageRange(b, n) \cap free_pages = {},
         free_pages' = free_pages, UNCHANGED <<lists, buddies>>
  PROVE  ListsMatch' /\ Underway' /\ Busy' = PageRange(b, n) /\ PageRange(b, n) \subseteq Pages
<1>0. /\ CLASS_COUNT \in Nat /\ PageCount \in Nat /\ 0 \in Classes /\ Pow2[0] = 1 /\ b \in Nat
  BY ClassFacts, ClassCountAssumption, PageCountAssumption, Pow2Type DEF Classes
<1>1. /\ pc' = "release" /\ begin' = b /\ count' = n /\ remaining' = n /\ page' = b /\ class' = 0
  BY DEF StartRelease
<1>2. Busy' = PageRange(b, n) /\ PageRange(b, n) \subseteq Pages BY <1>0, <1>1 DEF Busy, PageRange, Pages
<1>3. Current' = b BY <1>0, <1>1 DEF Current
<1>4. /\ n > 0 => Loose' = {b} /\ Claimed' = {b}
      /\ ~(n > 0) => Loose' = {} /\ Claimed' = {}
  <2>1. n > 0 => Loose' = PageRange(page', Pow2[class']) /\ Claimed' = begin' .. Current'
    BY <1>1 DEF Loose, Claimed
  <2>2. ~(n > 0) => Loose' = {} /\ Claimed' = begin' .. Current' - 1
    BY <1>1 DEF Loose, Claimed
  <2>3. PageRange(b, 1) = {b} /\ b .. b = {b} /\ b .. b - 1 = {} BY <1>0 DEF PageRange
  <2> QED BY <1>0, <1>1, <1>3, <2>1, <2>2, <2>3
<1>5. PICK B \in [Classes -> SUBSET Pages], rank \in [Pages -> Nat] : Shape(B, rank) /\ Coverage(B)
  BY Listing
<1>6. Shape(B, rank)' BY <1>5, ShapeKept
<1>7. Covered(B) = free_pages BY <1>5 DEF Coverage, Loose, Claimed
<1>8. n > 0 => b \in PageRange(b, n) BY <1>0 DEF PageRange
<1>9. Coverage(B)' BY <1>4, <1>7, <1>8 DEF Coverage, Covered
<1>10. ListsMatch' BY <1>6, <1>9 DEF ListsMatch
<1>11. Underway'
  <2>1. \A x \in Nat : is_aligned(x, 0) /\ x \in PageRange(x, Pow2[0]) BY <1>0 DEF is_aligned, PageRange
  <2>2. is_aligned(page', class') /\ Current' \in PageRange(page', Pow2[class']) BY <1>0, <1>1, <1>3, <2>1
  <2>3. n > 0 => page' \in Pages BY <1>1, <1>2, <1>8
  <2>4. begin' + count' <= PageCount /\ class' \in Classes BY <1>0, <1>1
  <2> HIDE DEF Current
  <2> QED BY <1>1, <2>2, <2>3, <2>4 DEF Underway
<1> QED BY <1>2, <1>10, <1>11

\* A client gives pages back.
LEMMA ReleasePagesInv ==
  ASSUME IInv, NEW b \in Pages, NEW n \in 1 .. MaxRequest, ReleasePages(b, n) PROVE IInv'
<1>0. CLASS_COUNT \in Nat /\ PageCount \in Nat /\ n \in Nat /\ n > 0 /\ b \in Nat /\ b \in 0 .. PageCount
  BY ClassFacts, PageCountAssumption, MaxRequestAssumption DEF Pages
<1>1. /\ pc = "idle" /\ PageRange(b, n) \subseteq held /\ ReleaseAsserts(b, n) /\ StartRelease(b, n)
      /\ held' = held \ PageRange(b, n) /\ UNCHANGED <<accounts, lists, buddies, boot>>
  BY DEF ReleasePages
<1>2. b + n <= PageCount
  <2>1. b + n - 1 \in PageRange(b, n) BY <1>0 DEF PageRange
  <2>2. held \subseteq Pages BY DEF IInv, TypeOK
  <2> QED BY <1>0, <1>1, <2>1, <2>2 DEF Pages
<1>3. /\ pc' = "release" /\ begin' = b /\ count' = n /\ remaining' = n /\ page' = b /\ class' = 0 /\ exact' = exact
  BY <1>1 DEF StartRelease
<1>4. ListsMatch' /\ Underway' /\ Busy' = PageRange(b, n)
  BY <1>0, <1>1, <1>2, ReleaseBegins DEF ReleaseAsserts, accounts
<1>5. Books'
  <2>1. Busy = {} BY <1>1 DEF Busy
  <2>2. /\ free_pages \cup held = usable_pages /\ free_pages \cap held = {} /\ Cardinality(free_pages) = free_memory
        /\ \A p \in Pages \ free_pages : next[p] = Garbage /\ prev[p] = Garbage /\ tag[p] = Garbage
    BY <2>1 DEF IInv, Books
  <2>3. held = held' \cup PageRange(b, n) /\ held' \cap PageRange(b, n) = {} BY <1>1
  <2>4. free_pages' = free_pages /\ usable_pages' = usable_pages /\ free_memory' = free_memory
        /\ next' = next /\ prev' = prev /\ tag' = tag
    BY <1>1 DEF accounts, lists
  <2> QED BY <1>1, <1>4, <2>2, <2>3, <2>4 DEF Books
<1>6. TypeOK'
  <2>1. remaining' \in 0 .. count' /\ class' \in -1 .. CLASS_COUNT BY <1>0, <1>3
  <2>2. held' \subseteq Pages BY <1>1 DEF IInv, TypeOK
  <2>3. TypeOK BY DEF IInv
  <2> QED BY <1>0, <1>1, <1>3, <2>1, <2>2, <2>3 DEF TypeOK, accounts, lists, boot
<1>7. Booting' BY <1>1, <1>3 DEF IInv, Booting, boot
<1> QED BY <1>4, <1>5, <1>6, <1>7 DEF IInv

\* unsafe_mark_memory_usability changes what a client holds.
LEMMA MarkUsabilityInv ==
  ASSUME IInv, NEW b \in Reserved, NEW usable \in BOOLEAN, MarkUsability(b, 1, usable) PROVE IInv'
<1>0. PageCount \in Nat /\ b \in Pages /\ b \in Nat BY PageCountAssumption, ReservedAssumption DEF Pages
<1>1. PageRange(b, 1) = {b} BY <1>0 DEF PageRange
<1>2. /\ pc = "idle" /\ pc' = "idle" /\ b \notin free_pages
      /\ \/ usable_pages' = usable_pages \cup {b} /\ held' = held \cup {b}
         \/ usable_pages' = usable_pages \ {b} /\ held' = held \ {b}
      /\ free_memory' = free_memory /\ free_pages' = free_pages
      /\ UNCHANGED <<lists, buddies, boot, locals>>
  BY <1>1 DEF MarkUsability
<1>3. Busy = {} /\ Busy' = {} BY <1>2 DEF Busy
<1>4. Books'
  <2>1. /\ free_pages \cup held = usable_pages /\ free_pages \cap held = {} /\ Cardinality(free_pages) = free_memory
        /\ \A p \in Pages \ free_pages : next[p] = Garbage /\ prev[p] = Garbage /\ tag[p] = Garbage
    BY <1>3 DEF IInv, Books
  <2>2. free_pages' \cup held' = usable_pages' /\ free_pages' \cap held' = {} BY <1>2, <2>1
  <2> QED BY <1>2, <1>3, <2>1, <2>2 DEF Books, lists
<1>5. PICK B \in [Classes -> SUBSET Pages], rank \in [Pages -> Nat] : Shape(B, rank) /\ Coverage(B)
  BY Listing
<1>6. Shape(B, rank)' BY <1>2, <1>5, ShapeKept
<1>7. Coverage(B)' BY <1>2, <1>5 DEF Coverage, Loose, Claimed
<1>8. ListsMatch' BY <1>6, <1>7 DEF ListsMatch
<1>9. TypeOK' BY <1>0, <1>2 DEF IInv, TypeOK, lists, boot, locals
<1>10. Booting' BY <1>2 DEF IInv, Booting, boot
<1>11. Underway' BY <1>2 DEF IInv, Underway, locals
<1> QED BY <1>4, <1>8, <1>9, <1>10, <1>11 DEF IInv

\* memory__init releases the pages of an entry of the memory map.
LEMMA BootEntryInv ==
  ASSUME IInv, BootEntry PROVE IInv'
<1> DEFINE b == Head(mmap)[1]
           size == Head(mmap)[2] - b
<1>1. /\ pc = "boot" /\ mmap # <<>> /\ mmap' = Tail(mmap) /\ available_memory' = available_memory + size
      /\ usable_pages' = usable_pages \cup PageRange(b, size) /\ PageRange(b, size) \cap free_pages = {}
      /\ StartRelease(b, size)
      /\ free_memory' = free_memory /\ free_pages' = free_pages /\ booted' = booted /\ held' = held
      /\ UNCHANGED <<lists, buddies>>
  BY DEF BootEntry
<1>2. ~booted /\ mmap \in Seq(Ranges) /\ held = {} /\ available_memory = free_memory
  BY <1>1 DEF IInv, Booting
<1>3. Head(mmap) \in Ranges /\ Tail(mmap) \in Seq(Ranges) BY <1>1, <1>2
<1>4. PageCount \in Nat /\ CLASS_COUNT \in Nat BY PageCountAssumption, ClassFacts
<1>5. b \in 0 .. PageCount /\ size \in Nat /\ b + size <= PageCount /\ b \in Nat BY <1>3, <1>4 DEF Ranges
<1> HIDE DEF b, size
<1>6. pc' = "release" /\ begin' = b /\ count' = size /\ remaining' = size /\ page' = b /\ class' = 0 /\ exact' = exact
  BY <1>1 DEF StartRelease
<1>7. ListsMatch' /\ Underway' /\ Busy' = PageRange(b, size) /\ PageRange(b, size) \subseteq Pages
  BY <1>1, <1>5, ReleaseBegins
<1>8. Busy = {} BY <1>1 DEF Busy
<1>9. /\ free_pages = usable_pages /\ Cardinality(free_pages) = free_memory
      /\ \A p \in Pages \ free_pages : next[p] = Garbage /\ prev[p] = Garbage /\ tag[p] = Garbage
  BY <1>2, <1>8 DEF IInv, Books
<1>10. Books' BY <1>1, <1>2, <1>7, <1>9 DEF Books, lists
<1>11. available_memory' \in 0 .. PageCount
  <2>1. free_pages \in SUBSET Pages BY Listing
  <2>2. IsFiniteSet(free_pages) BY <2>1, PagesFinite
  <2>3. IsFiniteSet(PageRange(b, size)) /\ Cardinality(PageRange(b, size)) = size BY <1>5, PagesFinite
  <2>4. Cardinality(free_pages \cup PageRange(b, size)) = Cardinality(free_pages) + size
    BY <1>1, <2>2, <2>3, CountApart
  <2>5. free_pages \cup PageRange(b, size) \in SUBSET Pages BY <1>7, <2>1
  <2>6. Cardinality(free_pages \cup PageRange(b, size)) \in 0 .. PageCount BY <1>4, <2>5, PagesFinite
  <2> QED BY <1>1, <1>2, <1>9, <2>4, <2>6
<1>12. TypeOK'
  <2>1. usable_pages' \subseteq Pages BY <1>1, <1>7 DEF IInv, TypeOK
  <2>2. TypeOK BY DEF IInv
  <2> QED BY <1>1, <1>4, <1>5, <1>6, <1>11, <2>1, <2>2 DEF TypeOK, lists
<1>13. Booting' BY <1>1, <1>2, <1>3, <1>6 DEF Booting
<1> QED BY <1>7, <1>10, <1>12, <1>13 DEF IInv

\* A step in which nothing changes
LEMMA StutterInv ==
  ASSUME IInv, UNCHANGED vars PROVE IInv'
<1> USE DEF vars, accounts, lists, boot, locals
<1>1. TypeOK' BY DEF IInv, TypeOK
<1>2. Busy' = Busy /\ Loose' = Loose /\ Claimed' = Claimed BY DEF Busy, Loose, Claimed, Current
<1>3. Books' BY <1>2 DEF IInv, Books
<1>4. Booting' BY DEF IInv, Booting
<1>5. Underway' BY DEF IInv, Underway, Current
<1>6. PICK B \in [Classes -> SUBSET Pages], rank \in [Pages -> Nat] : Shape(B, rank) /\ Coverage(B)
  BY Listing
<1>7. Shape(B, rank)' BY <1>6, ShapeKept
<1>8. Coverage(B)' BY <1>2, <1>6 DEF Coverage
<1>9. ListsMatch' BY <1>7, <1>8 DEF ListsMatch
<1> QED BY <1>1, <1>3, <1>4, <1>5, <1>9 DEF IInv

\* The invariant holds throughout: one step per action.
THEOREM Invariant == Spec => []IInv
<1>1. ASSUME IInv, [Next]_vars PROVE IInv'
  <2>1. CASE BootEntry BY <1>1, <2>1, BootEntryInv
  <2>2. CASE BootDone BY <1>1, <2>2, BootDoneInv
  <2>3. CASE ScanNext BY <1>1, <2>3, ScanNextInv
  <2>4. CASE ScanFound BY <1>1, <2>4, ScanFoundInv
  <2>5. CASE ScanFails \/ FallbackFails BY <1>1, <2>5, GiveUpInv
  <2>6. CASE ScanFallsBack BY <1>1, <2>6, ScanFallsBackInv
  <2>7. CASE FallbackNext BY <1>1, <2>7, FallbackNextInv
  <2>8. CASE FallbackFound BY <1>1, <2>8, FallbackFoundInv
  <2>9. CASE Take BY <1>1, <2>9, TakeInv
  <2>10. CASE SplitUpper BY <1>1, <2>10, SplitUpperInv
  <2>11. CASE SplitLower BY <1>1, <2>11, SplitLowerInv
  <2>12. CASE SplitDone BY <1>1, <2>12, SplitDoneInv
  <2>13. CASE HandOut BY <1>1, <2>13, HandOutInv
  <2>14. CASE Merge BY <1>1, <2>14, MergeInv
  <2>15. CASE AddBlock BY <1>1, <2>15, AddBlockInv
  <2>16. CASE ReleaseDone BY <1>1, <2>16, ReleaseDoneInv
  <2>17. CASE \E n \in 1 .. MaxRequest, ex \in BOOLEAN : AllocRaw(n, ex) BY <1>1, <2>17, AllocRawInv
  <2>18. CASE \E b \in Pages, n \in 1 .. MaxRequest : ReleasePages(b, n) BY <1>1, <2>18, ReleasePagesInv
  <2>19. CASE \E b \in Reserved, usable \in BOOLEAN : MarkUsability(b, 1, usable) BY <1>1, <2>19, MarkUsabilityInv
  <2>20. CASE UNCHANGED vars BY <1>1, <2>20, StutterInv
  <2> QED
    BY <1>1, <2>1, <2>2, <2>3, <2>4, <2>5, <2>6, <2>7, <2>8, <2>9, <2>10, <2>11, <2>12, <2>13, <2>14, <2>15,
       <2>16, <2>17, <2>18, <2>19, <2>20 DEF Next, Step, Call
<1> QED BY <1>1, InitInv, PTL DEF Spec

-----------------------------------------------------------------------------
(* What the invariant says of the code *)

\* The blocks met on the lists are the blocks of the invariant.
LEMMA ListedBlocks ==
  ASSUME IInv
  PROVE  \E B \in [Classes -> SUBSET Pages], rank \in [Pages -> Nat] :
           /\ Placed(B) /\ Apart(B) /\ Linked(B, rank) /\ BitsMatch(B) /\ Coverage(B)
           /\ \A k \in Classes : Walk(k)[PageCount] = NULL /\ Blocks(k) = B[k]
           /\ \A k \in Classes : PagesOf(k) \subseteq Covered(B)
           /\ UNION {PagesOf(k) : k \in Classes} = Covered(B)
<1>1. PICK B \in [Classes -> SUBSET Pages], rank \in [Pages -> Nat] :
        Shape(B, rank) /\ Coverage(B) /\ Placed(B) /\ Apart(B) /\ Linked(B, rank) /\ BitsMatch(B)
  BY Listing
<1>2. \A k \in Classes : Walk(k)[PageCount] = NULL /\ Blocks(k) = B[k] BY <1>1, Listing, BlocksOfList
<1>3. \A k \in Classes : PagesOf(k) = UNION {PageRange(b, Pow2[k]) : b \in B[k]} BY <1>2 DEF PagesOf
<1>4. \A k \in Classes : \A b \in B[k] : PageRange(b, Pow2[k]) \subseteq Pages BY <1>1, BlockPages DEF Placed
<1>5. \A k \in Classes : PagesOf(k) \subseteq Covered(B) BY <1>3, <1>4 DEF Covered
<1>6. Covered(B) \subseteq UNION {PagesOf(k) : k \in Classes} BY <1>3 DEF Covered
<1> HIDE DEF Covered
<1>7. UNION {PagesOf(k) : k \in Classes} = Covered(B) BY <1>5, <1>6
<1> QED BY <1>1, <1>2, <1>5, <1>7

\* When no block is in hand the lists cover the free pages.
LEMMA AtRest ==
  ASSUME IInv, pc \in {"boot", "idle", "scan", "fallback", "return"}, NEW B, Coverage(B)
  PROVE  Covered(B) = free_pages
  BY DEF Coverage, Loose, Claimed

\* The free lists that pop_freelist, remove_from_freelist and add_to_freelist
\* keep inside the free pages are doubly linked and end, whatever the calls.
THEOREM ListsAreWellFormed == Spec => []ListsWellFormed
<1>1. ASSUME IInv PROVE ListsWellFormed
  <2>1. PICK B \in [Classes -> SUBSET Pages], rank \in [Pages -> Nat] :
          /\ Placed(B) /\ Linked(B, rank) /\ \A k \in Classes : Walk(k)[PageCount] = NULL /\ Blocks(k) = B[k]
    BY <1>1, ListedBlocks
  <2>2. ASSUME NEW k \in Classes
        PROVE  /\ freelist[k] # NULL => prev[freelist[k]] = NULL
               /\ \A b \in B[k] : /\ b \in Pages /\ is_aligned(b, k) /\ tag[b] = k
                                  /\ next[b] # NULL => prev[next[b]] = b
    BY <2>1 DEF Placed, Linked
  <2> QED BY <1>1, <2>1, <2>2 DEF ListsWellFormed, IInv
<1> QED BY <1>1, Invariant, PTL

\* No assertion of alloc_raw, release_pages, the list functions or memory__init
\* fails, and validate_heap finds the heap valid whenever no call is in progress.
THEOREM NoAssertionFails == Spec => []AssertionsHold
<1>1. ASSUME IInv PROVE AssertionsHold
  <2>0. CLASS_COUNT \in Nat /\ PageCount \in Nat BY ClassFacts, PageCountAssumption
  <2>1. PICK B \in [Classes -> SUBSET Pages], rank \in [Pages -> Nat] :
          /\ Placed(B) /\ Apart(B) /\ Linked(B, rank) /\ BitsMatch(B) /\ Coverage(B)
          /\ \A k \in Classes : Blocks(k) = B[k]
    BY <1>1, ListedBlocks
  <2>2. \A k \in Classes : \A b \in B[k] : b \in Pages /\ is_aligned(b, k) BY <2>1 DEF Placed
  <2>3. \A k \in Classes : \A b \in B[k] : PageRange(b, Pow2[k]) \subseteq Covered(B)
    BY <2>2, BlockPages DEF Covered
  <2>4. ASSUME pc = "take" PROVE TakeAsserts
    <3> DEFINE b == freelist[class]
    <3>1. class \in Classes /\ b # NULL /\ count \in 1 .. Pow2[class] BY <1>1, <2>4 DEF IInv, Underway
    <3>2. b \in B[class] /\ tag[b] = class /\ prev[b] = NULL BY <2>1, <3>1 DEF Linked
    <3>3. b \in Pages /\ is_aligned(b, class) BY <2>2, <3>1, <3>2
    <3> HIDE DEF b
    <3>4. Covered(B) = free_pages /\ Busy = {} BY <2>1, <2>4 DEF Coverage, Loose, Claimed, Busy
    <3>5. PageRange(b, count) \subseteq free_pages
      <4>1. b \in Nat /\ Pow2[class] \in Nat /\ count \in Nat /\ count <= Pow2[class]
        BY <2>0, <3>1, <3>3, ClassFacts DEF Pages
      <4>2. PageRange(b, count) \subseteq PageRange(b, Pow2[class]) BY <4>1 DEF PageRange
      <4> QED BY <2>3, <3>1, <3>2, <3>4, <4>2
    <3>6. free_pages \subseteq usable_pages BY <1>1 DEF IInv, Books
    <3>7. class # CLASS_COUNT - 1 => BuddyIndex(b, class) \in buddies[class]
      <4> SUFFICES ASSUME class \in BuddyClasses PROVE BuddyIndex(b, class) \in buddies[class] BY <3>1, TopClass
      <4> DEFINE i == BuddyIndex(b, class)
      <4>1. i \in Pairs(class) /\ (b = LowerHalf(i, class) \/ b = UpperHalf(i, class)) BY <3>3, BuddyPair
      <4> HIDE DEF i
      <4>2. i \in buddies[class] BY <2>1, <3>2, <4>1 DEF BitsMatch
      <4> QED BY <4>2 DEF i
    <3> QED BY <3>1, <3>2, <3>3, <3>5, <3>6, <3>7 DEF TakeAsserts, PopAsserts, b
  <2>5. ASSUME pc = "split", class > 0 PROVE SplitAsserts
    <3> DEFINE k == class - 1
               s == Pow2[k]
    <3>1. /\ class \in Classes /\ is_aligned(page, class) /\ page \in Pages
          /\ remaining \in 1 .. Pow2[class] /\ page + remaining = begin + count /\ begin <= page
          /\ begin \in 0 .. PageCount /\ count \in Nat
      BY <1>1, <2>5 DEF IInv, Underway, TypeOK
    <3>2. k \in Nat /\ k \in Classes /\ k + 1 = class /\ k \in BuddyClasses
      BY <2>0, <2>5, <3>1 DEF Classes, BuddyClasses
    <3>3. s \in Nat \ {0} /\ Pow2[class] = 2 * s /\ page \in Nat
      <4>1. s \in Nat \ {0} /\ Pow2[class] = 2 * s BY <3>2, Pow2Type
      <4> QED BY <2>0, <3>1, <4>1 DEF Pages
    <3>4. is_aligned(page, k) /\ is_aligned(page + s, k) BY <3>1, <3>2, <3>3, Halves
    <3> DEFINE i == BuddyIndex(page, k)
    <3>5. i \in Pairs(k) /\ (page = LowerHalf(i, k) \/ page = UpperHalf(i, k)) BY <3>1, <3>2, <3>4, BuddyPair
    <3>6. page = LowerHalf(i, k)
      <4>1. PICK h \in Nat : page = Pow2[k + 1] * h BY <3>1, <3>2, <3>3, AlignedMultiple
      <4>2. Pow2[k + 1] \in Nat \ {0} /\ 0 \in 0 .. Pow2[k + 1] - 1 BY <3>2, <3>3
      <4>3. (Pow2[k + 1] * h + 0) \div Pow2[k + 1] = h BY <4>2, Unique
      <4>4. Pow2[k + 1] * h + 0 = page BY <3>3, <4>1
      <4> QED BY <4>1, <4>3, <4>4 DEF BuddyIndex, LowerHalf
    <3>7. UpperHalf(i, k) = page + s BY <3>6 DEF LowerHalf, UpperHalf
    <3> HIDE DEF i, k, s
    <3>8. \A p \in Covered(B) : p \in free_pages /\ p \notin Busy /\ p \notin Loose
      <4>1. Claimed = {} BY <2>5 DEF Claimed
      <4>2. free_pages \cap Busy = {} BY <1>1 DEF IInv, Books
      <4> QED BY <2>1, <4>1, <4>2 DEF Coverage
    <3>9. Busy = PageRange(begin, count) /\ Loose = begin + count .. page + 2 * s - 1
      BY <2>5, <3>3 DEF Busy, Loose
    <3>10. \A p \in Nat : page <= p /\ p < page + 2 * s => p \in Busy \/ p \in Loose
      BY <2>0, <3>1, <3>3, <3>9 DEF PageRange
    <3>11. page \notin B[k] /\ page + s \notin B[k]
      <4>1. \A b \in B[k] : b \in Covered(B) BY <2>2, <2>3, <3>2, BlockPages
      <4>2. page \notin Covered(B) /\ page + s \notin Covered(B) BY <3>3, <3>8, <3>10
      <4> QED BY <4>1, <4>2
    <3>12. i \notin buddies[k] BY <2>1, <3>2, <3>5, <3>6, <3>7, <3>11 DEF BitsMatch
    <3> QED BY <3>4, <3>12 DEF SplitAsserts, i, k
  <2>6. ASSUME pc = "release", remaining > 0
        PROVE  /\ is_aligned(page, class)
               /\ class \in BuddyClasses /\ BuddyIsFree => RemoveAsserts(Buddy(page, class), class)
    <3>1. class \in Classes /\ is_aligned(page, class) /\ page \in Pages /\ Loose = PageRange(page, Pow2[class])
      BY <1>1, <2>6, Releasing
    <3> SUFFICES ASSUME class \in BuddyClasses, BuddyIsFree PROVE RemoveAsserts(Buddy(page, class), class) BY <3>1
    <3> DEFINE i == BuddyIndex(page, class)
               u == Buddy(page, class)
    <3>2. /\ i \in Pairs(class)
          /\ \/ page = LowerHalf(i, class) /\ u = UpperHalf(i, class)
             \/ page = UpperHalf(i, class) /\ u = LowerHalf(i, class)
      BY <3>1, BuddyPair
    <3>3. i \in buddies[class] BY DEF BuddyIsFree
    <3> HIDE DEF i, u
    <3>4. page \notin B[class]
      <4>1. page \in Loose BY <3>1, BlockPages
      <4>2. \A b \in B[class] : b \in Covered(B) BY <2>2, <2>3, <3>1, BlockPages
      <4> QED BY <2>1, <4>1, <4>2 DEF Coverage
    <3>5. u \in B[class] BY <2>1, <3>2, <3>3, <3>4 DEF BitsMatch
    <3>6. tag[u] = class /\ (prev[u] = NULL => freelist[class] = u) BY <2>1, <3>1, <3>5 DEF Linked
    <3> QED BY <2>2, <3>1, <3>5, <3>6 DEF RemoveAsserts, u
  <2>7. pc = "boot" => available_memory = free_memory BY <1>1 DEF IInv, Booting
  <2>8. pc = "idle" => held \subseteq usable_pages /\ held \cap free_pages = {} BY <1>1 DEF IInv, Books
  <2>9. ASSUME pc \in {"boot", "idle"} PROVE HeapValid
    <3>1. Covered(B) = free_pages BY <1>1, <2>1, <2>9, AtRest
    <3>2. calculated_free_memory[CLASS_COUNT] = Cardinality(Covered(B)) BY <2>1, CoverCount
    <3>3. Cardinality(free_pages) = free_memory BY <1>1 DEF IInv, Books
    <3>4. \A k \in Classes : \A b \in Blocks(k) : tag[b] = k BY <2>1 DEF Linked
    <3> QED BY <3>1, <3>2, <3>3, <3>4 DEF HeapValid
  <2> QED BY <2>4, <2>5, <2>6, <2>7, <2>8, <2>9 DEF AssertionsHold
<1> QED BY <1>1, Invariant, PTL

\* free_pages, free_memory, usable_pages and the lists tell the same story
\* between calls.
THEOREM AccountsAlwaysAgree == Spec => []AccountsAgree
<1>1. ASSUME IInv PROVE AccountsAgree
  <2> SUFFICES ASSUME pc \in {"boot", "idle"}
               PROVE  /\ UNION {PagesOf(k) : k \in Classes} = free_pages
                      /\ Cardinality(free_pages) = free_memory
                      /\ free_pages \cup held = usable_pages /\ free_pages \cap held = {}
    BY DEF AccountsAgree
  <2>1. PICK B : Coverage(B) /\ UNION {PagesOf(k) : k \in Classes} = Covered(B) BY <1>1, ListedBlocks
  <2>2. UNION {PagesOf(k) : k \in Classes} = free_pages BY <1>1, <2>1, AtRest
  <2>3. Busy = {} BY DEF Busy
  <2> QED BY <1>1, <2>2, <2>3 DEF IInv, Books
<1> QED BY <1>1, Invariant, PTL

\* The bits of BuddyAllocator.buddies mark the pairs with one half on a list.
THEOREM BuddyBitsAreExact == Spec => []BuddyBitsExact
<1>1. ASSUME IInv PROVE BuddyBitsExact
  <2>0. PageCount \in Nat BY PageCountAssumption
  <2>1. PICK B \in [Classes -> SUBSET Pages] : BitsMatch(B) /\ \A k \in Classes : Blocks(k) = B[k]
    BY <1>1, ListedBlocks
  <2>2. ASSUME NEW k \in BuddyClasses, NEW p \in Pages, is_aligned(p, k + 1)
        PROVE  /\ BuddyIndex(p, k) \in buddies[k] <=> (p \in B[k] <=> Buddy(p, k) \notin B[k])
               /\ ~(p \in B[k] /\ Buddy(p, k) \in B[k])
    <3>1. k \in Nat /\ k + 1 \in Nat /\ p \in Nat BY <2>0, ClassFacts DEF Pages
    <3>2. is_aligned(p, k) BY <2>2, <3>1, Halves
    <3> DEFINE i == BuddyIndex(p, k)
    <3>3. /\ i \in Pairs(k)
          /\ \/ p = LowerHalf(i, k) /\ Buddy(p, k) = UpperHalf(i, k)
             \/ p = UpperHalf(i, k) /\ Buddy(p, k) = LowerHalf(i, k)
      BY <3>2, BuddyPair
    <3> HIDE DEF i
    <3>4. /\ i \in buddies[k] <=> (LowerHalf(i, k) \in B[k] \/ UpperHalf(i, k) \in B[k])
          /\ ~(LowerHalf(i, k) \in B[k] /\ UpperHalf(i, k) \in B[k])
      BY <2>1, <3>3 DEF BitsMatch
    <3>5. /\ i \in buddies[k] <=> (p \in B[k] <=> Buddy(p, k) \notin B[k])
          /\ ~(p \in B[k] /\ Buddy(p, k) \in B[k])
      BY <3>3, <3>4
    <3> QED BY <3>5 DEF i
  <2>3. \A k \in BuddyClasses : Blocks(k) = B[k] BY <2>1, ClassFacts
  <2> QED BY <2>2, <2>3 DEF BuddyBitsExact
<1> QED BY <1>1, Invariant, PTL

\* The list functions and alloc_raw leave the pages of clients alone.
THEOREM ClientsStayUndisturbed == Spec => []ClientsUndisturbed
<1>1. ASSUME IInv PROVE ClientsUndisturbed
  <2>1. ASSUME NEW p \in held PROVE next[p] = Garbage /\ prev[p] = Garbage /\ tag[p] = Garbage
    <3>1. p \in Pages /\ p \notin free_pages /\ p \notin Busy BY <1>1 DEF IInv, TypeOK, Books
    <3> QED BY <1>1, <3>1 DEF IInv, Books
  <2>2. ASSUME pc = "return"
        PROVE  /\ PageRange(begin, count) \cap held = {}
               /\ \A k \in Classes : PageRange(begin, count) \cap PagesOf(k) = {}
    <3>1. Busy = PageRange(begin, count) BY <2>2 DEF Busy
    <3>2. PICK B : Coverage(B) /\ \A k \in Classes : PagesOf(k) \subseteq Covered(B) BY <1>1, ListedBlocks
    <3>3. Covered(B) = free_pages BY <1>1, <2>2, <3>2, AtRest
    <3>4. free_pages \cap Busy = {} /\ held \cap Busy = {} BY <1>1 DEF IInv, Books
    <3> QED BY <3>1, <3>2, <3>3, <3>4
  <2> QED BY <2>1, <2>2 DEF ClientsUndisturbed
<1> QED BY <1>1, Invariant, PTL

\* release_pages merges all that can be merged.
THEOREM MemoryStaysMerged == Spec => []FullyMerged
<1>1. ASSUME IInv PROVE FullyMerged
  <2> DEFINE runs == UNION {{PageRange(b, Pow2[k]) : b \in Blocks(k)} : k \in Classes}
  <2> SUFFICES ASSUME pc \in {"boot", "idle"}, NEW k \in Classes, NEW p \in Pages, is_aligned(p, k),
                      PageRange(p, Pow2[k]) \subseteq free_pages
               PROVE  \E run \in runs : PageRange(p, Pow2[k]) \subseteq run
    BY DEF FullyMerged
  <2>1. PICK B : Placed(B) /\ BitsMatch(B) /\ Coverage(B) /\ \A j \in Classes : Blocks(j) = B[j]
    BY <1>1, ListedBlocks
  <2>2. Covered(B) = free_pages BY <1>1, <2>1, AtRest
  <2>3. PICK j \in Classes : \E b \in B[j] : PageRange(p, Pow2[k]) \subseteq PageRange(b, Pow2[j])
    BY <2>1, <2>2, Merged
  <2>4. PICK b \in B[j] : PageRange(p, Pow2[k]) \subseteq PageRange(b, Pow2[j]) BY <2>3
  <2>5. PageRange(b, Pow2[j]) \in runs BY <2>1, <2>4
  <2> QED BY <2>4, <2>5
<1> QED BY <1>1, Invariant, PTL

-----------------------------------------------------------------------------
(* The allocator is a pool of pages *)

\* What the requests served know beyond IInv: a fallback has seen that all larger
\* lists are empty, and what was taken begins where a block that holds it may begin.
Asked ==
  /\ pc = "fallback" => /\ ~exact /\ count \in 1 .. Pow2[CLASS_COUNT]
                        /\ \A j \in Classes : j <= class => Pow2[j] < count
                        /\ \A j \in Classes : class < j => freelist[j] = NULL
  /\ pc \in {"split", "return"} => count >= 1 /\ \E k \in Classes : count <= Pow2[k] /\ is_aligned(begin, k)

\* Smaller classes than the one chosen cannot hold the request.
LEMMA ClassLeast ==
  ASSUME NEW n \in 1 .. Pow2[CLASS_COUNT], NEW j \in Nat, n <= Pow2[j]
  PROVE  smallest_greater_power2(n) <= j
<1>1. CASE n <= 1
  <2>1. smallest_greater_power2(n) = 0 BY <1>1 DEF smallest_greater_power2
  <2> QED BY <2>1
<1>2. CASE ~(n <= 1)
  <2>1. PICK x : x = smallest_greater_power2(n) OBVIOUS
  <2>2. x \in 1 .. 63 /\ Pow2[x - 1] <= n - 1 BY <1>2, <2>1, BitsOf
  <2>3. x - 1 \in Nat /\ Pow2[x - 1] \in Nat /\ Pow2[j] \in Nat /\ n \in Nat
    BY <2>2, ClassFacts, Pow2Type
  <2>4. ~(j <= x - 1)
    <3> SUFFICES ASSUME j <= x - 1 PROVE FALSE OBVIOUS
    <3>1. Pow2[j] <= Pow2[x - 1] BY <2>3, Pow2Grows
    <3> QED BY <2>2, <2>3, <3>1
  <2> QED BY <2>1, <2>2, <2>3, <2>4
<1> QED BY <1>1, <1>2

\* The lists grow no new blocks while a request is looked for, and what it
\* takes stays where it is.
LEMMA AskedStep ==
  ASSUME IInv, Asked, [Next]_vars PROVE Asked'
<1>0. CLASS_COUNT \in Nat BY ClassFacts
<1>1. ASSUME pc' \notin {"fallback", "split", "return"} PROVE Asked' BY <1>1 DEF Asked
<1>2. CASE ScanFallsBack
  <2>1. /\ pc = "scan" /\ pc' = "fallback" /\ class = CLASS_COUNT /\ ~exact
        /\ class' = smallest_greater_power2(count) - 1 /\ exact' = exact /\ count' = count /\ freelist' = freelist
    BY <1>2 DEF ScanFallsBack, Goto, lists
  <2> DEFINE c == smallest_greater_power2(count)
  <2>2. count \in 1 .. Pow2[CLASS_COUNT] /\ \A j \in c .. CLASS_COUNT - 1 : freelist[j] = NULL
    BY <2>1 DEF IInv, Underway
  <2>3. c \in Nat BY <1>0, <2>2, ClassFor
  <2>4. \A j \in Nat : count <= Pow2[j] => c <= j BY <2>2, ClassLeast
  <2> HIDE DEF c
  <2>5. class' = c - 1 BY <2>1 DEF c
  <2>6. ASSUME NEW j \in Classes, j <= class' PROVE Pow2[j] < count'
    <3>1. j \in Nat /\ Pow2[j] \in Nat /\ count \in Nat BY <2>2, ClassFacts, Pow2Type
    <3>2. ~(c <= j) BY <2>3, <2>5, <2>6, <3>1
    <3>3. ~(count <= Pow2[j]) BY <2>4, <3>1, <3>2
    <3> QED BY <2>1, <3>1, <3>3
  <2>7. ASSUME NEW j \in Classes, class' < j PROVE freelist'[j] = NULL
    <3>1. j \in c .. CLASS_COUNT - 1 BY <1>0, <2>3, <2>5, <2>7 DEF Classes
    <3> QED BY <2>1, <2>2, <3>1
  <2> QED BY <2>1, <2>2, <2>6, <2>7 DEF Asked
<1>3. CASE FallbackNext
  <2>1. /\ pc = "fallback" /\ pc' = "fallback" /\ freelist[class] = NULL /\ class' = class - 1 /\ class >= 0
        /\ exact' = exact /\ count' = count /\ freelist' = freelist
    BY <1>3 DEF FallbackNext, lists
  <2>2. class \in Int BY <1>0, <2>1 DEF IInv, Underway
  <2>3. \A j \in Classes : j \in Int /\ (j <= class - 1 => j <= class) /\ (class - 1 < j => class < j \/ j = class)
    BY <2>2 DEF Classes
  <2> QED BY <2>1, <2>3 DEF Asked
<1>4. CASE Take
  <2>1. /\ pc = "take" /\ pc' = "split" /\ count' = count /\ begin' = freelist[class]
    BY <1>4 DEF Take, Goto
  <2>2. class \in Classes /\ freelist[class] # NULL /\ count \in 1 .. Pow2[class] BY <2>1 DEF IInv, Underway
  <2>3. PICK B \in [Classes -> SUBSET Pages], rank \in [Pages -> Nat] : Placed(B) /\ Linked(B, rank)
    BY Listing
  <2>4. is_aligned(freelist[class], class) BY <2>2, <2>3 DEF Placed, Linked
  <2>5. Pow2[class] \in Nat BY <2>2, ClassFacts
  <2>6. count' >= 1 /\ count' <= Pow2[class] /\ is_aligned(begin', class) BY <2>1, <2>2, <2>4, <2>5
  <2> QED BY <2>1, <2>2, <2>6 DEF Asked
<1>5. CASE SplitUpper \/ SplitLower \/ SplitDone \/ UNCHANGED vars
  <2>1. \/ /\ pc = "split" /\ pc' \in {"split", "return"} /\ count' = count /\ begin' = begin
        \/ /\ pc' = pc /\ count' = count /\ begin' = begin /\ exact' = exact /\ class' = class /\ freelist' = freelist
    BY <1>5 DEF SplitUpper, SplitLower, SplitDone, Goto, vars, locals, lists
  <2> QED BY <2>1 DEF Asked
<1>6. CASE BootEntry \/ BootDone \/ ScanNext \/ ScanFound \/ ScanFails \/ FallbackFound \/ FallbackFails \/ HandOut
  BY <1>1, <1>6 DEF BootEntry, StartRelease, BootDone, ScanNext, ScanFound, ScanFails, FallbackFound, FallbackFails,
                    HandOut, Goto, Return
<1>7. CASE Merge \/ AddBlock \/ ReleaseDone
  BY <1>1, <1>7 DEF Merge, AddBlock, ReleaseDone, Return
<1>8. CASE Call
  BY <1>1, <1>8 DEF Call, AllocRaw, ReleasePages, StartRelease, MarkUsability, Goto
<1> QED BY <1>2, <1>3, <1>4, <1>5, <1>6, <1>7, <1>8 DEF Next, Step

\* The pool counts in the same powers of two.
LEMMA SamePowers == Pool!Pow2 = Pow2
  BY DEF Pow2, Pool!Pow2

\* An aligned run of free pages lies in a listed block at least as large, when
\* no block is in hand.
LEMMA RoomIsListed ==
  ASSUME IInv, pc \in {"scan", "fallback"}, NEW k \in Classes, Pool!HasBlock(k)
  PROVE  \E j \in Classes : j >= k /\ freelist[j] # NULL
<1>1. PICK B \in [Classes -> SUBSET Pages], rank \in [Pages -> Nat] :
        Placed(B) /\ BitsMatch(B) /\ Coverage(B) /\ Linked(B, rank)
  BY Listing
<1>2. Covered(B) = free_pages BY <1>1, AtRest
<1>3. Available = free_pages BY DEF Available, IInv, Books, Busy
<1>4. PICK p \in Pages : is_aligned(p, k) /\ PageRange(p, Pow2[k]) \subseteq Covered(B)
  BY <1>2, <1>3, SamePowers DEF Pool!HasBlock, Pool!Run, is_aligned, PageRange, Pages
<1>5. PICK j \in Classes : j >= k /\ \E b \in B[j] : PageRange(p, Pow2[k]) \subseteq PageRange(b, Pow2[j])
  BY <1>1, <1>4, Merged
<1>6. B[j] # {} BY <1>5
<1>7. freelist[j] # NULL BY <1>1, <1>6, HeadExists
<1> QED BY <1>5, <1>7

\* The first block of a list is a free block of its class.
LEMMA ListedIsRoom ==
  ASSUME IInv, pc \in {"scan", "fallback"}, NEW k \in Classes, freelist[k] # NULL
  PROVE  Pool!HasBlock(k)
<1>1. PICK B \in [Classes -> SUBSET Pages], rank \in [Pages -> Nat] :
        Placed(B) /\ Coverage(B) /\ Linked(B, rank)
  BY Listing
<1>2. Covered(B) = free_pages BY <1>1, AtRest
<1>3. Available = free_pages BY DEF Available, IInv, Books, Busy
<1>4. PICK b : b = freelist[k] OBVIOUS
<1>5. b \in B[k] BY <1>1, <1>4 DEF Linked
<1>6. b \in Pages /\ is_aligned(b, k) BY <1>1, <1>5 DEF Placed
<1>7. PageRange(b, Pow2[k]) \subseteq Pages BY <1>6, BlockPages
<1>8. PageRange(b, Pow2[k]) \subseteq Covered(B) BY <1>5, <1>7 DEF Covered
<1> QED BY <1>2, <1>3, <1>6, <1>8, SamePowers DEF Pool!HasBlock, Pool!Run, is_aligned, PageRange, Pages

\* When all lists are empty no page is free.
LEMMA NothingListed ==
  ASSUME IInv, pc = "fallback", \A k \in Classes : freelist[k] = NULL
  PROVE  Available = {}
<1>1. PICK B \in [Classes -> SUBSET Pages], rank \in [Pages -> Nat] : Coverage(B) /\ Linked(B, rank)
  BY Listing
<1>2. Covered(B) = free_pages BY <1>1, AtRest
<1>3. Available = free_pages BY DEF Available, IInv, Books, Busy
<1>4. \A k \in Classes : B[k] = {} BY <1>1, HeadExists
<1>5. Covered(B) = {} BY <1>4 DEF Covered
<1> QED BY <1>2, <1>3, <1>5

\* The request that clients wait for
LEMMA PendingIs ==
  ASSUME exact \in BOOLEAN
  PROVE  /\ Allocating => Pending = [n |-> count, exact |-> exact] /\ Pending.n = count /\ (Pending.exact <=> exact)
         /\ ~Allocating => Pending = Pool!NoRequest
<1>1. CASE Allocating
  <2>1. (Allocating /\ exact) = exact BY <1>1, Zenon
  <2>2. Pending = [n |-> count, exact |-> exact] BY <1>1, <2>1 DEF Pending
  <2>3. Pending.n = count /\ (Pending.exact <=> exact) BY <2>2
  <2> QED BY <1>1, <2>2, <2>3
<1>2. CASE ~Allocating
  <2>1. (Allocating /\ exact) = FALSE BY <1>2, Zenon
  <2>2. Pending = [n |-> 0, exact |-> FALSE] BY <1>2, <2>1 DEF Pending
  <2> QED BY <1>2, <2>2 DEF Pool!NoRequest
<1> QED BY <1>1, <1>2

\* A request for at least one page is one.
LEMMA PendingSome ==
  ASSUME exact \in BOOLEAN, Allocating, count \in Nat, count >= 1
  PROVE  Pending # Pool!NoRequest
<1>1. Pending.n = count BY PendingIs
<1>2. Pool!NoRequest.n = 0 BY DEF Pool!NoRequest
<1>3. count # 0 OBVIOUS
<1> QED BY <1>1, <1>2, <1>3

\* Clients see nothing of a step that keeps the call, its request and who has which page.
LEMMA Unseen ==
  ASSUME IInv, UNCHANGED <<usable_pages, held>>,
         \/ Allocating /\ Allocating' /\ UNCHANGED <<exact, count>>
         \/ ~Allocating /\ ~Allocating'
  PROVE  UNCHANGED <<Available, held, Pending>>
<1>1. Available' = Available BY DEF Available
<1>2. CASE Allocating /\ Allocating' /\ UNCHANGED <<exact, count>>
  <2>1. (Allocating /\ exact)' = (Allocating /\ exact) BY <1>2, Zenon
  <2> QED BY <1>1, <1>2, <2>1 DEF Pending
<1>3. CASE ~Allocating /\ ~Allocating'
  <2>1. (Allocating /\ exact)' = FALSE /\ (Allocating /\ exact) = FALSE BY <1>3, Zenon
  <2> QED BY <1>1, <1>3, <2>1 DEF Pending
<1> QED BY <1>2, <1>3

\* alloc_raw begins: a client asks.
LEMMA AllocRawPool ==
  ASSUME IInv, NEW n \in 1 .. MaxRequest, NEW ex \in BOOLEAN, AllocRaw(n, ex)
  PROVE  Pool!Next
<1>1. /\ pc = "idle" /\ pc' = "scan" /\ count' = n /\ exact' = ex
      /\ usable_pages' = usable_pages /\ held' = held
  BY DEF AllocRaw, Goto, accounts
<1>2. n \in 1 .. Pool!Pow2[CLASS_COUNT] BY MaxRequestAssumption, ClassFacts, Pow2Type, SamePowers
<1>3. exact \in BOOLEAN BY DEF IInv, TypeOK
<1>4. ~Allocating /\ Allocating' BY <1>1 DEF Allocating
<1>5. Pending = Pool!NoRequest BY <1>3, <1>4, PendingIs
<1>6. Pending' = [n |-> n, exact |-> ex]
  <2>1. (Allocating' /\ exact') = ex BY <1>1, <1>4, Zenon
  <2> QED BY <1>1, <1>4, <2>1 DEF Pending
<1>7. Available' = Available BY <1>1 DEF Available
<1>8. Pool!Ask(n, ex) BY <1>1, <1>5, <1>6, <1>7 DEF Pool!Ask
<1> QED BY <1>2, <1>8 DEF Pool!Next

\* A call that returns without pages: the request is refused.
LEMMA RefusePool ==
  ASSUME IInv, Allocating, count >= 1, pc' = "idle", UNCHANGED <<usable_pages, held>>, exact' = FALSE,
         exact => ~Pool!HasRoom(count), ~exact => Available = {}
  PROVE  Pool!Next
<1>1. exact \in BOOLEAN /\ count \in Nat BY DEF IInv, TypeOK
<1>2. Pending # Pool!NoRequest BY <1>1, PendingSome
<1>3. Pending.n = count /\ (Pending.exact <=> exact) BY <1>1, PendingIs
<1>4. Pending' = Pool!NoRequest
  <2>1. ~Allocating' BY DEF Allocating
  <2>2. (Allocating' /\ exact') = FALSE BY <2>1, Zenon
  <2> QED BY <2>1, <2>2 DEF Pending, Pool!NoRequest
<1>5. Available' = Available BY DEF Available
<1>6. IF Pending.exact THEN ~Pool!HasRoom(Pending.n) ELSE Available = {}
  <2>1. CASE exact BY <1>3, <2>1
  <2>2. CASE ~exact BY <1>3, <2>2
  <2> QED BY <2>1, <2>2
<1>7. Pool!Refuse BY <1>2, <1>4, <1>5, <1>6 DEF Pool!Refuse
<1> QED BY <1>7 DEF Pool!Next

\* raw_pages and zeroed_pages return NULL: there is no room.
LEMMA ScanFailsPool ==
  ASSUME IInv, ScanFails PROVE Pool!Next
<1>1. /\ pc = "scan" /\ class = CLASS_COUNT /\ exact /\ pc' = "idle" /\ exact' = FALSE
      /\ usable_pages' = usable_pages /\ held' = held
  BY DEF ScanFails, Return, accounts
<1> DEFINE c == smallest_greater_power2(count)
<1>2. count \in 1 .. Pow2[CLASS_COUNT] /\ \A j \in c .. CLASS_COUNT - 1 : freelist[j] = NULL
  BY <1>1 DEF IInv, Underway
<1>3. CLASS_COUNT \in Nat /\ Pow2[CLASS_COUNT] \in Nat /\ c \in Nat BY <1>2, ClassFacts, Pow2Type, ClassFor
<1>4. \A j \in Nat : count <= Pow2[j] => c <= j BY <1>2, ClassLeast
<1> HIDE DEF c
<1>5. ASSUME NEW k \in Classes, count <= Pow2[k], Pool!HasBlock(k) PROVE FALSE
  <2>1. k \in Nat BY ClassFacts
  <2>2. c <= k BY <1>4, <1>5, <2>1
  <2>3. PICK j \in Classes : j >= k /\ freelist[j] # NULL BY <1>1, <1>5, RoomIsListed
  <2>4. j \in c .. CLASS_COUNT - 1 BY <1>3, <2>1, <2>2, <2>3 DEF Classes
  <2> QED BY <1>2, <2>3, <2>4
<1>6. ~Pool!HasRoom(count) BY <1>5, SamePowers DEF Pool!HasRoom, Classes
<1>7. Allocating /\ count >= 1 BY <1>1, <1>2, <1>3 DEF Allocating
<1> QED BY <1>1, <1>6, <1>7, RefusePool

\* try_raw_pages returns NULL: no page is free.
LEMMA FallbackFailsPool ==
  ASSUME IInv, Asked, FallbackFails PROVE Pool!Next
<1>1. /\ pc = "fallback" /\ class < 0 /\ pc' = "idle" /\ exact' = FALSE
      /\ usable_pages' = usable_pages /\ held' = held
  BY DEF FallbackFails, Return, accounts
<1>2. ~exact /\ count \in 1 .. Pow2[CLASS_COUNT] /\ \A j \in Classes : class < j => freelist[j] = NULL
  BY <1>1 DEF Asked
<1>3. class \in Int /\ CLASS_COUNT \in Nat /\ Pow2[CLASS_COUNT] \in Nat
  BY <1>1, ClassFacts, Pow2Type DEF IInv, Underway
<1>4. \A j \in Classes : class < j BY <1>1, <1>3 DEF Classes
<1>5. Available = {} BY <1>1, <1>2, <1>4, NothingListed
<1>6. Allocating /\ count >= 1 BY <1>1, <1>2, <1>3 DEF Allocating
<1> QED BY <1>1, <1>2, <1>5, <1>6, RefusePool

\* try_raw_pages settles for the largest block there is.
LEMMA FallbackFoundPool ==
  ASSUME IInv, Asked, FallbackFound PROVE Pool!Next
<1>1. /\ pc = "fallback" /\ pc' = "take" /\ class >= 0 /\ freelist[class] # NULL /\ count' = Pow2[class]
      /\ exact' = exact /\ usable_pages' = usable_pages /\ held' = held
  BY DEF FallbackFound, Goto, accounts
<1>2. /\ ~exact /\ count \in 1 .. Pow2[CLASS_COUNT]
      /\ \A j \in Classes : j <= class => Pow2[j] < count
      /\ \A j \in Classes : class < j => freelist[j] = NULL
  BY <1>1 DEF Asked
<1>3. CLASS_COUNT \in Nat /\ Pow2[CLASS_COUNT] \in Nat BY ClassFacts, Pow2Type
<1>4. class \in Classes /\ class \in Nat BY <1>1, <1>3 DEF IInv, Underway, Classes
<1>5. exact \in BOOLEAN /\ Allocating /\ Allocating' BY <1>1 DEF IInv, TypeOK, Allocating
<1>6. Pending.n = count /\ ~Pending.exact BY <1>2, <1>5, PendingIs
<1>7. Pending' = [n |-> Pow2[class], exact |-> FALSE]
  <2>1. (Allocating' /\ exact') = FALSE BY <1>1, <1>2, Zenon
  <2> QED BY <1>1, <1>5, <2>1 DEF Pending
<1>8. Available' = Available BY <1>1 DEF Available
<1>9. ASSUME NEW k \in Classes, Pool!HasBlock(k) PROVE k <= class
  <2>1. PICK j \in Classes : j >= k /\ freelist[j] # NULL BY <1>1, <1>9, RoomIsListed
  <2>2. ~(class < j) BY <1>2, <2>1
  <2>3. j \in Nat /\ k \in Nat BY ClassFacts
  <2> QED BY <1>4, <2>1, <2>2, <2>3
<1>10. ~Pool!HasRoom(count)
  <2> SUFFICES ASSUME NEW k \in Classes, count <= Pow2[k], Pool!HasBlock(k) PROVE FALSE
    BY SamePowers DEF Pool!HasRoom, Classes
  <2>1. Pow2[k] < count BY <1>2, <1>9
  <2>2. Pow2[k] \in Nat /\ count \in Nat BY <1>2, <1>3, ClassFacts
  <2> QED BY <2>1, <2>2
<1>11. Pool!HasBlock(class) BY <1>1, <1>4, ListedIsRoom
<1>12. \A j \in class + 1 .. CLASS_COUNT - 1 : ~Pool!HasBlock(j)
  <2> SUFFICES ASSUME NEW j \in class + 1 .. CLASS_COUNT - 1, Pool!HasBlock(j) PROVE FALSE OBVIOUS
  <2>1. j \in Classes /\ j \in Nat /\ class < j BY <1>3, <1>4 DEF Classes
  <2>2. j <= class BY <1>9, <2>1
  <2> QED BY <1>4, <2>1, <2>2
<1>13. Pool!Settle(class)
  BY <1>1, <1>6, <1>7, <1>8, <1>10, <1>11, <1>12, SamePowers DEF Pool!Settle
<1> QED BY <1>4, <1>13 DEF Pool!Next, Classes

\* alloc_raw returns a run of pages.
LEMMA HandOutPool ==
  ASSUME IInv, Asked, HandOut PROVE Pool!Next
<1>1. /\ pc = "return" /\ pc' = "idle" /\ exact' = FALSE /\ usable_pages' = usable_pages
      /\ held' = held \cup PageRange(begin, count)
  BY DEF HandOut, Return, accounts
<1>2. count >= 1 /\ \E k \in Classes : count <= Pow2[k] /\ is_aligned(begin, k) BY <1>1 DEF Asked
<1>3. begin \in Nat /\ count \in Nat /\ begin + count <= PageCount /\ exact \in BOOLEAN /\ PageCount \in Nat
  BY <1>1, PageCountAssumption DEF IInv, TypeOK, Underway
<1>4. Allocating /\ ~Allocating' BY <1>1 DEF Allocating
<1>5. Pending # Pool!NoRequest BY <1>2, <1>3, <1>4, PendingSome
<1>6. Pending.n = count BY <1>3, <1>4, PendingIs
<1>7. Pending' = Pool!NoRequest
  <2>1. (Allocating' /\ exact') = FALSE BY <1>4, Zenon
  <2> QED BY <1>4, <2>1 DEF Pending, Pool!NoRequest
<1>8. PICK given : given = PageRange(begin, count) OBVIOUS
<1>9. given \subseteq Available
  <2>1. Busy = given BY <1>1, <1>8 DEF Busy
  <2>2. free_pages \cup held \cup given = usable_pages /\ held \cap given = {} BY <2>1 DEF IInv, Books
  <2> QED BY <2>2 DEF Available
<1>10. Available' = Available \ given BY <1>1, <1>8 DEF Available
<1>11. Pool!Run(begin, Pending.n) = given BY <1>6, <1>8 DEF Pool!Run, PageRange
<1>12. \E k \in 0 .. CLASS_COUNT - 1 : Pending.n <= Pool!Pow2[k] /\ begin % Pool!Pow2[k] = 0
  BY <1>2, <1>6, SamePowers DEF Classes, is_aligned
<1>13. held' = held \cup given BY <1>1, <1>8
<1>14. Pool!Give(begin)
  BY <1>5, <1>7, <1>9, <1>10, <1>11, <1>12, <1>13 DEF Pool!Give
<1>15. begin \in 0 .. PageCount - 1 BY <1>2, <1>3
<1> QED BY <1>14, <1>15 DEF Pool!Next

\* release_pages begins: clients no longer have the pages.
LEMMA ReleasePagesPool ==
  ASSUME IInv, NEW b \in Pages, NEW n \in 1 .. MaxRequest, ReleasePages(b, n) PROVE Pool!Next
<1>0. PageCount \in Nat /\ n \in Nat /\ n > 0 /\ b \in Nat /\ b \in 0 .. PageCount
  BY PageCountAssumption, MaxRequestAssumption DEF Pages
<1>1. /\ pc = "idle" /\ pc' = "release" /\ usable_pages' = usable_pages /\ exact' = exact
      /\ PageRange(b, n) \subseteq held /\ held' = held \ PageRange(b, n) /\ PageRange(b, n) \subseteq usable_pages
  BY DEF ReleasePages, StartRelease, ReleaseAsserts, accounts
<1>2. n \in 0 .. PageCount
  <2>1. b + n - 1 \in PageRange(b, n) BY <1>0 DEF PageRange
  <2>2. held \subseteq Pages BY DEF IInv, TypeOK
  <2> QED BY <1>0, <1>1, <2>1, <2>2 DEF Pages
<1>3. exact \in BOOLEAN BY DEF IInv, TypeOK
<1>4. ~Allocating /\ ~Allocating' BY <1>1 DEF Allocating
<1>5. Pending = Pool!NoRequest BY <1>3, <1>4, PendingIs
<1>6. Pending' = Pending
  <2>1. (Allocating' /\ exact') = (Allocating /\ exact) BY <1>4, Zenon
  <2> QED BY <1>4, <2>1 DEF Pending
<1>7. PICK r : r = PageRange(b, n) OBVIOUS
<1>8. r \subseteq held /\ held' = held \ r /\ r \subseteq usable_pages BY <1>1, <1>7
<1>9. Available' = Available \cup r BY <1>1, <1>8 DEF Available
<1>10. Pool!Run(b, n) = r BY <1>7 DEF Pool!Run, PageRange
<1>11. Pool!TakeBack(b, n) BY <1>5, <1>6, <1>8, <1>9, <1>10 DEF Pool!TakeBack
<1> QED BY <1>0, <1>2, <1>11 DEF Pool!Next

\* memory__init releases an entry of the memory map: the pool grows.
LEMMA BootEntryPool ==
  ASSUME IInv, BootEntry PROVE Pool!Next
<1> DEFINE b == Head(mmap)[1]
           size == Head(mmap)[2] - b
<1>1. /\ pc = "boot" /\ pc' = "release" /\ mmap # <<>> /\ held' = held /\ exact' = exact
      /\ usable_pages' = usable_pages \cup PageRange(b, size) /\ PageRange(b, size) \cap free_pages = {}
  BY DEF BootEntry, StartRelease
<1>2. mmap \in Seq(Ranges) /\ held = {} BY <1>1 DEF IInv, Booting
<1>3. Head(mmap) \in Ranges BY <1>1, <1>2
<1>4. PageCount \in Nat BY PageCountAssumption
<1>5. b \in 0 .. PageCount /\ size \in 0 .. PageCount BY <1>3, <1>4 DEF Ranges
<1> HIDE DEF b, size
<1>6. exact \in BOOLEAN BY DEF IInv, TypeOK
<1>7. ~Allocating /\ ~Allocating' BY <1>1 DEF Allocating
<1>8. Pending = Pool!NoRequest BY <1>6, <1>7, PendingIs
<1>9. Pending' = Pending
  <2>1. (Allocating' /\ exact') = (Allocating /\ exact) BY <1>7, Zenon
  <2> QED BY <1>7, <2>1 DEF Pending
<1>10. PICK r : r = PageRange(b, size) OBVIOUS
<1>11. r \cap (Available \cup held) = {}
  <2>1. Busy = {} BY <1>1 DEF Busy
  <2>2. free_pages = usable_pages BY <1>2, <2>1 DEF IInv, Books
  <2> QED BY <1>1, <1>2, <1>10, <2>2 DEF Available
<1>12. Available' = Available \cup r BY <1>1, <1>2, <1>10 DEF Available
<1>13. Pool!Run(b, size) = r BY <1>10 DEF Pool!Run, PageRange
<1>14. Pool!Grow(b, size) BY <1>1, <1>8, <1>9, <1>11, <1>12, <1>13 DEF Pool!Grow
<1> QED BY <1>5, <1>14 DEF Pool!Next

\* unsafe_mark_memory_usability declares a page.
LEMMA MarkUsabilityPool ==
  ASSUME IInv, NEW b \in Reserved, NEW usable \in BOOLEAN, MarkUsability(b, 1, usable) PROVE Pool!Next
<1>0. b \in 0 .. PageCount - 1 /\ PageRange(b, 1) = {b} BY PageCountAssumption, ReservedAssumption DEF PageRange
<1>1. /\ pc = "idle" /\ pc' = "idle" /\ b \notin free_pages
      /\ usable_pages' = IF usable THEN usable_pages \cup {b} ELSE usable_pages \ {b}
      /\ held' = IF usable THEN held \cup {b} ELSE held \ {b}
      /\ exact' = exact
  BY <1>0 DEF MarkUsability, locals
<1>2. exact \in BOOLEAN BY DEF IInv, TypeOK
<1>3. ~Allocating /\ ~Allocating' BY <1>1 DEF Allocating
<1>4. Pending = Pool!NoRequest BY <1>2, <1>3, PendingIs
<1>5. Pending' = Pending
  <2>1. (Allocating' /\ exact') = (Allocating /\ exact) BY <1>3, Zenon
  <2> QED BY <1>3, <2>1 DEF Pending
<1>6. b \notin Available
  <2>1. Busy = {} BY <1>1 DEF Busy
  <2> QED BY <1>1, <2>1 DEF IInv, Books, Available
<1>7. Available' = Available
  <2>1. CASE usable BY <1>1, <1>6, <2>1 DEF Available
  <2>2. CASE ~usable BY <1>1, <1>6, <2>2 DEF Available
  <2> QED BY <2>1, <2>2
<1>8. Pool!Declare(b, TRUE) \/ Pool!Declare(b, FALSE)
  <2>1. CASE usable
    <3>1. held' = held \cup {b} BY <1>1, <2>1
    <3> QED BY <1>4, <1>5, <1>6, <1>7, <3>1 DEF Pool!Declare
  <2>2. CASE ~usable
    <3>1. held' = held \ {b} BY <1>1, <2>2
    <3> QED BY <1>4, <1>5, <1>6, <1>7, <3>1 DEF Pool!Declare
  <2> QED BY <2>1, <2>2
<1> QED BY <1>0, <1>8 DEF Pool!Next

\* The buddy allocator is a pool of pages to its clients: splitting, merging and
\* walking the lists are invisible, requests are met from free pages and are
\* refused or cut down only when no aligned block is left for them.
THEOREM ImplementsPool == Spec => RefinesPool
<1>1. Init => Pool!Init
  <2> SUFFICES ASSUME Init PROVE Pool!Init OBVIOUS
  <2>1. exact \in BOOLEAN /\ ~Allocating BY Zenon DEF Init, Allocating
  <2>2. Pending = Pool!NoRequest BY <2>1, PendingIs
  <2>3. Available = {} /\ held = {} BY DEF Init, Available
  <2> QED BY <2>2, <2>3 DEF Pool!Init
<1>2. Init => Asked BY DEF Init, Asked
<1>3. IInv /\ Asked /\ [Next]_vars => [Pool!Next]_<<Available, held, Pending>>
  <2> SUFFICES ASSUME IInv, Asked, [Next]_vars
               PROVE  Pool!Next \/ UNCHANGED <<Available, held, Pending>>
    OBVIOUS
  <2>1. CASE BootEntry BY <2>1, BootEntryPool
  <2>2. CASE ScanFails BY <2>2, ScanFailsPool
  <2>3. CASE FallbackFound BY <2>3, FallbackFoundPool
  <2>4. CASE FallbackFails BY <2>4, FallbackFailsPool
  <2>5. CASE HandOut BY <2>5, HandOutPool
  <2>6. CASE ScanNext \/ ScanFound \/ ScanFallsBack \/ FallbackNext \/ Take \/ SplitUpper \/ SplitLower \/ SplitDone
    <3>1. /\ usable_pages' = usable_pages /\ held' = held /\ exact' = exact /\ count' = count
          /\ Allocating /\ Allocating'
      BY <2>6 DEF ScanNext, ScanFound, ScanFallsBack, FallbackNext, Take, SplitUpper, SplitLower, SplitDone,
                  Goto, accounts, locals, Allocating
    <3> QED BY <3>1, Unseen
  <2>7. CASE BootDone \/ Merge \/ AddBlock \/ ReleaseDone
    <3>1. usable_pages' = usable_pages /\ held' = held /\ ~Allocating /\ ~Allocating'
      BY <2>7 DEF BootDone, Merge, AddBlock, ReleaseDone, Return, Goto, accounts, Allocating
    <3> QED BY <3>1, Unseen
  <2>8. CASE Call BY <2>8, AllocRawPool, ReleasePagesPool, MarkUsabilityPool DEF Call
  <2>9. CASE UNCHANGED vars
    <3>1. /\ usable_pages' = usable_pages /\ held' = held /\ exact' = exact /\ count' = count
          /\ Allocating' <=> Allocating
      BY <2>9 DEF vars, accounts, locals, Allocating
    <3> QED BY <3>1, Unseen
  <2> QED BY <2>1, <2>2, <2>3, <2>4, <2>5, <2>6, <2>7, <2>8, <2>9 DEF Next, Step
<1> QED BY <1>1, <1>2, <1>3, AskedStep, Invariant, PTL DEF Spec, RefinesPool, Pool!Spec
=============================================================================
