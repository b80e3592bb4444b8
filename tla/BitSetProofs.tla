---------------------------- MODULE BitSetProofs ----------------------------
(***************************************************************************)
(* Proofs about BitSet, for any width of a word and any number of bits.    *)
(* The heart of it is Covered: the single bits and the whole words of a    *)
(* range make up the range.                                                *)
(***************************************************************************)
EXTENDS BitSet, NaturalsInduction, WellFoundedInduction, FiniteSetTheorems, TLAPS

-----------------------------------------------------------------------------
(* Numbers *)

\* The order of the natural numbers as a relation
Below == OpToRel(<, Nat)

\* Every non-empty set of natural numbers has a least element.
LEMMA Least ==
  ASSUME NEW T \in SUBSET Nat, T # {}
  PROVE  \E x \in T : \A y \in T : x <= y
<1>1. IsWellFoundedOn(Below, Nat) BY NatLessThanWellFounded DEF Below
<1>2. \A x, y \in Nat : x < y => <<x, y>> \in Below BY DEF Below, OpToRel
<1>3. PICK x \in T : \A y \in T : <<y, x>> \notin Below BY <1>1, WFMin
<1>4. ASSUME NEW y \in T PROVE x <= y
  <2>1. x \in Nat /\ y \in Nat OBVIOUS
  <2>2. ~(y < x) BY <1>2, <1>3, <2>1
  <2> QED BY <2>1, <2>2
<1> QED BY <1>4

\* A set that holds 0 and with every number the next one holds them all.
LEMMA SetInduction ==
  ASSUME NEW S, 0 \in S, \A n \in Nat : n \in S => n + 1 \in S
  PROVE  \A n \in Nat : n \in S
<1> SUFFICES ASSUME Nat \ S # {} PROVE FALSE OBVIOUS
<1>1. PICK x \in Nat \ S : \A y \in Nat \ S : x <= y BY Least
<1>2. x - 1 \in Nat /\ ~(x <= x - 1) BY <1>1
<1>3. x - 1 \in S BY <1>1, <1>2
<1>4. (x - 1) + 1 = x BY <1>1
<1> QED BY <1>2, <1>3, <1>4

\* What % and \div mean for the prover.
LEMMA Division ==
  ASSUME NEW v \in Nat, NEW a \in Nat \ {0}
  PROVE  /\ v \div a \in Nat /\ v % a \in Nat
         /\ v = a * (v \div a) + (v % a) /\ v % a < a
  BY SMT

\* Quotients compare like the multiples they belong to.
LEMMA Multiples ==
  ASSUME NEW a \in Nat \ {0}, NEW j \in Nat, NEW k \in Nat, j < k
  PROVE  a * j + a <= a * k /\ a * j \in Nat
<1>1. PICK d \in Nat : k = j + 1 + d BY SMT
<1>2. a * k = a * j + a + a * d BY <1>1, SMT
<1>3. a * d \in Nat BY SMT
<1>4. a * j \in Nat BY SMT
<1> QED BY <1>2, <1>3, <1>4

\* A number is split into quotient and remainder in one way only.
LEMMA Unique ==
  ASSUME NEW a \in Nat \ {0}, NEW q \in Nat, NEW r \in 0 .. a - 1
  PROVE  (a * q + r) \div a = q /\ (a * q + r) % a = r
<1> DEFINE v == a * q + r
<1>1. a * q \in Nat BY SMT
<1>2. v \in Nat BY <1>1
<1> DEFINE p == v \div a
           s == v % a
<1>3. p \in Nat /\ s \in Nat /\ v = a * p + s /\ s < a BY <1>2, Division
<1>4. a * p \in Nat BY <1>3, SMT
<1> HIDE DEF p, s
<1>5. ~(p < q)
  <2> SUFFICES ASSUME p < q PROVE FALSE OBVIOUS
  <2>1. a * p + a <= a * q BY <1>3, Multiples
  <2> QED BY <1>1, <1>3, <1>4, <2>1
<1>6. ~(q < p)
  <2> SUFFICES ASSUME q < p PROVE FALSE OBVIOUS
  <2>1. a * q + a <= a * p BY <1>3, Multiples
  <2> QED BY <1>1, <1>3, <1>4, <2>1
<1>7. p = q BY <1>3, <1>5, <1>6
<1>8. s = r BY <1>1, <1>3, <1>7
<1> QED BY <1>7, <1>8 DEF p, s

-----------------------------------------------------------------------------

\* align_up and align_down yield multiples of the width around their argument.
LEMMA Aligned ==
  ASSUME NEW v \in Nat
  PROVE  /\ align_down(v) \in Nat /\ align_down(v) <= v
         /\ align_down(v) = WordBits * (align_down(v) \div WordBits)
         /\ align_up(v) \in Nat /\ v <= align_up(v)
         /\ align_up(v) = WordBits * (align_up(v) \div WordBits)
         /\ align_up(v) \div WordBits \in Nat /\ align_down(v) \div WordBits \in Nat
<1> USE WordBitsAssumption
<1> DEFINE q == v \div WordBits
<1>1. q \in Nat /\ v % WordBits \in Nat /\ v = WordBits * q + (v % WordBits) /\ v % WordBits < WordBits
  BY Division
<1>2. WordBits * q \in Nat BY <1>1, SMT
<1>3. align_down(v) = WordBits * q BY <1>1, <1>2 DEF align_down
<1>4. align_down(v) \div WordBits = q
  <2>1. (WordBits * q + 0) \div WordBits = q BY <1>1, Unique
  <2> QED BY <1>2, <1>3, <2>1
<1>5. align_up(v) \in Nat /\ v <= align_up(v)
  BY <1>1, <1>2, <1>3 DEF align_up
<1>6. PICK k \in Nat : align_up(v) = WordBits * k
  <2>1. CASE v % WordBits = 0
    <3>1. align_up(v) = WordBits * q BY <1>1, <1>2, <2>1 DEF align_up
    <3> HIDE DEF q
    <3> QED BY <1>1, <3>1
  <2>2. CASE v % WordBits # 0
    <3>1. align_up(v) = WordBits * q + WordBits BY <1>3, <2>2 DEF align_up
    <3>2. WordBits * (q + 1) = WordBits * q + WordBits BY <1>1, SMT
    <3> DEFINE k == q + 1
    <3>3. k \in Nat BY <1>1
    <3>4. align_up(v) = WordBits * k BY <3>1, <3>2
    <3> HIDE DEF q, k
    <3> QED BY <3>3, <3>4
  <2> QED BY <2>1, <2>2
<1>7. align_up(v) \div WordBits = k
  <2>1. (WordBits * k + 0) \div WordBits = k BY Unique
  <2>2. WordBits * k \in Nat BY SMT
  <2> QED BY <1>6, <2>1, <2>2
<1> QED BY <1>1, <1>2, <1>3, <1>4, <1>5, <1>6, <1>7

\* The bits that a range operation takes one by one and the words it takes at
\* once make up its range.
LEMMA Covered ==
  ASSUME NEW begin \in Nat, NEW end \in Nat, NEW i \in Nat
  PROVE  i \in begin .. end - 1 <=> i \in Slow(begin, end) \/ i \div WordBits \in Fast(begin, end)
<1> USE WordBitsAssumption
<1> DEFINE fb == align_up(begin) \div WordBits
           fe == align_down(end) \div WordBits
           q == i \div WordBits
           up == align_up(begin)
           down == align_down(end)
<1>1. /\ up \in Nat /\ begin <= up /\ up = WordBits * fb /\ fb \in Nat
      /\ down \in Nat /\ down <= end /\ down = WordBits * fe /\ fe \in Nat
  BY Aligned
<1>2. q \in Nat /\ i % WordBits \in Nat /\ i = WordBits * q + (i % WordBits) /\ i % WordBits < WordBits
  BY Division
<1>3. WordBits * q \in Nat BY <1>2, SMT
<1>4. Fast(begin, end) = fb .. fe - 1 BY DEF Fast
<1>5. Slow(begin, end) = IF up >= down THEN begin .. end - 1
                         ELSE (begin .. up - 1) \cup (down .. end - 1)
  BY DEF Slow
<1> HIDE DEF fb, fe, q, up, down
<1>6. fb <= q <=> up <= i
  <2>1. ASSUME q < fb PROVE i < up
    <3>1. WordBits * q + WordBits <= WordBits * fb BY <1>1, <1>2, <2>1, Multiples
    <3> QED BY <1>1, <1>2, <1>3, <3>1
  <2>2. ASSUME fb < q PROVE up <= i
    <3>1. WordBits * fb + WordBits <= WordBits * q BY <1>1, <1>2, <2>2, Multiples
    <3> QED BY <1>1, <1>2, <1>3, <3>1
  <2>3. ASSUME fb = q PROVE up <= i BY <1>1, <1>2, <1>3, <2>3
  <2> QED BY <1>1, <1>2, <2>1, <2>2, <2>3
<1>7. q < fe <=> i < down
  <2>1. ASSUME q < fe PROVE i < down
    <3>1. WordBits * q + WordBits <= WordBits * fe BY <1>1, <1>2, <2>1, Multiples
    <3> QED BY <1>1, <1>2, <1>3, <3>1
  <2>2. ASSUME fe < q PROVE down <= i
    <3>1. WordBits * fe + WordBits <= WordBits * q BY <1>1, <1>2, <2>2, Multiples
    <3> QED BY <1>1, <1>2, <1>3, <3>1
  <2>3. ASSUME fe = q PROVE down <= i BY <1>1, <1>2, <1>3, <2>3
  <2> QED BY <1>1, <1>2, <2>1, <2>2, <2>3
<1>8. q \in Fast(begin, end) <=> up <= i /\ i < down
  BY <1>1, <1>2, <1>4, <1>6, <1>7
<1>9. i \in begin .. end - 1 <=> i \in Slow(begin, end) \/ (up <= i /\ i < down)
  BY <1>1, <1>5
<1> QED BY <1>8, <1>9 DEF q

\* A word whose first bit exists is a word of the array.
LEMMA WordExists ==
  ASSUME NEW w \in Nat, WordBits * w < Count
  PROVE  w \in Words
<1> USE WordBitsAssumption, CountAssumption
<1>1. w <= WordBits * w
  <2>1. CASE w = 0 BY <2>1, SMT
  <2>2. CASE WordBits = 1 BY <2>2, SMT
  <2>3. CASE 0 < w /\ 1 < WordBits
    <3>1. w * 1 + w <= w * WordBits BY <2>3, Multiples
    <3>2. w * 1 = w /\ w * WordBits = WordBits * w BY SMT
    <3>3. WordBits * w \in Nat BY SMT
    <3> QED BY <3>1, <3>2, <3>3
  <2> QED BY <2>1, <2>2, <2>3
<1>2. w \in 0 .. Count BY <1>1
<1>3. w * WordBits = WordBits * w BY SMT
<1> QED BY <1>2, <1>3 DEF Words

\* Where a bit is.
LEMMA Place ==
  ASSUME NEW i \in 0 .. Count - 1
  PROVE  /\ i \in Nat /\ i \div WordBits \in Words /\ i % WordBits \in Offsets
         /\ i = (i \div WordBits) * WordBits + (i % WordBits)
<1> USE WordBitsAssumption, CountAssumption
<1> DEFINE q == i \div WordBits
           r == i % WordBits
<1>1. i \in Nat BY SMT
<1>2. q \in Nat /\ r \in Nat /\ i = WordBits * q + r /\ r < WordBits
  BY <1>1, Division
<1> HIDE DEF q, r
<1>3. WordBits * q \in Nat /\ q * WordBits = WordBits * q BY <1>2, SMT
<1>4. q \in Words BY <1>2, <1>3, WordExists
<1> QED BY <1>1, <1>2, <1>3, <1>4 DEF q, r, Offsets

\* The bits of a whole word of a range belong to the range.
LEMMA FastBits ==
  ASSUME NEW begin \in 0 .. Count, NEW end \in 0 .. Count,
         NEW w \in Fast(begin, end), NEW r \in Offsets
  PROVE  /\ w \in Words /\ WordBits * w + r \in begin .. end - 1
         /\ (WordBits * w + r) \div WordBits = w /\ (WordBits * w + r) % WordBits = r
<1> USE WordBitsAssumption, CountAssumption
<1>1. w \in Nat
  BY Aligned DEF Fast
<1>2. r \in 0 .. WordBits - 1 BY DEF Offsets
<1>3. (WordBits * w + r) \div WordBits = w /\ (WordBits * w + r) % WordBits = r
  BY <1>1, <1>2, Unique
<1>4. WordBits * w \in Nat BY <1>1, SMT
<1>5. WordBits * w + r \in Nat BY <1>2, <1>4
<1>6. WordBits * w + r \in begin .. end - 1 BY <1>3, <1>5, Covered
<1>7. WordBits * w < Count BY <1>2, <1>4, <1>6
<1> QED BY <1>1, <1>3, <1>6, <1>7, WordExists

-----------------------------------------------------------------------------
(* The theorems *)

\* The words that Count bits take up.
Array == 0 .. (align_up(Count) \div WordBits) - 1

\* No operation goes outside the array: set_all's loop runs through exactly the
\* words that Count bits take up, and the word boundaries and single bits of every
\* range that the assertions accept (BitSet__get_count, get_all, get_any, set_range)
\* are in these words.
THEOREM WordsInArray ==
  /\ Words = Array
  /\ \A begin, end \in 0 .. Count :
       /\ Fast(begin, end) \subseteq Array
       /\ \A i \in Slow(begin, end) : i \div WordBits \in Array /\ i % WordBits \in Offsets
<1> USE WordBitsAssumption, CountAssumption
<1> DEFINE up == align_up(Count)
           n == up \div WordBits
<1>1. up \in Nat /\ Count <= up /\ up = WordBits * n /\ n \in Nat BY Aligned
<1>2. up < Count + WordBits
  <2>1. Count % WordBits \in Nat /\ Count % WordBits < WordBits BY Division
  <2> QED BY <2>1 DEF align_up, align_down
<1>3. Array = 0 .. n - 1 BY DEF Array
<1> HIDE DEF up, n
<1>4. ASSUME NEW w \in Words PROVE w \in Array
  <2>1. w \in Nat /\ w * WordBits < Count BY DEF Words
  <2>2. w * WordBits = WordBits * w /\ WordBits * w \in Nat BY <2>1, SMT
  <2>3. n < w => WordBits * n + WordBits <= WordBits * w BY <1>1, <2>1, Multiples
  <2>4. n = w => WordBits * n = WordBits * w OBVIOUS
  <2>5. w < n BY <1>1, <2>1, <2>2, <2>3, <2>4
  <2> QED BY <1>1, <1>3, <2>1, <2>5
<1>5. ASSUME NEW w \in Array PROVE w \in Words
  <2>1. w \in Nat /\ w < n BY <1>1, <1>3
  <2>2. WordBits * w + WordBits <= WordBits * n /\ WordBits * w \in Nat BY <1>1, <2>1, Multiples
  <2>3. WordBits * w < Count BY <1>1, <1>2, <2>2
  <2> QED BY <2>1, <2>3, WordExists
<1>6. Words = Array BY <1>4, <1>5
<1>7. ASSUME NEW begin \in 0 .. Count, NEW end \in 0 .. Count
      PROVE  /\ Fast(begin, end) \subseteq Array
             /\ \A i \in Slow(begin, end) : i \div WordBits \in Array /\ i % WordBits \in Offsets
  <2>1. 0 \in Offsets BY DEF Offsets
  <2>2. Fast(begin, end) \subseteq Words BY <2>1, FastBits
  <2>3. ASSUME NEW i \in Slow(begin, end) PROVE i \div WordBits \in Words /\ i % WordBits \in Offsets
    <3>1. i \in Nat BY Aligned DEF Slow
    <3>2. i \in begin .. end - 1 BY <3>1, Covered
    <3> QED BY <3>2, Place
  <2> QED BY <1>6, <2>2, <2>3
<1> QED BY <1>6, <1>7

\* The array keeps its type, which the theorems below start from.
LEMMA TypeCorrect == Spec => []TypeOK
<1>1. Init => TypeOK BY DEF Init, TypeOK
<1>2. TypeOK /\ [Next]_data => TypeOK'
  <2> SUFFICES ASSUME TypeOK, [Next]_data PROVE TypeOK' OBVIOUS
  <2> USE DEF TypeOK
  <2>1. ASSUME NEW idx \in 0 .. Count - 1, NEW value \in BOOLEAN, data' = set(idx, value)
        PROVE  TypeOK'
    BY <2>1, Place DEF set
  <2>2. ASSUME NEW value \in BOOLEAN, data' = set_all(value) PROVE TypeOK'
    BY <2>2 DEF set_all, Filled
  <2>3. ASSUME NEW begin \in 0 .. Count, NEW end \in 0 .. Count, NEW value \in BOOLEAN,
               data' = set_range(begin, end, value)
        PROVE  TypeOK'
    BY <2>3 DEF set_range, Filled
  <2>4. CASE UNCHANGED data BY <2>4
  <2> QED BY <2>1, <2>2, <2>3, <2>4 DEF Next
<1> QED BY <1>1, <1>2, PTL DEF Spec

\* The updates of the array are exact (BitSet__set, set_all, set_range): the word
\* boundaries inside a range are found correctly for every begin and end.
THEOREM Updates == Spec => []UpdatesExact
<1>1. TypeOK => UpdatesExact
  <2> SUFFICES ASSUME TypeOK, NEW i \in 0 .. Count - 1, NEW value \in BOOLEAN
               PROVE  /\ Bit(set_all(value), i) <=> value
                      /\ \A idx \in 0 .. Count - 1 :
                           Bit(set(idx, value), i) <=> IF i = idx THEN value ELSE get(i)
                      /\ \A begin, end \in 0 .. Count : begin <= end =>
                           (Bit(set_range(begin, end, value), i)
                              <=> IF i \in begin .. end - 1 THEN value ELSE get(i))
    BY DEF UpdatesExact
  <2> DEFINE q == i \div WordBits
             r == i % WordBits
  <2>1. i \in Nat /\ q \in Words /\ r \in Offsets /\ i = q * WordBits + r BY Place
  <2>2. Bit(set_all(value), i) <=> value
    BY <2>1 DEF Bit, set_all, Filled
  <2>3. ASSUME NEW idx \in 0 .. Count - 1
        PROVE  Bit(set(idx, value), i) <=> IF i = idx THEN value ELSE get(i)
    <3> DEFINE p == idx \div WordBits
               s == idx % WordBits
    <3>1. p \in Words /\ s \in Offsets /\ idx = p * WordBits + s BY Place
    <3>2. i = idx <=> q = p /\ r = s BY <2>1, <3>1
    <3> HIDE DEF q, r, p, s
    <3>3. r \in [data EXCEPT ![p] = IF value THEN @ \cup {s} ELSE @ \ {s}][q]
            <=> IF i = idx THEN value ELSE r \in data[q]
      BY <2>1, <3>1, <3>2 DEF TypeOK
    <3> QED BY <3>3 DEF Bit, set, get, q, r, p, s
  <2>4. ASSUME NEW begin \in 0 .. Count, NEW end \in 0 .. Count
        PROVE  Bit(set_range(begin, end, value), i)
                 <=> IF i \in begin .. end - 1 THEN value ELSE get(i)
    <3>1. i \in begin .. end - 1 <=> i \in Slow(begin, end) \/ q \in Fast(begin, end)
      BY <2>1, Covered, CountAssumption
    <3>2. Bit(set_range(begin, end, value), i) <=>
            r \in IF q \in Fast(begin, end) THEN Filled(value)
                  ELSE {t \in Offsets : IF q * WordBits + t \in Slow(begin, end) THEN value
                                        ELSE t \in data[q]}
      BY <2>1 DEF Bit, set_range
    <3> HIDE DEF q, r
    <3>3. Bit(set_range(begin, end, value), i) <=>
            IF q \in Fast(begin, end) THEN value
            ELSE IF i \in Slow(begin, end) THEN value ELSE r \in data[q]
      BY <2>1, <3>2 DEF Filled
    <3> QED BY <3>1, <3>3 DEF get, Bit, q, r
  <2> QED BY <2>2, <2>3, <2>4
<1> QED BY <1>1, TypeCorrect, PTL

\* The queries on a range (BitSet__get_all, get_any) are exact.
THEOREM Queries == Spec => []QueriesExact
<1>1. TypeOK => QueriesExact
  <2> SUFFICES ASSUME TypeOK, NEW begin \in 0 .. Count, NEW end \in 0 .. Count
               PROVE  /\ get_all(begin, end) <=> \A i \in begin .. end - 1 : get(i)
                      /\ get_any(begin, end) <=> \E i \in begin .. end - 1 : get(i)
    BY DEF QueriesExact
  <2> USE CountAssumption
  <2>1. ASSUME NEW i \in begin .. end - 1
        PROVE  \/ i \in Slow(begin, end)
               \/ /\ i \div WordBits \in Fast(begin, end) /\ i % WordBits \in Offsets
    BY Place, Covered
  <2>2. ASSUME NEW i \in Slow(begin, end) PROVE i \in begin .. end - 1
    <3>1. i \in Nat BY Aligned DEF Slow
    <3> QED BY <3>1, Covered
  <2>3. ASSUME NEW w \in Fast(begin, end), NEW r \in Offsets
        PROVE  \E i \in begin .. end - 1 : get(i) <=> r \in data[w]
    <3> DEFINE i == WordBits * w + r
    <3>1. i \in begin .. end - 1 /\ i \div WordBits = w /\ i % WordBits = r BY FastBits
    <3>2. get(i) <=> r \in data[w] BY <3>1 DEF get, Bit
    <3> HIDE DEF i
    <3> QED BY <3>1, <3>2
  <2>4. \A w \in Fast(begin, end) : data[w] \subseteq Offsets
    <3>1. 0 \in Offsets BY WordBitsAssumption DEF Offsets
    <3> QED BY <3>1, FastBits DEF TypeOK
  <2>5. get_all(begin, end) => \A i \in begin .. end - 1 : get(i)
    BY <2>1 DEF get_all, get, Bit
  <2>6. (\A i \in begin .. end - 1 : get(i)) => get_all(begin, end)
    BY <2>2, <2>3, <2>4 DEF get_all
  <2>7. get_any(begin, end) => \E i \in begin .. end - 1 : get(i)
    BY <2>2, <2>3, <2>4 DEF get_any
  <2>8. (\E i \in begin .. end - 1 : get(i)) => get_any(begin, end)
    BY <2>1 DEF get_any, get, Bit
  <2> QED BY <2>5, <2>6, <2>7, <2>8
<1> QED BY <1>1, TypeCorrect, PTL

-----------------------------------------------------------------------------
(* Counting *)

\* The loop over whole words adds up the ones of one word after the other.
LEMMA WordsCountDef ==
  ASSUME NEW first
  PROVE  /\ WordsCount(first, 0) = 0
         /\ \A n \in Nat : WordsCount(first, n + 1) = WordsCount(first, n) + Cardinality(data[first + (n + 1) - 1])
<1> DEFINE count[k \in Nat] == IF k = 0 THEN 0 ELSE count[k - 1] + Cardinality(data[first + k - 1])
<1>1. NatInductiveDefHypothesis(count, 0, LAMBDA v, k : v + Cardinality(data[first + k - 1]))
  BY DEF NatInductiveDefHypothesis
<1>2. NatInductiveDefConclusion(count, 0, LAMBDA v, k : v + Cardinality(data[first + k - 1]))
  BY <1>1, NatInductiveDef
<1>3. \A n : WordsCount(first, n) = count[n] BY DEF WordsCount
<1> HIDE DEF count
<1>4. \A n \in Nat : count[n] = IF n = 0 THEN 0 ELSE count[n - 1] + Cardinality(data[first + n - 1])
  BY <1>2 DEF NatInductiveDefConclusion
<1>5. \A n \in Nat : n + 1 \in Nat /\ n + 1 # 0 /\ (n + 1) - 1 = n OBVIOUS
<1> QED BY <1>3, <1>4, <1>5

\* The ones among the bits of n words
Ones(first, n) == {i \in WordBits * first .. WordBits * (first + n) - 1 : get(i)}

\* popcount of a word is the number of the ones among its bits.
LEMMA OneWord ==
  ASSUME TypeOK, NEW w \in Words
  PROVE  IsFiniteSet(Ones(w, 1)) /\ Cardinality(Ones(w, 1)) = Cardinality(data[w])
<1> USE WordBitsAssumption, CountAssumption
<1> DEFINE v == WordBits * w
           T == {i \in v .. v + WordBits - 1 : get(i)}
           f == [r \in data[w] |-> v + r]
<1>1. w \in Nat BY DEF Words
<1>2. v \in Nat /\ WordBits * (w + 1) = v + WordBits BY <1>1, SMT
<1>3. Ones(w, 1) = T BY <1>2 DEF Ones
<1>4. data[w] \subseteq 0 .. WordBits - 1 BY DEF TypeOK, Offsets
<1>5. \A r \in 0 .. WordBits - 1 : (v + r) \div WordBits = w /\ (v + r) % WordBits = r
  BY <1>1, Unique
<1> HIDE DEF v
<1>6. \A r \in data[w] : v + r \in T
  <2> SUFFICES ASSUME NEW r \in data[w] PROVE v + r \in T OBVIOUS
  <2>1. r \in 0 .. WordBits - 1 BY <1>4
  <2>2. get(v + r) BY <1>5, <2>1 DEF get, Bit
  <2>3. v + r \in v .. v + WordBits - 1 BY <1>2, <2>1
  <2> QED BY <2>2, <2>3
<1>7. \A i \in T : \E r \in data[w] : i = v + r
  <2> SUFFICES ASSUME NEW i \in T PROVE \E r \in data[w] : i = v + r OBVIOUS
  <2> DEFINE r == i - v
  <2>1. i \in v .. v + WordBits - 1 /\ get(i) OBVIOUS
  <2>2. r \in 0 .. WordBits - 1 /\ i = v + r BY <1>2, <2>1
  <2> HIDE DEF r
  <2>3. r \in data[w] BY <1>5, <2>1, <2>2 DEF get, Bit
  <2> QED BY <2>2, <2>3
<1> HIDE DEF T
<1>8. f \in Bijection(data[w], T)
  <2>1. f \in [data[w] -> T] BY <1>6
  <2>2. \A a, b \in data[w] : f[a] = f[b] => a = b BY <1>2, <1>4
  <2>3. \A i \in T : \E r \in data[w] : f[r] = i BY <1>7
  <2> QED BY <2>1, <2>2, <2>3 DEF Bijection, Injection, Surjection, IsInjective
<1>9. IsFiniteSet(data[w])
  <2>1. IsFiniteSet(0 .. WordBits - 1) BY FS_Interval
  <2> QED BY <1>4, <2>1, FS_Subset
<1> QED BY <1>3, <1>8, <1>9, FS_Bijection DEF ExistsBijection

\* The loop over n whole words counts the ones among their bits.
LEMMA WordsCounted ==
  ASSUME TypeOK, NEW first \in Nat, NEW n \in Nat, \A k \in 0 .. n - 1 : first + k \in Words
  PROVE  IsFiniteSet(Ones(first, n)) /\ WordsCount(first, n) = Cardinality(Ones(first, n))
<1> USE WordBitsAssumption, CountAssumption
<1> DEFINE S == {k \in Nat : k <= n => /\ IsFiniteSet(Ones(first, k))
                                       /\ WordsCount(first, k) = Cardinality(Ones(first, k))}
<1>1. 0 \in S
  <2>1. WordBits * first \in Nat /\ first + 0 = first BY SMT
  <2>2. Ones(first, 0) = {} BY <2>1 DEF Ones
  <2> QED BY <2>2, WordsCountDef, FS_EmptySet
<1>2. ASSUME NEW k \in Nat, k \in S PROVE k + 1 \in S
  <2> SUFFICES ASSUME k + 1 <= n
               PROVE  /\ IsFiniteSet(Ones(first, k + 1))
                      /\ WordsCount(first, k + 1) = Cardinality(Ones(first, k + 1))
    OBVIOUS
  <2> DEFINE w == first + k
             A == Ones(first, k)
             B == Ones(w, 1)
             a == WordBits * first
             b == WordBits * w
             c == WordBits * (w + 1)
  <2>1. k <= n /\ k \in 0 .. n - 1 /\ first + (k + 1) - 1 = w /\ first + (k + 1) = w + 1 /\ w \in Nat OBVIOUS
  <2>2. IsFiniteSet(A) /\ WordsCount(first, k) = Cardinality(A) BY <1>2, <2>1
  <2>3. w \in Words BY <2>1
  <2>4. IsFiniteSet(B) /\ Cardinality(B) = Cardinality(data[w]) BY <2>3, OneWord
  <2>5. WordsCount(first, k + 1) = WordsCount(first, k) + Cardinality(data[w])
    <3>1. WordsCount(first, k + 1) = WordsCount(first, k) + Cardinality(data[first + (k + 1) - 1])
      BY WordsCountDef
    <3> QED BY <2>1, <3>1
  <2>6. a \in Nat /\ b \in Nat /\ c \in Nat /\ a <= b /\ b <= c
    <3>1. a \in Nat /\ b = a + WordBits * k /\ WordBits * k \in Nat /\ c = b + WordBits BY SMT
    <3> QED BY <3>1
  <2>7. /\ A = {i \in a .. b - 1 : get(i)} /\ B = {i \in b .. c - 1 : get(i)}
        /\ Ones(first, k + 1) = {i \in a .. c - 1 : get(i)}
    BY <2>1 DEF Ones
  <2> HIDE DEF A, B, a, b, c, w
  <2>8. Ones(first, k + 1) = A \cup B /\ A \cap B = {} BY <2>6, <2>7
  <2>9. IsFiniteSet(A \cup B) /\ Cardinality(A \cup B) = Cardinality(A) + Cardinality(B)
    <3>1. Cardinality(A) \in Nat /\ Cardinality(B) \in Nat BY <2>2, <2>4, FS_CardinalityType
    <3>2. IsFiniteSet(A \cup B)
          /\ Cardinality(A \cup B) = Cardinality(A) + Cardinality(B) - Cardinality(A \cap B)
      BY <2>2, <2>4, FS_Union
    <3>3. Cardinality(A \cap B) = 0 BY <2>8, FS_EmptySet
    <3> QED BY <3>1, <3>2, <3>3
  <2> QED BY <2>2, <2>4, <2>5, <2>8, <2>9
<1> HIDE DEF S
<1>3. n \in S BY <1>1, <1>2, SetInduction
<1> QED BY <1>3 DEF S

\* BitSet__get_count counts every one of the range once, also where the range
\* begins or ends inside a word.
THEOREM Counts == Spec => []CountExact
<1>1. TypeOK => CountExact
  <2> SUFFICES ASSUME TypeOK, NEW begin \in 0 .. Count, NEW end \in 0 .. Count, begin <= end
               PROVE  get_count(begin, end) = Cardinality({i \in begin .. end - 1 : get(i)})
    BY DEF CountExact
  <2> USE WordBitsAssumption, CountAssumption
  <2> DEFINE fb == align_up(begin) \div WordBits
             fe == align_down(end) \div WordBits
             up == align_up(begin)
             down == align_down(end)
             n == Cardinality(Fast(begin, end))
             A == {i \in Slow(begin, end) : get(i)}
             B == Ones(fb, n)
             C == {i \in begin .. end - 1 : get(i)}
  <2>1. begin \in Nat /\ end \in Nat OBVIOUS
  <2>2. /\ up \in Nat /\ begin <= up /\ up = WordBits * fb /\ fb \in Nat
        /\ down \in Nat /\ down <= end /\ down = WordBits * fe /\ fe \in Nat
    BY <2>1, Aligned
  <2>3. Fast(begin, end) = fb .. fe - 1 BY DEF Fast
  <2>4. Slow(begin, end) = IF up >= down THEN begin .. end - 1
                           ELSE (begin .. up - 1) \cup (down .. end - 1)
    BY DEF Slow
  <2>5. get_count(begin, end) = Cardinality(A) + WordsCount(fb, n) BY DEF get_count
  <2>6. n \in Nat /\ n = IF fb > fe - 1 THEN 0 ELSE (fe - 1) - fb + 1
    <3> HIDE DEF fb, fe
    <3>1. Cardinality(fb .. fe - 1) = IF fb > fe - 1 THEN 0 ELSE (fe - 1) - fb + 1
      BY <2>2, FS_Interval
    <3> QED BY <2>2, <2>3, <3>1
  <2>7. \A k \in 0 .. n - 1 : fb + k \in Words
    <3> SUFFICES ASSUME NEW k \in 0 .. n - 1 PROVE fb + k \in Words OBVIOUS
    <3>1. fb + k \in Fast(begin, end)
      <4> HIDE DEF fb, fe, n
      <4> QED BY <2>2, <2>3, <2>6
    <3>2. 0 \in Offsets BY DEF Offsets
    <3> QED BY <3>1, <3>2, FastBits
  <2>8. IsFiniteSet(B) /\ WordsCount(fb, n) = Cardinality(B)
    <3> HIDE DEF n, fb
    <3> QED BY <2>2, <2>6, <2>7, WordsCounted
  <2>9. B = {i \in up .. WordBits * (fb + n) - 1 : get(i)} BY <2>2 DEF Ones
  <2> HIDE DEF fb, fe, up, down, n, A, B, C
  <2>10. C = A \cup B /\ A \cap B = {}
    <3>1. CASE fb < fe
      <4>1. fb + n = fe BY <2>2, <2>6, <3>1
      <4>2. up < down
        <5>1. WordBits * fb + WordBits <= WordBits * fe BY <2>2, <3>1, Multiples
        <5> QED BY <2>2, <5>1
      <4>3. B = {i \in up .. down - 1 : get(i)} BY <2>2, <2>9, <4>1
      <4>4. Slow(begin, end) = (begin .. up - 1) \cup (down .. end - 1) BY <2>2, <2>4, <4>2
      <4> QED BY <2>1, <2>2, <4>2, <4>3, <4>4 DEF A, C
    <3>2. CASE ~(fb < fe)
      <4>1. fb + n = fb BY <2>2, <2>6, <3>2
      <4>2. down <= up
        <5>1. fe < fb => WordBits * fe + WordBits <= WordBits * fb BY <2>2, Multiples
        <5>2. fe = fb => WordBits * fe = WordBits * fb OBVIOUS
        <5> QED BY <2>2, <3>2, <5>1, <5>2
      <4>3. B = {i \in up .. up - 1 : get(i)} BY <2>2, <2>9, <4>1
      <4>4. B = {} BY <2>2, <4>3
      <4>5. A = C BY <2>2, <2>4, <4>2 DEF A, C
      <4> QED BY <4>4, <4>5
    <3> QED BY <3>1, <3>2
  <2>11. IsFiniteSet(A)
    <3>1. IsFiniteSet(begin .. end - 1) BY <2>1, FS_Interval
    <3>2. C \subseteq begin .. end - 1 BY DEF C
    <3>3. A \subseteq begin .. end - 1 BY <2>10, <3>2
    <3> QED BY <3>1, <3>3, FS_Subset
  <2>12. Cardinality(A \cup B) = Cardinality(A) + Cardinality(B)
    <3>1. Cardinality(A) \in Nat /\ Cardinality(B) \in Nat BY <2>8, <2>11, FS_CardinalityType
    <3>2. Cardinality(A \cup B) = Cardinality(A) + Cardinality(B) - Cardinality(A \cap B)
      BY <2>8, <2>11, FS_Union
    <3>3. Cardinality(A \cap B) = 0 BY <2>10, FS_EmptySet
    <3> QED BY <3>1, <3>2, <3>3
  <2> QED BY <2>5, <2>8, <2>10, <2>12 DEF C
<1> QED BY <1>1, TypeCorrect, PTL
=============================================================================
