--------------------------- MODULE MemoryMapProofs ---------------------------
(***************************************************************************)
(* Proofs about MemoryMap: whatever map BOOTBOOT hands over, of any length *)
(* and for any size of words, pages and classes, memory__init loses no     *)
(* free memory, uses none twice, and gives the allocator exactly the whole *)
(* pages that are left.                                                    *)
(***************************************************************************)
EXTENDS MemoryMap, NaturalsInduction, WellFoundedInduction, SequenceTheorems, TLAPS

-----------------------------------------------------------------------------
(* Numbers *)

\* The order of the natural numbers as a relation
Below == OpToRel(<, Nat)

\* Every non-empty set of natural numbers has a least element.
LEMMA Least ==
  ASSUME NEW T \in SUBSET Nat, T # {}
  PROVE  \E x \in T : \A y \in T : x <= y
<1>1. IsWellFoundedOn(Below, Nat) BY NatLessThanWellFounded DEF Below
<1>2. \A x, y \in Nat : x < y => <<x, y>> \in Below BY DEF Below, OpToRel
<1>3. PICK x \in T : \A y \in T : <<y, x>> \notin Below BY <1>1, WFMin
<1>4. ASSUME NEW y \in T PROVE x <= y
  <2>1. x \in Nat /\ y \in Nat OBVIOUS
  <2>2. ~(y < x) BY <1>2, <1>3, <2>1
  <2> QED BY <2>1, <2>2
<1> QED BY <1>4

\* A set that holds 0 and with every number the next one holds them all.
LEMMA SetInduction ==
  ASSUME NEW S, 0 \in S, \A n \in Nat : n \in S => n + 1 \in S
  PROVE  \A n \in Nat : n \in S
<1> SUFFICES ASSUME Nat \ S # {} PROVE FALSE OBVIOUS
<1>1. PICK x \in Nat \ S : \A y \in Nat \ S : x <= y BY Least
<1>2. x - 1 \in Nat /\ ~(x <= x - 1) BY <1>1
<1>3. x - 1 \in S BY <1>1, <1>2
<1>4. (x - 1) + 1 = x BY <1>1
<1> QED BY <1>2, <1>3, <1>4

\* What % and \div mean for the prover.
LEMMA Division ==
  ASSUME NEW v \in Nat, NEW a \in Nat \ {0}
  PROVE  /\ v \div a \in Nat /\ v % a \in Nat
         /\ v = a * (v \div a) + (v % a) /\ v % a < a
  BY SMT

\* Quotients compare like the multiples they belong to.
LEMMA Multiples ==
  ASSUME NEW a \in Nat \ {0}, NEW j \in Nat, NEW k \in Nat, j < k
  PROVE  a * j + a <= a * k /\ a * j \in Nat
<1>1. PICK d \in Nat : k = j + 1 + d BY SMT
<1>2. a * k = a * j + a + a * d BY <1>1, SMT
<1>3. a * d \in Nat BY SMT
<1>4. a * j \in Nat BY SMT
<1> QED BY <1>2, <1>3, <1>4

\* A number is split into quotient and remainder in one way only.
LEMMA Unique ==
  ASSUME NEW a \in Nat \ {0}, NEW q \in Nat, NEW r \in 0 .. a - 1
  PROVE  (a * q + r) \div a = q /\ (a * q + r) % a = r
<1> DEFINE v == a * q + r
<1>1. a * q \in Nat BY SMT
<1>2. v \in Nat BY <1>1
<1> DEFINE p == v \div a
           s == v % a
<1>3. p \in Nat /\ s \in Nat /\ v = a * p + s /\ s < a BY <1>2, Division
<1>4. a * p \in Nat BY <1>3, SMT
<1> HIDE DEF p, s
<1>5. ~(p < q)
  <2> SUFFICES ASSUME p < q PROVE FALSE OBVIOUS
  <2>1. a * p + a <= a * q BY <1>3, Multiples
  <2> QED BY <1>1, <1>3, <1>4, <2>1
<1>6. ~(q < p)
  <2> SUFFICES ASSUME q < p PROVE FALSE OBVIOUS
  <2>1. a * q + a <= a * p BY <1>3, Multiples
  <2> QED BY <1>1, <1>3, <1>4, <2>1
<1>7. p = q BY <1>3, <1>5, <1>6
<1>8. s = r BY <1>1, <1>3, <1>7
<1> QED BY <1>7, <1>8 DEF p, s

\* Pow2 satisfies its definition.
LEMMA Pow2Def == \A n \in Nat : Pow2[n] = IF n = 0 THEN 1 ELSE 2 * Pow2[n - 1]
<1>1. NatInductiveDefHypothesis(Pow2, 1, LAMBDA v, n : 2 * v)
  BY DEF NatInductiveDefHypothesis, Pow2
<1>2. NatInductiveDefConclusion(Pow2, 1, LAMBDA v, n : 2 * v)
  BY <1>1, NatInductiveDef
<1> QED BY <1>2 DEF NatInductiveDefConclusion

\* Powers of two are positive numbers, and each is twice the one before.
LEMMA Pow2Type ==
  /\ Pow2[0] = 1
  /\ \A k \in Nat : Pow2[k] \in Nat \ {0} /\ Pow2[k + 1] = 2 * Pow2[k]
<1>1. Pow2[0] = 1 BY Pow2Def
<1>2. \A k \in Nat : Pow2[k + 1] = 2 * Pow2[k]
  <2> SUFFICES ASSUME NEW k \in Nat PROVE Pow2[k + 1] = 2 * Pow2[k] OBVIOUS
  <2>1. k + 1 \in Nat /\ k + 1 # 0 /\ (k + 1) - 1 = k OBVIOUS
  <2> QED BY <2>1, Pow2Def
<1> DEFINE S == {n \in Nat : Pow2[n] \in Nat \ {0}}
<1>3. 0 \in S BY <1>1
<1>4. ASSUME NEW n \in Nat, n \in S PROVE n + 1 \in S
  <2>1. Pow2[n] \in Nat \ {0} BY <1>4
  <2>2. 2 * Pow2[n] \in Nat \ {0} BY <2>1
  <2> QED BY <1>2, <2>2
<1> HIDE DEF S
<1>5. \A n \in Nat : n \in S BY <1>3, <1>4, SetInduction
<1> QED BY <1>1, <1>2, <1>5 DEF S

\* A larger power of two is a multiple of a smaller one.
LEMMA Pow2Multiple ==
  ASSUME NEW j \in Nat, NEW k \in Nat, j <= k
  PROVE  \E m \in Nat \ {0} : Pow2[k] = Pow2[j] * m
<1> DEFINE S == {n \in Nat : \E m \in Nat \ {0} : Pow2[j + n] = Pow2[j] * m}
<1>0. Pow2[j] \in Nat \ {0} BY Pow2Type
<1>1. 0 \in S
  <2>1. Pow2[j + 0] = Pow2[j] * 1 BY <1>0
  <2> QED BY <2>1
<1>2. ASSUME NEW n \in Nat, n \in S PROVE n + 1 \in S
  <2>1. PICK m \in Nat \ {0} : Pow2[j + n] = Pow2[j] * m BY <1>2
  <2>2. j + n \in Nat /\ j + (n + 1) = (j + n) + 1 OBVIOUS
  <2>3. Pow2[j + (n + 1)] = 2 * (Pow2[j] * m) BY <2>1, <2>2, Pow2Type
  <2>4. 2 * (Pow2[j] * m) = Pow2[j] * (2 * m) BY <1>0, SMT
  <2>5. 2 * m \in Nat \ {0} OBVIOUS
  <2>6. \E i \in Nat \ {0} : Pow2[j + (n + 1)] = Pow2[j] * i BY <2>3, <2>4, <2>5
  <2> QED BY <2>6
<1>3. k - j \in Nat /\ j + (k - j) = k OBVIOUS
<1> HIDE DEF S
<1>4. k - j \in S BY <1>1, <1>2, <1>3, SetInduction
<1> QED BY <1>3, <1>4 DEF S

-----------------------------------------------------------------------------

Entries == [ptr : Nat, size : Nat, isFree : BOOLEAN]
Pieces == [ptr : Nat, size : Nat]
end(e) == e.ptr + e.size
Apart(e, f) == end(e) <= f.ptr \/ end(f) <= e.ptr

-----------------------------------------------------------------------------
(* The inductive invariant *)

Typed ==
  /\ bootMap \in Maps /\ mmap \in Seq(Entries) /\ bitsets \in Seq(Pieces)
  /\ pc \in {"sort", "carve", "release", "done", "no memory", "bad range"}
  /\ right_bound \in 0 .. Len(bootMap) - 1 /\ left_index \in 0 .. right_bound
  /\ entry \in 1 .. Len(mmap) + 1 /\ Len(mmap) <= Len(bootMap)

\* Entries and bit sets are apart, and the entries lie below the end of memory.
Laid ==
  /\ \A i, j \in 1 .. Len(mmap) : i # j => Apart(mmap[i], mmap[j])
  /\ \A j, k \in 1 .. Len(bitsets) : j # k => Apart(bitsets[j], bitsets[k])
  /\ \A i \in 1 .. Len(mmap), k \in 1 .. Len(bitsets) : Apart(mmap[i], bitsets[k])
  /\ \A i \in 1 .. Len(mmap) : end(mmap[i]) <= end_address

\* SLOW_SORT: the entry at left_index is free only if all before it are, and so is
\* every entry behind right_bound.
Sorting ==
  pc = "sort" =>
    /\ Len(mmap) = Len(bootMap) /\ bitsets = <<>>
    /\ \A i \in 1 .. left_index : mmap[left_index + 1].isFree => mmap[i].isFree
    /\ \A j \in right_bound + 2 .. Len(mmap), i \in 1 .. Len(mmap) :
         i <= j /\ mmap[j].isFree => mmap[i].isFree

Carving ==
  /\ pc # "sort" => \A i \in 1 .. Len(mmap) : mmap[i].isFree
  /\ Len(bitsets) <= BitSets
  /\ \A k \in 1 .. Len(bitsets) : bitsets[k].size = CarveSize(k)

\* The pages of the entries that have been released, and no others
Releasing ==
  /\ pc \in {"sort", "carve", "no memory"} => entry = 1
  /\ pc = "done" => entry = Len(mmap) + 1
  /\ usable_pages = free_pages
  /\ \A p : p \in free_pages <=>
       \E i \in 1 .. Len(mmap) : i < entry /\ p \in begin_page(mmap[i]) .. last_page(mmap[i]) - 1

Accounted == FreeWords(mmap) \cup BitSetWords = FreeWords(bootMap)

MInv == Typed /\ Laid /\ Sorting /\ Carving /\ Releasing /\ Accounted

-----------------------------------------------------------------------------
(* The operators of the model *)

\* CeilDiv rounds up.
LEMMA CeilDivision ==
  ASSUME NEW a \in Nat, NEW b \in Nat \ {0}
  PROVE  /\ CeilDiv(a, b) \in Nat /\ b * CeilDiv(a, b) \in Nat
         /\ a <= b * CeilDiv(a, b) /\ b * CeilDiv(a, b) < a + b
<1> DEFINE v == a + b - 1
           q == v \div b
<1>1. v \in Nat OBVIOUS
<1>2. q \in Nat /\ v % b \in Nat /\ v = b * q + (v % b) /\ v % b < b BY <1>1, Division
<1>3. b * q \in Nat BY <1>2, SMT
<1>4. CeilDiv(a, b) = q BY DEF CeilDiv
<1> HIDE DEF q
<1>5. a <= b * q /\ b * q < a + b BY <1>2, <1>3
<1> QED BY <1>2, <1>3, <1>4, <1>5

\* Factors compare like the products with them.
LEMMA Factors ==
  ASSUME NEW a \in Nat \ {0}, NEW j \in Nat, NEW k \in Nat
  PROVE  /\ a * j <= a * k => j <= k
         /\ a * j < a * k => j < k
         /\ j <= k => a * j <= a * k
<1>1. a * j \in Nat /\ a * k \in Nat BY SMT
<1>2. j < k => a * j + a <= a * k BY Multiples
<1>3. k < j => a * k + a <= a * j BY Multiples
<1>4. j = k => a * j = a * k OBVIOUS
<1> QED BY <1>1, <1>2, <1>3, <1>4

\* The words of a piece of memory
LEMMA WordsOf ==
  ASSUME NEW p \in Nat, NEW s \in Nat
  PROVE  \A w : w \in WordRange(p, s) <=> w \in Int /\ p <= w /\ w < p + s
  BY DEF WordRange

\* A word is free in a map if it lies in a free entry.
LEMMA FreeWordsOf ==
  ASSUME NEW map, NEW n \in Nat, DOMAIN map = 1 .. n
  PROVE  \A w : w \in FreeWords(map)
                  <=> \E i \in 1 .. n : map[i].isFree /\ w \in WordRange(map[i].ptr, map[i].size)
  BY DEF FreeWords

\* The end of memory: no entry of BOOTBOOT's map lies behind it.
LEMMA EndOfMemory ==
  ASSUME bootMap \in Maps
  PROVE  /\ end_address \in Nat
         /\ bootMap \in Seq(Entries) /\ Len(bootMap) \in Nat \ {0}
         /\ \A i \in 1 .. Len(bootMap) : end(bootMap[i]) <= end_address
         /\ \A i, j \in 1 .. Len(bootMap) : i < j => bootMap[i].ptr + bootMap[i].size <= bootMap[j].ptr
<1>1. /\ bootMap \in Seq(Entries) /\ bootMap # <<>>
      /\ \A i, j \in DOMAIN bootMap : i < j => bootMap[i].ptr + bootMap[i].size <= bootMap[j].ptr
  BY MapsAssumption DEF Entries
<1> DEFINE n == Len(bootMap)
<1>2. n \in Nat \ {0} /\ DOMAIN bootMap = 1 .. n BY <1>1
<1>3. bootMap[n] \in Entries BY <1>1, <1>2
<1>4. end_address = end(bootMap[n]) BY DEF end_address, end, Last
<1>5. ASSUME NEW i \in 1 .. n PROVE end(bootMap[i]) <= end_address
  <2>1. bootMap[i] \in Entries BY <1>1, <1>2
  <2>2. CASE i = n BY <1>3, <1>4, <2>2 DEF Entries, end
  <2>3. CASE i < n
    <3>1. bootMap[i].ptr + bootMap[i].size <= bootMap[n].ptr BY <1>1, <1>2, <2>3
    <3> QED BY <1>3, <1>4, <2>1, <3>1 DEF Entries, end
  <2>4. n \in Nat BY <1>2
  <2>5. i = n \/ i < n BY <2>4
  <2> QED BY <2>2, <2>3, <2>5
<1>6. end_address \in Nat BY <1>3, <1>4 DEF Entries, end
<1>7. \A i, j \in 1 .. n : i < j => bootMap[i].ptr + bootMap[i].size <= bootMap[j].ptr BY <1>1, <1>2
<1> QED BY <1>1, <1>2, <1>5, <1>6, <1>7

\* How many words are asked for is a number, and does not depend on the steps.
LEMMA CarveSizes ==
  ASSUME bootMap \in Maps, NEW k \in 1 .. BitSets
  PROVE  CarveSize(k) \in Nat
<1>1. end_address \in Nat BY EndOfMemory
<1>2. WordBits \in Nat \ {0} /\ PageWords \in Nat \ {0} /\ CLASS_COUNT \in Nat \ {0} BY SizesAssumption
<1>3. end_page \in Nat BY <1>1, <1>2, CeilDivision DEF end_page
<1>4. Pow2[CLASS_COUNT] \in Nat \ {0} BY <1>2, Pow2Type
<1>5. PageWords * Pow2[CLASS_COUNT] \in Nat \ {0} BY <1>2, <1>4, SMT
<1>6. buddy_end_page \in Nat
  <2>1. CeilDiv(end_address, PageWords * Pow2[CLASS_COUNT]) \in Nat BY <1>1, <1>5, CeilDivision
  <2> QED BY <1>4, <2>1, SMT DEF buddy_end_page
<1>7. CASE k <= 2 BY <1>2, <1>3, <1>7, CeilDivision DEF CarveSize
<1>8. CASE ~(k <= 2)
  <2>1. k - 2 \in Nat BY <1>8
  <2>2. Pow2[k - 2] \in Nat \ {0} BY <2>1, Pow2Type
  <2>3. buddy_end_page \div Pow2[k - 2] \in Nat BY <1>6, <2>2, Division
  <2>4. CeilDiv(buddy_end_page \div Pow2[k - 2], WordBits) \in Nat BY <1>2, <2>3, CeilDivision
  <2> QED BY <1>8, <2>4 DEF CarveSize
<1> QED BY <1>7, <1>8

-----------------------------------------------------------------------------
(* Sorting *)

\* The map BOOTBOOT hands over satisfies the invariant.
LEMMA InitInv == Init => MInv
<1> SUFFICES ASSUME Init PROVE MInv OBVIOUS
<1>1. /\ bootMap \in Maps /\ mmap = bootMap /\ pc = "sort" /\ right_bound = Len(bootMap) - 1
      /\ left_index = 0 /\ bitsets = <<>> /\ entry = 1 /\ usable_pages = {} /\ free_pages = {}
  BY DEF Init
<1>2. /\ bootMap \in Seq(Entries) /\ Len(bootMap) \in Nat \ {0}
      /\ \A i \in 1 .. Len(bootMap) : end(bootMap[i]) <= end_address
  BY <1>1, EndOfMemory
<1>3. \A i, j \in 1 .. Len(bootMap) : i < j => bootMap[i].ptr + bootMap[i].size <= bootMap[j].ptr
  BY <1>1, EndOfMemory
<1>4. Typed BY <1>1, <1>2 DEF Typed
<1>5. Laid
  <2>1. \A i, j \in 1 .. Len(bootMap) : i # j => Apart(bootMap[i], bootMap[j])
    BY <1>2, <1>3 DEF Apart, end
  <2> QED BY <1>1, <1>2, <2>1 DEF Laid
<1>6. Sorting BY <1>1, <1>2 DEF Sorting
<1>7. Carving BY <1>1, SizesAssumption DEF Carving, BitSets
<1>8. Releasing BY <1>1 DEF Releasing
<1>9. Accounted
  <2>1. BitSetWords = {} BY <1>1 DEF BitSetWords
  <2> QED BY <1>1, <2>1 DEF Accounted
<1> QED BY <1>4, <1>5, <1>6, <1>7, <1>8, <1>9 DEF MInv

\* What the invariant says of the state before a step, in the form the steps use
LEMMA Facts ==
  ASSUME MInv
  PROVE  /\ bootMap \in Maps /\ mmap \in Seq(Entries) /\ bitsets \in Seq(Pieces)
         /\ Len(mmap) \in Nat /\ Len(bitsets) \in Nat /\ Len(bootMap) \in Nat \ {0}
         /\ right_bound \in 0 .. Len(bootMap) - 1 /\ left_index \in 0 .. right_bound
         /\ DOMAIN mmap = 1 .. Len(mmap) /\ DOMAIN bitsets = 1 .. Len(bitsets)
         /\ \A i \in 1 .. Len(mmap) :
              /\ mmap[i] \in Entries /\ mmap[i].ptr \in Nat /\ mmap[i].size \in Nat
              /\ mmap[i].isFree \in BOOLEAN
         /\ \A k \in 1 .. Len(bitsets) : bitsets[k].ptr \in Nat /\ bitsets[k].size \in Nat
<1>1. bootMap \in Maps /\ mmap \in Seq(Entries) /\ bitsets \in Seq(Pieces)
  BY DEF MInv, Typed
<1>2. Len(bootMap) \in Nat \ {0} BY <1>1, EndOfMemory
<1>3. /\ Len(mmap) \in Nat /\ Len(bitsets) \in Nat
      /\ DOMAIN mmap = 1 .. Len(mmap) /\ DOMAIN bitsets = 1 .. Len(bitsets)
  BY <1>1
<1>4. \A i \in 1 .. Len(mmap) : mmap[i] \in Entries BY <1>1, <1>3
<1>5. \A k \in 1 .. Len(bitsets) : bitsets[k] \in Pieces BY <1>1, <1>3
<1>6. \A i \in 1 .. Len(mmap) :
        mmap[i].ptr \in Nat /\ mmap[i].size \in Nat /\ mmap[i].isFree \in BOOLEAN
  BY <1>4 DEF Entries
<1>7. \A k \in 1 .. Len(bitsets) : bitsets[k].ptr \in Nat /\ bitsets[k].size \in Nat
  BY <1>5 DEF Pieces
<1>8. right_bound \in 0 .. Len(bootMap) - 1 /\ left_index \in 0 .. right_bound BY DEF MInv, Typed
<1> QED BY <1>1, <1>2, <1>3, <1>4, <1>6, <1>7, <1>8

\* The end of memory and the sizes asked for do not change.
LEMMA Fixed ==
  ASSUME bootMap' = bootMap
  PROVE  end_address' = end_address /\ \A k : CarveSize(k)' = CarveSize(k)
  BY DEF end_address, CarveSize, end_page, buddy_end_page

\* A step of SLOW_SORT at most swaps two neighbours.
LEMMA SwapFacts ==
  ASSUME MInv, SortStep
  PROVE  \E pi \in [1 .. Len(mmap) -> 1 .. Len(mmap)] :
           /\ mmap' \in Seq(Entries) /\ Len(mmap') = Len(mmap)
           /\ \A i \in 1 .. Len(mmap) : mmap'[i] = mmap[pi[i]] /\ pi[pi[i]] = i
<1> DEFINE n == Len(mmap)
           l == left_index + 1
           r == left_index + 2
           swap == ~mmap[l].isFree /\ mmap[r].isFree
           pi == [i \in 1 .. n |-> IF ~swap THEN i ELSE IF i = l THEN r ELSE IF i = r THEN l ELSE i]
<1>1. n \in Nat /\ mmap \in Seq(Entries) /\ DOMAIN mmap = 1 .. n
      /\ \A i \in 1 .. n : mmap[i] \in Entries
  BY Facts
<1>2. l \in 1 .. n /\ r \in 1 .. n /\ l # r
  <2>1. Len(mmap) = Len(bootMap) BY DEF MInv, Sorting, SortStep
  <2>2. right_bound \in 0 .. Len(bootMap) - 1 /\ left_index \in 0 .. right_bound /\ Len(bootMap) \in Nat
    BY Facts
  <2>3. left_index < right_bound BY DEF SortStep
  <2> QED BY <2>1, <2>2, <2>3
<1>3. mmap' = IF swap THEN [mmap EXCEPT ![l] = mmap[r], ![r] = mmap[l]] ELSE mmap
  BY DEF SortStep
<1> HIDE DEF n, l, r, swap
<1>4. pi \in [1 .. n -> 1 .. n] BY <1>2
<1>5. \A i \in 1 .. n : pi[pi[i]] = i BY <1>2
<1>6. CASE swap
  <2>1. mmap' = [mmap EXCEPT ![l] = mmap[r], ![r] = mmap[l]] BY <1>3, <1>6
  <2>2. mmap' \in Seq(Entries) /\ Len(mmap') = n
    <3> DEFINE m1 == [mmap EXCEPT ![l] = mmap[r]]
    <3>1. m1 \in Seq(Entries) /\ Len(m1) = n BY <1>1, <1>2, ExceptSeq DEF n
    <3>2. mmap' = [m1 EXCEPT ![r] = mmap[l]] BY <2>1
    <3> HIDE DEF m1
    <3> QED BY <1>1, <1>2, <3>1, <3>2, ExceptSeq
  <2>3. \A i \in 1 .. n : mmap'[i] = mmap[pi[i]] BY <1>1, <1>2, <1>6, <2>1
  <2> QED BY <1>4, <1>5, <2>2, <2>3 DEF n
<1>7. CASE ~swap
  <2>1. mmap' = mmap BY <1>3, <1>7
  <2>2. \A i \in 1 .. n : mmap'[i] = mmap[pi[i]] BY <1>7, <2>1
  <2> QED BY <1>1, <1>4, <1>5, <2>1, <2>2 DEF n
<1> QED BY <1>6, <1>7

\* Reordering the entries keeps them apart and keeps the memory they offer.
LEMMA Reordered ==
  ASSUME MInv, bootMap' = bootMap, bitsets' = bitsets,
         mmap' \in Seq(Entries), Len(mmap') = Len(mmap),
         NEW pi \in [1 .. Len(mmap) -> 1 .. Len(mmap)],
         \A i \in 1 .. Len(mmap) : mmap'[i] = mmap[pi[i]] /\ pi[pi[i]] = i
  PROVE  Laid' /\ Accounted'
<1> DEFINE n == Len(mmap)
<1>1. n \in Nat /\ DOMAIN mmap = 1 .. n BY Facts
<1>2. DOMAIN mmap' = 1 .. n BY <1>1
<1>3. \A i \in 1 .. n : pi[i] \in 1 .. n BY <1>1
<1>4. \A i, j \in 1 .. n : i # j => pi[i] # pi[j] OBVIOUS
<1>5. Laid'
  <2>1. /\ \A i, j \in 1 .. n : i # j => Apart(mmap[i], mmap[j])
        /\ \A j, k \in 1 .. Len(bitsets) : j # k => Apart(bitsets[j], bitsets[k])
        /\ \A i \in 1 .. n, k \in 1 .. Len(bitsets) : Apart(mmap[i], bitsets[k])
        /\ \A i \in 1 .. n : end(mmap[i]) <= end_address
    BY DEF MInv, Laid
  <2>2. end_address' = end_address BY Fixed
  <2>3. \A i, j \in 1 .. n : i # j => Apart(mmap'[i], mmap'[j]) BY <1>3, <1>4, <2>1
  <2>4. \A i \in 1 .. n, k \in 1 .. Len(bitsets) : Apart(mmap'[i], bitsets[k]) BY <1>3, <2>1
  <2>5. \A i \in 1 .. n : end(mmap'[i]) <= end_address BY <1>3, <2>1
  <2> QED BY <2>1, <2>2, <2>3, <2>4, <2>5 DEF Laid
<1>6. FreeWords(mmap') = FreeWords(mmap)
  <2>1. \A w : w \in FreeWords(mmap)
               <=> \E i \in 1 .. n : mmap[i].isFree /\ w \in WordRange(mmap[i].ptr, mmap[i].size)
    BY <1>1, FreeWordsOf
  <2>2. \A w : w \in FreeWords(mmap')
               <=> \E i \in 1 .. n : mmap'[i].isFree /\ w \in WordRange(mmap'[i].ptr, mmap'[i].size)
    BY <1>1, <1>2, FreeWordsOf
  <2>3. ASSUME NEW w, w \in FreeWords(mmap') PROVE w \in FreeWords(mmap)
    BY <1>3, <2>1, <2>2, <2>3
  <2>4. ASSUME NEW w, w \in FreeWords(mmap) PROVE w \in FreeWords(mmap')
    <3>1. PICK i \in 1 .. n : mmap[i].isFree /\ w \in WordRange(mmap[i].ptr, mmap[i].size)
      BY <2>1, <2>4
    <3>2. pi[i] \in 1 .. n /\ mmap'[pi[i]] = mmap[i] BY <1>3
    <3> QED BY <2>2, <3>1, <3>2
  <2> QED BY <2>3, <2>4
<1>7. BitSetWords' = BitSetWords BY DEF BitSetWords
<1>8. Accounted' BY <1>6, <1>7 DEF MInv, Accounted
<1> QED BY <1>5, <1>8

\* A swap keeps the invariant: behind it the entry at left_index is in use, unless
\* every entry up to there is free.
LEMMA SortStepInv == ASSUME MInv, SortStep PROVE MInv'
<1> DEFINE n == Len(mmap)
           l == left_index + 1
           r == left_index + 2
<1>1. PICK pi \in [1 .. n -> 1 .. n] :
        /\ mmap' \in Seq(Entries) /\ Len(mmap') = n
        /\ \A i \in 1 .. n : mmap'[i] = mmap[pi[i]] /\ pi[pi[i]] = i
  BY SwapFacts
<1>2. /\ pc = "sort" /\ left_index < right_bound /\ left_index' = left_index + 1
      /\ mmap' = IF ~mmap[l].isFree /\ mmap[r].isFree
                 THEN [mmap EXCEPT ![l] = mmap[r], ![r] = mmap[l]] ELSE mmap
      /\ UNCHANGED <<bootMap, pc, right_bound, bitsets, entry, usable_pages, free_pages>>
  BY DEF SortStep
<1>3. /\ n \in Nat /\ DOMAIN mmap = 1 .. n /\ Len(bootMap) \in Nat
      /\ right_bound \in 0 .. Len(bootMap) - 1 /\ left_index \in 0 .. right_bound
  BY Facts
<1>4. Laid' /\ Accounted' BY <1>1, <1>2, Reordered
<1>5. Typed' BY <1>1, <1>2, <1>3 DEF MInv, Typed
<1>6. Carving'
  <2>1. \A k : CarveSize(k)' = CarveSize(k) BY <1>2, Fixed
  <2>2. /\ Len(bitsets) <= BitSets
        /\ \A k \in 1 .. Len(bitsets) : bitsets[k].size = CarveSize(k)
    BY DEF MInv, Carving
  <2>3. pc' = "sort" BY <1>2
  <2> QED BY <1>2, <2>1, <2>2, <2>3 DEF Carving, BitSets
<1>7. Releasing'
  <2>1. /\ entry = 1 /\ usable_pages = free_pages
        /\ \A p : p \in free_pages =>
             \E i \in 1 .. Len(mmap) : i < entry /\ p \in begin_page(mmap[i]) .. last_page(mmap[i]) - 1
    BY <1>2 DEF MInv, Releasing
  <2>2. free_pages = {} BY <1>3, <2>1
  <2>3. \A i \in 1 .. Len(mmap') : ~(i < 1) BY <1>1, <1>3
  <2> QED BY <1>2, <2>1, <2>2, <2>3 DEF Releasing
<1>8. Sorting'
  <2>1. /\ n = Len(bootMap) /\ bitsets = <<>>
        /\ \A i \in 1 .. left_index : mmap[left_index + 1].isFree => mmap[i].isFree
        /\ \A j \in right_bound + 2 .. n, i \in 1 .. n : i <= j /\ mmap[j].isFree => mmap[i].isFree
    BY <1>2 DEF MInv, Sorting
  <2>2. l \in 1 .. n /\ r \in 1 .. n /\ l # r BY <1>2, <1>3, <2>1
  <2>3. /\ Len(mmap') = Len(bootMap') /\ bitsets' = <<>> /\ left_index' = l /\ left_index' + 1 = r
        /\ right_bound' = right_bound /\ Len(mmap') = n
    BY <1>1, <1>2, <1>3, <2>1
  <2>4. CASE ~mmap[l].isFree /\ mmap[r].isFree
    <3>1. mmap' = [mmap EXCEPT ![l] = mmap[r], ![r] = mmap[l]] BY <1>2, <2>4
    <3>2. /\ mmap'[l] = mmap[r] /\ mmap'[r] = mmap[l]
          /\ \A i \in 1 .. n : i # l /\ i # r => mmap'[i] = mmap[i]
      BY <1>3, <2>2, <3>1
    <3>3. \A i \in 1 .. l : mmap'[r].isFree => mmap'[i].isFree BY <2>4, <3>2
    <3>4. ASSUME NEW j \in right_bound + 2 .. n, NEW i \in 1 .. n, i <= j, mmap'[j].isFree
          PROVE  mmap'[i].isFree
      <4>1. j # l /\ j # r /\ j \in 1 .. n /\ l <= j BY <1>2, <1>3, <2>1
      <4>2. mmap[j].isFree BY <3>2, <3>4, <4>1
      <4>3. mmap[l].isFree BY <2>1, <2>2, <4>1, <4>2
      <4> QED BY <2>4, <4>3
    <3> HIDE DEF l, r, n
    <3> QED BY <2>3, <3>3, <3>4 DEF Sorting
  <2>5. CASE ~(~mmap[l].isFree /\ mmap[r].isFree)
    <3>1. mmap' = mmap BY <1>2, <2>5
    <3>2. ASSUME NEW i \in 1 .. l, mmap[r].isFree PROVE mmap[i].isFree
      <4>1. mmap[l].isFree BY <2>5, <3>2
      <4>2. i = l \/ i \in 1 .. left_index BY <1>3
      <4> QED BY <2>1, <4>1, <4>2
    <3> HIDE DEF l, r, n
    <3> QED BY <2>1, <2>3, <3>1, <3>2 DEF Sorting
  <2> QED BY <2>4, <2>5
<1> QED BY <1>4, <1>5, <1>6, <1>7, <1>8 DEF MInv

\* After a round the entry at right_bound is free only if all before it are.
LEMMA SortRoundInv == ASSUME MInv, SortRound PROVE MInv'
<1>1. /\ pc = "sort" /\ right_bound > 0 /\ left_index >= right_bound
      /\ right_bound' = right_bound - 1 /\ left_index' = 0
      /\ UNCHANGED <<bootMap, mmap, pc, bitsets, entry, usable_pages, free_pages>>
  BY DEF SortRound
<1>2. /\ Len(mmap) \in Nat /\ Len(bootMap) \in Nat
      /\ right_bound \in 0 .. Len(bootMap) - 1 /\ left_index \in 0 .. right_bound
  BY Facts
<1>3. Typed' BY <1>1, <1>2 DEF MInv, Typed
<1>4. Laid' BY <1>1, Fixed DEF MInv, Laid
<1>5. Carving' BY <1>1, Fixed DEF MInv, Carving, BitSets
<1>6. Releasing' BY <1>1 DEF MInv, Releasing
<1>7. Accounted' BY <1>1 DEF MInv, Accounted, BitSetWords
<1>8. Sorting'
  <2>1. left_index = right_bound BY <1>1, <1>2
  <2>2. /\ Len(mmap) = Len(bootMap) /\ bitsets = <<>>
        /\ \A i \in 1 .. right_bound : mmap[right_bound + 1].isFree => mmap[i].isFree
        /\ \A j \in right_bound + 2 .. Len(mmap), i \in 1 .. Len(mmap) :
             i <= j /\ mmap[j].isFree => mmap[i].isFree
    BY <1>1, <2>1 DEF MInv, Sorting
  <2>3. ASSUME NEW j \in right_bound + 1 .. Len(mmap), NEW i \in 1 .. Len(mmap), i <= j, mmap[j].isFree
        PROVE  mmap[i].isFree
    <3>1. CASE j = right_bound + 1
      <4>1. i = j \/ i \in 1 .. right_bound BY <1>2, <2>3, <3>1
      <4> QED BY <2>2, <2>3, <3>1, <4>1
    <3>2. CASE j # right_bound + 1
      <4>1. j \in right_bound + 2 .. Len(mmap) BY <1>2, <3>2
      <4> QED BY <2>2, <2>3, <4>1
    <3> QED BY <3>1, <3>2
  <2>4. right_bound' + 2 = right_bound + 1 BY <1>1, <1>2
  <2>5. \A i \in 1 .. left_index' : FALSE BY <1>1
  <2> QED BY <1>1, <2>2, <2>3, <2>4, <2>5 DEF Sorting
<1> QED BY <1>3, <1>4, <1>5, <1>6, <1>7, <1>8 DEF MInv

\* Once the sort is over, every free entry is in front of every other one.
LEMMA StripFacts ==
  ASSUME MInv, Strip
  PROVE  \E m \in 0 .. Len(mmap) :
           /\ mmap' \in Seq(Entries) /\ Len(mmap') = m
           /\ \A i \in 1 .. m : mmap'[i] = mmap[i] /\ mmap[i].isFree
           /\ \A j \in m + 1 .. Len(mmap) : ~mmap[j].isFree
<1> DEFINE n == Len(mmap)
           used == {i \in DOMAIN mmap : ~mmap[i].isFree}
           u == CHOOSE i \in used : \A j \in used : i <= j
<1>1. /\ n \in Nat /\ DOMAIN mmap = 1 .. n /\ mmap \in Seq(Entries)
      /\ \A i \in 1 .. n : mmap[i] \in Entries
      /\ right_bound \in 0 .. Len(bootMap) - 1 /\ Len(bootMap) \in Nat
  BY Facts
<1>2. pc = "sort" /\ right_bound <= 0 BY DEF Strip
<1>3. mmap' = IF used = {} THEN mmap ELSE SubSeq(mmap, 1, u - 1) BY DEF Strip
<1>4. used \in SUBSET (1 .. n) BY <1>1
<1>5. CASE used = {}
  <2>1. mmap' = mmap BY <1>3, <1>5
  <2>2. \A i \in 1 .. n : mmap[i].isFree BY <1>1, <1>5
  <2>3. n \in 0 .. n /\ \A j \in n + 1 .. n : FALSE BY <1>1
  <2> QED BY <1>1, <2>1, <2>2, <2>3
<1>6. CASE used # {}
  <2>1. u \in used /\ \A j \in used : u <= j
    <3>1. used \in SUBSET Nat BY <1>1, <1>4
    <3>2. \E i \in used : \A j \in used : i <= j BY <1>6, <3>1, Least
    <3> QED BY <3>2
  <2>2. mmap' = SubSeq(mmap, 1, u - 1) BY <1>3, <1>6
  <2>3. u \in 1 .. n /\ ~mmap[u].isFree BY <1>1, <2>1
  <2> DEFINE m == u - 1
  <2>4. m \in 0 .. n /\ m \in Int /\ m + 1 = u /\ (1 <= m \/ m = 0) BY <1>1, <2>3
  <2>5. \A i \in 1 .. m : i \in 1 .. n /\ mmap[i].isFree
    <3> SUFFICES ASSUME NEW i \in 1 .. m PROVE i \in 1 .. n /\ mmap[i].isFree OBVIOUS
    <3>1. i \in 1 .. n /\ ~(u <= i) BY <1>1, <2>3
    <3> QED BY <1>1, <2>1, <3>1
  <2>6. \A j \in m + 1 .. n : ~mmap[j].isFree
    <3> SUFFICES ASSUME NEW j \in u .. n, mmap[j].isFree PROVE FALSE BY <2>4
    <3>1. j # u BY <2>3
    <3>2. j \in right_bound + 2 .. n /\ u <= j /\ u \in 1 .. n BY <1>1, <1>2, <2>3, <3>1
    <3>3. \A h \in right_bound + 2 .. n, i \in 1 .. n : i <= h /\ mmap[h].isFree => mmap[i].isFree
      BY <1>2 DEF MInv, Sorting
    <3> QED BY <2>3, <3>2, <3>3
  <2> HIDE DEF m, u
  <2>7. \A i \in 1 .. m : mmap[i] \in Entries BY <1>1, <2>5
  <2>8. SubSeq(mmap, 1, m) \in Seq(Entries)
    BY <2>4, <2>7, SubSeqProperties
  <2>9. /\ Len(SubSeq(mmap, 1, m)) = IF 1 <= m THEN m - 1 + 1 ELSE 0
        /\ \A i \in 1 .. m - 1 + 1 : SubSeq(mmap, 1, m)[i] = mmap[1 + i - 1]
    BY <2>4, <2>7, SubSeqProperties
  <2>10. Len(SubSeq(mmap, 1, m)) = m BY <2>4, <2>9
  <2>11. \A i \in 1 .. m : SubSeq(mmap, 1, m)[i] = mmap[i]
    <3> SUFFICES ASSUME NEW i \in 1 .. m PROVE SubSeq(mmap, 1, m)[i] = mmap[i] OBVIOUS
    <3>1. i \in 1 .. m - 1 + 1 /\ 1 + i - 1 = i BY <2>4
    <3> QED BY <2>9, <3>1
  <2>12. mmap' = SubSeq(mmap, 1, m) BY <2>2 DEF m
  <2> QED BY <2>4, <2>5, <2>6, <2>8, <2>10, <2>11, <2>12
<1> QED BY <1>5, <1>6

\* Dropping the entries that are in use loses no free memory.
LEMMA StripInv == ASSUME MInv, Strip PROVE MInv'
<1> DEFINE n == Len(mmap)
<1>1. PICK m \in 0 .. n :
        /\ mmap' \in Seq(Entries) /\ Len(mmap') = m
        /\ \A i \in 1 .. m : mmap'[i] = mmap[i] /\ mmap[i].isFree
        /\ \A j \in m + 1 .. n : ~mmap[j].isFree
  BY StripFacts
<1>2. /\ pc = "sort" /\ pc' = "carve"
      /\ UNCHANGED <<bootMap, right_bound, left_index, bitsets, entry, usable_pages, free_pages>>
  BY DEF Strip
<1>3. /\ n \in Nat /\ DOMAIN mmap = 1 .. n /\ Len(bootMap) \in Nat
      /\ right_bound \in 0 .. Len(bootMap) - 1 /\ left_index \in 0 .. right_bound
  BY Facts
<1>4. m \in Nat /\ m <= n /\ \A i \in 1 .. m : i \in 1 .. n BY <1>3
<1>5. entry = 1 BY <1>2 DEF MInv, Releasing
<1>6. Typed'
  <2>1. Len(mmap) <= Len(bootMap) BY DEF MInv, Typed
  <2>2. entry' \in 1 .. m + 1 /\ m <= Len(bootMap) BY <1>2, <1>3, <1>4, <1>5, <2>1
  <2> QED BY <1>1, <1>2, <2>2 DEF MInv, Typed
<1>7. Laid'
  <2>1. end_address' = end_address BY <1>2, Fixed
  <2>2. bitsets = <<>> BY <1>2 DEF MInv, Sorting
  <2>3. \A k \in 1 .. Len(bitsets) : FALSE BY <2>2
  <2>4. \A i \in 1 .. m : end(mmap'[i]) <= end_address BY <1>1, <1>4 DEF MInv, Laid
  <2>5. \A i, j \in 1 .. m : i # j => Apart(mmap'[i], mmap'[j]) BY <1>1, <1>4 DEF MInv, Laid
  <2> QED BY <1>1, <1>2, <2>1, <2>3, <2>4, <2>5 DEF Laid
<1>8. Sorting' BY <1>2 DEF Sorting
<1>9. Carving' BY <1>1, <1>2, Fixed DEF MInv, Carving, BitSets
<1>10. Releasing'
  <2>1. free_pages = {} /\ usable_pages = {} BY <1>3, <1>5 DEF MInv, Releasing
  <2>2. \A i \in 1 .. Len(mmap') : ~(i < 1) BY <1>1, <1>4
  <2> QED BY <1>2, <1>5, <2>1, <2>2 DEF Releasing
<1>11. Accounted'
  <2>1. \A w : w \in FreeWords(mmap)
               <=> \E i \in 1 .. n : mmap[i].isFree /\ w \in WordRange(mmap[i].ptr, mmap[i].size)
    BY <1>3, FreeWordsOf
  <2>2. \A w : w \in FreeWords(mmap')
               <=> \E i \in 1 .. m : mmap'[i].isFree /\ w \in WordRange(mmap'[i].ptr, mmap'[i].size)
    <3>1. DOMAIN mmap' = 1 .. m BY <1>1
    <3> QED BY <1>4, <3>1, FreeWordsOf
  <2>3. \A i \in 1 .. n : mmap[i].isFree => i \in 1 .. m BY <1>1, <1>3
  <2>4. FreeWords(mmap') = FreeWords(mmap) BY <1>1, <1>4, <2>1, <2>2, <2>3
  <2>5. BitSetWords' = BitSetWords BY <1>2 DEF BitSetWords
  <2> QED BY <1>2, <2>4, <2>5 DEF MInv, Accounted
<1> QED BY <1>6, <1>7, <1>8, <1>9, <1>10, <1>11 DEF MInv

-----------------------------------------------------------------------------
(* Carving *)

\* A part of a piece is apart from all that the piece is apart from.
LEMMA PartApart ==
  ASSUME NEW e, NEW f, NEW g, e.ptr \in Nat, e.size \in Nat, f.ptr \in Nat, f.size \in Nat,
         g.ptr \in Nat, g.size \in Nat, e.ptr <= g.ptr, end(g) <= end(e), Apart(e, f)
  PROVE  Apart(g, f) /\ Apart(f, g)
  BY DEF Apart, end

\* A word is in the bit sets if it lies in one of them.
LEMMA BitSetWordsOf ==
  ASSUME NEW n \in Nat, DOMAIN bitsets = 1 .. n
  PROVE  \A w : w \in BitSetWords <=> \E k \in 1 .. n : w \in WordRange(bitsets[k].ptr, bitsets[k].size)
  BY DEF BitSetWords

\* What is left of an entry when its front is cut off
LEMMA CutEntry ==
  ASSUME NEW e \in Entries, NEW s \in Nat, s <= e.size
  PROVE  LET cut == [[e EXCEPT !.ptr = @ + s] EXCEPT !.size = @ - s]
         IN cut \in Entries /\ cut.ptr = e.ptr + s /\ cut.size = e.size - s /\ cut.isFree = e.isFree
<1>1. e.ptr \in Nat /\ e.size \in Nat /\ e.isFree \in BOOLEAN BY DEF Entries
<1> DEFINE d == [e EXCEPT !.ptr = @ + s]
<1>2. d \in Entries /\ d.ptr = e.ptr + s /\ d.size = e.size /\ d.isFree = e.isFree
  BY <1>1 DEF Entries
<1> HIDE DEF d
<1> DEFINE c == [d EXCEPT !.size = @ - s]
<1>3. d.size - s \in Nat BY <1>1, <1>2
<1>4. c \in Entries /\ c.ptr = d.ptr /\ c.size = d.size - s /\ c.isFree = d.isFree
  BY <1>2, <1>3 DEF Entries
<1> HIDE DEF c
<1> QED BY <1>2, <1>4 DEF c, d

\* alloc_from_entries cuts the front off one entry that has the room.
LEMMA CarveFacts ==
  ASSUME MInv, Carve
  PROVE  \E i \in 1 .. Len(mmap), s \in Nat :
           /\ s = CarveSize(Len(bitsets) + 1) /\ s <= mmap[i].size
           /\ mmap' \in Seq(Entries) /\ Len(mmap') = Len(mmap)
           /\ mmap'[i].ptr = mmap[i].ptr + s /\ mmap'[i].size = mmap[i].size - s
           /\ mmap'[i].isFree = mmap[i].isFree
           /\ \A j \in 1 .. Len(mmap) : j # i => mmap'[j] = mmap[j]
           /\ bitsets' \in Seq(Pieces) /\ Len(bitsets') = Len(bitsets) + 1
           /\ bitsets'[Len(bitsets) + 1] = [ptr |-> mmap[i].ptr, size |-> s]
           /\ \A k \in 1 .. Len(bitsets) : bitsets'[k] = bitsets[k]
<1> DEFINE n == Len(mmap)
           k == Len(bitsets) + 1
           s == CarveSize(k)
           i == CHOOSE j \in Roomy(s) : \A h \in Roomy(s) : j <= h
<1>1. /\ n \in Nat /\ DOMAIN mmap = 1 .. n /\ mmap \in Seq(Entries) /\ bitsets \in Seq(Pieces)
      /\ Len(bitsets) \in Nat /\ bootMap \in Maps
      /\ \A j \in 1 .. n : mmap[j] \in Entries /\ mmap[j].ptr \in Nat /\ mmap[j].size \in Nat
  BY Facts
<1>2. /\ k <= BitSets /\ Roomy(s) # {}
      /\ bitsets' = Append(bitsets, [ptr |-> mmap[i].ptr, size |-> s])
      /\ mmap' = [mmap EXCEPT ![i].ptr = @ + s, ![i].size = @ - s]
  BY DEF Carve
<1>3. s \in Nat
  <2>1. BitSets \in Nat BY SizesAssumption DEF BitSets
  <2>2. k \in 1 .. BitSets BY <1>1, <1>2, <2>1
  <2> QED BY <1>1, <2>2, CarveSizes
<1> HIDE DEF s
<1>4. i \in 1 .. n /\ s <= mmap[i].size
  <2>1. \A j \in Roomy(s) : j \in 1 .. n /\ s <= mmap[j].size BY <1>1, <1>3 DEF Roomy
  <2>2. Roomy(s) \in SUBSET Nat BY <1>1, <2>1
  <2>3. \E j \in Roomy(s) : \A h \in Roomy(s) : j <= h BY <1>2, <2>2, Least
  <2>4. i \in Roomy(s) BY <2>3
  <2> HIDE DEF i
  <2> QED BY <2>1, <2>4
<1> HIDE DEF i
<1> DEFINE e == mmap[i]
           cut == [[e EXCEPT !.ptr = @ + s] EXCEPT !.size = @ - s]
<1>5. e \in Entries /\ e.ptr \in Nat /\ e.size \in Nat BY <1>1, <1>4
<1>6. /\ cut \in Entries /\ cut.ptr = e.ptr + s /\ cut.size = e.size - s /\ cut.isFree = e.isFree
  BY <1>3, <1>4, <1>5, CutEntry
<1>7. mmap' = [mmap EXCEPT ![i] = cut] BY <1>1, <1>2, <1>4
<1> HIDE DEF cut
<1>8. /\ mmap' \in Seq(Entries) /\ Len(mmap') = n /\ mmap'[i] = cut
      /\ \A j \in 1 .. n : j # i => mmap'[j] = mmap[j]
  BY <1>1, <1>4, <1>6, <1>7, ExceptSeq
<1> DEFINE b == [ptr |-> mmap[i].ptr, size |-> s]
<1>9. b \in Pieces BY <1>3, <1>5 DEF Pieces
<1>10. bitsets' = Append(bitsets, b) BY <1>2
<1> HIDE DEF b
<1>11. /\ bitsets' \in Seq(Pieces) /\ Len(bitsets') = k /\ bitsets'[k] = b
       /\ \A j \in 1 .. Len(bitsets) : bitsets'[j] = bitsets[j]
  BY <1>1, <1>9, <1>10, AppendProperties
<1> QED BY <1>3, <1>4, <1>6, <1>8, <1>11 DEF b, s

\* A new bit set is apart from what is left of its entry and from all the rest.
LEMMA CarveInv == ASSUME MInv, Carve PROVE MInv'
<1> DEFINE n == Len(mmap)
           m == Len(bitsets)
<1>1. PICK i \in 1 .. n, s \in Nat :
           /\ s = CarveSize(m + 1) /\ s <= mmap[i].size
           /\ mmap' \in Seq(Entries) /\ Len(mmap') = n
           /\ mmap'[i].ptr = mmap[i].ptr + s /\ mmap'[i].size = mmap[i].size - s
           /\ mmap'[i].isFree = mmap[i].isFree
           /\ \A j \in 1 .. n : j # i => mmap'[j] = mmap[j]
           /\ bitsets' \in Seq(Pieces) /\ Len(bitsets') = m + 1
           /\ bitsets'[m + 1] = [ptr |-> mmap[i].ptr, size |-> s]
           /\ \A k \in 1 .. m : bitsets'[k] = bitsets[k]
  BY CarveFacts
<1>2. /\ pc = "carve" /\ m + 1 <= BitSets
      /\ UNCHANGED <<bootMap, pc, right_bound, left_index, entry, usable_pages, free_pages>>
  BY DEF Carve
<1>3. /\ n \in Nat /\ m \in Nat /\ DOMAIN mmap = 1 .. n /\ DOMAIN bitsets = 1 .. m
      /\ \A j \in 1 .. n : mmap[j].ptr \in Nat /\ mmap[j].size \in Nat
      /\ \A k \in 1 .. m : bitsets[k].ptr \in Nat /\ bitsets[k].size \in Nat
  BY Facts
<1>4. Typed' BY <1>1, <1>2 DEF MInv, Typed
<1> DEFINE e == mmap[i]
           f == mmap'[i]
           b == bitsets'[m + 1]
<1>5. /\ f.ptr = e.ptr + s /\ f.size = e.size - s /\ f.isFree = e.isFree
      /\ b.ptr = e.ptr /\ b.size = s
  BY <1>1
<1>6. /\ e.ptr \in Nat /\ e.size \in Nat /\ f.ptr \in Nat /\ f.size \in Nat
      /\ b.ptr \in Nat /\ b.size \in Nat
      /\ e.ptr <= f.ptr /\ end(f) <= end(e) /\ end(f) = end(e) /\ e.ptr <= b.ptr /\ end(b) <= end(e)
  <2>1. e.ptr \in Nat /\ e.size \in Nat /\ s <= e.size BY <1>1, <1>3
  <2> HIDE DEF e, f, b
  <2> QED BY <1>5, <2>1 DEF end
<1>7. \A j \in 1 .. n : j = i \/ mmap'[j] = mmap[j] BY <1>1
<1>8. \A k \in 1 .. m + 1 : k = m + 1 \/ (k \in 1 .. m /\ bitsets'[k] = bitsets[k]) BY <1>1, <1>3
<1> HIDE DEF n, m, e, f, b
<1>9. Laid'
  <2>1. /\ \A h, j \in 1 .. n : h # j => Apart(mmap[h], mmap[j])
        /\ \A j, k \in 1 .. m : j # k => Apart(bitsets[j], bitsets[k])
        /\ \A j \in 1 .. n, k \in 1 .. m : Apart(mmap[j], bitsets[k])
        /\ \A j \in 1 .. n : end(mmap[j]) <= end_address
    BY DEF MInv, Laid, n, m
  <2>2. \A j \in 1 .. n : j # i => /\ Apart(f, mmap[j]) /\ Apart(mmap[j], f)
                                   /\ Apart(b, mmap[j]) /\ Apart(mmap[j], b)
    <3> SUFFICES ASSUME NEW j \in 1 .. n, j # i
                 PROVE  /\ Apart(f, mmap[j]) /\ Apart(mmap[j], f)
                        /\ Apart(b, mmap[j]) /\ Apart(mmap[j], b)
      OBVIOUS
    <3>1. Apart(e, mmap[j]) /\ mmap[j].ptr \in Nat /\ mmap[j].size \in Nat BY <1>3, <2>1 DEF e
    <3> QED BY <1>6, <3>1, PartApart
  <2>3. \A k \in 1 .. m : /\ Apart(f, bitsets[k]) /\ Apart(bitsets[k], f)
                          /\ Apart(b, bitsets[k]) /\ Apart(bitsets[k], b)
    <3> SUFFICES ASSUME NEW k \in 1 .. m
                 PROVE  /\ Apart(f, bitsets[k]) /\ Apart(bitsets[k], f)
                        /\ Apart(b, bitsets[k]) /\ Apart(bitsets[k], b)
      OBVIOUS
    <3>1. Apart(e, bitsets[k]) /\ bitsets[k].ptr \in Nat /\ bitsets[k].size \in Nat
      BY <1>3, <2>1 DEF e
    <3> QED BY <1>6, <3>1, PartApart
  <2>4. Apart(f, b) BY <1>5, <1>6 DEF Apart, end
  <2>5. \A h, j \in 1 .. n : h # j => Apart(mmap'[h], mmap'[j]) BY <1>7, <2>1, <2>2 DEF f
  <2>6. \A j, k \in 1 .. m + 1 : j # k => Apart(bitsets'[j], bitsets'[k])
    BY <1>8, <2>1, <2>3 DEF b
  <2>7. \A j \in 1 .. n, k \in 1 .. m + 1 : Apart(mmap'[j], bitsets'[k])
    BY <1>7, <1>8, <2>1, <2>2, <2>3, <2>4 DEF f, b
  <2>8. \A j \in 1 .. n : end(mmap'[j]) <= end_address'
    <3>1. end_address' = end_address BY <1>2, Fixed
    <3>2. \A j \in 1 .. n : end(mmap'[j]) = end(mmap[j]) BY <1>6, <1>7 DEF e, f
    <3> QED BY <2>1, <3>1, <3>2
  <2>9. Len(mmap') = n /\ Len(bitsets') = m + 1 BY <1>1
  <2> QED BY <2>5, <2>6, <2>7, <2>8, <2>9 DEF Laid
<1>10. Sorting' BY <1>2 DEF Sorting
<1>11. Carving'
  <2>1. \A j \in 1 .. n : mmap'[j].isFree
    <3>1. \A j \in 1 .. n : mmap[j].isFree BY <1>2 DEF MInv, Carving, n
    <3> QED BY <1>5, <1>7, <3>1 DEF e, f
  <2>2. \A k : CarveSize(k)' = CarveSize(k) BY <1>2, Fixed
  <2>3. \A k \in 1 .. m : bitsets[k].size = CarveSize(k) BY DEF MInv, Carving, m
  <2>4. \A k \in 1 .. m + 1 : bitsets'[k].size = CarveSize(k) BY <1>1, <1>5, <1>8, <2>3 DEF b
  <2> QED BY <1>1, <1>2, <2>1, <2>2, <2>4 DEF Carving, BitSets
<1>12. Releasing'
  <2>1. entry = 1 /\ usable_pages = free_pages /\ free_pages = {}
    BY <1>2, <1>3 DEF MInv, Releasing, n
  <2>2. \A j \in 1 .. Len(mmap') : ~(j < 1) BY <1>1, <1>3
  <2> QED BY <1>2, <2>1, <2>2 DEF Releasing
<1>13. Accounted'
  <2>1. \A w : w \in FreeWords(mmap)
               <=> \E j \in 1 .. n : mmap[j].isFree /\ w \in WordRange(mmap[j].ptr, mmap[j].size)
    BY <1>3, FreeWordsOf
  <2>2. \A w : w \in FreeWords(mmap')
               <=> \E j \in 1 .. n : mmap'[j].isFree /\ w \in WordRange(mmap'[j].ptr, mmap'[j].size)
    <3>1. DOMAIN mmap' = 1 .. n BY <1>1
    <3> QED BY <1>3, <3>1, FreeWordsOf
  <2>3. \A w : w \in BitSetWords
               <=> \E k \in 1 .. m : w \in WordRange(bitsets[k].ptr, bitsets[k].size)
    BY <1>3, BitSetWordsOf
  <2>4. \A w : w \in BitSetWords'
               <=> \E k \in 1 .. m + 1 : w \in WordRange(bitsets'[k].ptr, bitsets'[k].size)
    <3>1. DOMAIN bitsets' = 1 .. m + 1 BY <1>1
    <3> QED BY <3>1 DEF BitSetWords
  <2>5. m + 1 \in 1 .. m + 1 /\ \A k \in 1 .. m : k \in 1 .. m + 1 BY <1>3
  <2>6. \A w : w \in BitSetWords' <=> w \in BitSetWords \/ w \in WordRange(b.ptr, b.size)
    <3>1. ASSUME NEW w, w \in BitSetWords' PROVE w \in BitSetWords \/ w \in WordRange(b.ptr, b.size)
      <4>1. PICK k \in 1 .. m + 1 : w \in WordRange(bitsets'[k].ptr, bitsets'[k].size) BY <2>4, <3>1
      <4> QED BY <1>8, <2>3, <4>1 DEF b
    <3>2. ASSUME NEW w, w \in BitSetWords PROVE w \in BitSetWords'
      <4>1. PICK k \in 1 .. m : w \in WordRange(bitsets[k].ptr, bitsets[k].size) BY <2>3, <3>2
      <4>2. k \in 1 .. m + 1 /\ bitsets'[k] = bitsets[k] BY <1>1, <2>5
      <4> QED BY <2>4, <4>1, <4>2
    <3>3. ASSUME NEW w, w \in WordRange(b.ptr, b.size) PROVE w \in BitSetWords'
      BY <2>4, <2>5, <3>3 DEF b
    <3> QED BY <3>1, <3>2, <3>3
  <2>7. \A w : w \in WordRange(e.ptr, e.size)
               <=> w \in WordRange(f.ptr, f.size) \/ w \in WordRange(b.ptr, b.size)
    BY <1>5, <1>6, WordsOf
  <2>8. e.isFree BY <1>2 DEF MInv, Carving, n, e
  <2>9. \A w : w \in FreeWords(mmap)
               <=> w \in FreeWords(mmap') \/ w \in WordRange(b.ptr, b.size)
    BY <1>5, <1>7, <2>1, <2>2, <2>7, <2>8 DEF e, f
  <2>10. FreeWords(mmap') \cup BitSetWords' = FreeWords(mmap) \cup BitSetWords BY <2>6, <2>9
  <2> QED BY <1>2, <2>10 DEF MInv, Accounted
<1> QED BY <1>4, <1>9, <1>10, <1>11, <1>12, <1>13 DEF MInv

-----------------------------------------------------------------------------
(* Releasing *)

\* Releasing an entry adds its pages to those of the entries before it.
LEMMA ReleaseInv == ASSUME MInv, Release PROVE MInv'
<1> DEFINE pages(i) == begin_page(mmap[i]) .. last_page(mmap[i]) - 1
<1>1. /\ pc = "release" /\ entry <= Len(mmap) /\ entry' = entry + 1
      /\ usable_pages' = usable_pages \cup pages(entry) /\ free_pages' = free_pages \cup pages(entry)
      /\ UNCHANGED <<bootMap, mmap, pc, right_bound, left_index, bitsets>>
  BY DEF Release
<1>2. Len(mmap) \in Nat /\ entry \in 1 .. Len(mmap) + 1 BY Facts DEF MInv, Typed
<1>3. Typed'
  <2>1. entry' \in 1 .. Len(mmap) + 1 BY <1>1, <1>2
  <2> QED BY <1>1, <2>1 DEF MInv, Typed
<1>4. Laid' BY <1>1, Fixed DEF MInv, Laid
<1>5. Sorting' BY <1>1 DEF Sorting
<1>6. Carving' BY <1>1, Fixed DEF MInv, Carving, BitSets
<1>7. Releasing'
  <2>1. /\ usable_pages = free_pages
        /\ \A p : p \in free_pages <=> \E i \in 1 .. Len(mmap) : i < entry /\ p \in pages(i)
    BY DEF MInv, Releasing
  <2>2. \A i \in 1 .. Len(mmap) : i < entry' <=> i < entry \/ i = entry BY <1>1, <1>2
  <2>3. entry \in 1 .. Len(mmap) BY <1>1, <1>2
  <2> HIDE DEF pages
  <2>4. \A p : p \in free_pages' <=> \E i \in 1 .. Len(mmap) : i < entry' /\ p \in pages(i)
    BY <1>1, <2>1, <2>2, <2>3
  <2>5. usable_pages' = free_pages' BY <1>1, <2>1
  <2>6. mmap' = mmap /\ pc' = "release" BY <1>1
  <2> QED BY <2>4, <2>5, <2>6 DEF Releasing, begin_page, last_page, pages
<1>8. Accounted' BY <1>1 DEF MInv, Accounted, BitSetWords
<1> QED BY <1>3, <1>4, <1>5, <1>6, <1>7, <1>8 DEF MInv

\* The steps that only move memory__init on
LEMMA MoveInv ==
  ASSUME MInv, pc # "sort", pc' \in {"carve", "release", "done", "no memory", "bad range"},
         pc' \in {"carve", "no memory"} => entry = 1, pc' = "done" => entry = Len(mmap) + 1,
         UNCHANGED <<bootMap, mmap, right_bound, left_index, bitsets, entry, usable_pages, free_pages>>
  PROVE  MInv'
<1>1. Typed' BY DEF MInv, Typed
<1>2. Laid' BY Fixed DEF MInv, Laid
<1>3. Sorting' BY DEF Sorting
<1>4. Carving' BY Fixed DEF MInv, Carving, BitSets
<1>5. Releasing' BY DEF MInv, Releasing
<1>6. Accounted' BY DEF MInv, Accounted, BitSetWords
<1> QED BY <1>1, <1>2, <1>3, <1>4, <1>5, <1>6 DEF MInv

\* Every step keeps the invariant.
LEMMA NextInv == MInv /\ [Next]_vars => MInv'
<1> SUFFICES ASSUME MInv, [Next]_vars PROVE MInv' OBVIOUS
<1>1. CASE SortStep BY <1>1, SortStepInv
<1>2. CASE SortRound BY <1>2, SortRoundInv
<1>3. CASE Strip BY <1>3, StripInv
<1>4. CASE Carve BY <1>4, CarveInv
<1>5. CASE CarveFails
  <2>1. entry = 1 BY <1>5 DEF CarveFails, MInv, Releasing
  <2> QED BY <1>5, <2>1, MoveInv DEF CarveFails
<1>6. CASE CarveDone BY <1>6, MoveInv DEF CarveDone
<1>7. CASE Release BY <1>7, ReleaseInv
<1>8. CASE ReleaseFails BY <1>8, MoveInv DEF ReleaseFails
<1>9. CASE ReleaseDone
  <2>1. Len(mmap) \in Nat /\ entry \in 1 .. Len(mmap) + 1 BY Facts DEF MInv, Typed
  <2>2. entry = Len(mmap) + 1 BY <1>9, <2>1 DEF ReleaseDone
  <2> QED BY <1>9, <2>2, MoveInv DEF ReleaseDone
<1>10. CASE UNCHANGED vars
  <2>1. UNCHANGED <<bootMap, mmap, pc, right_bound, left_index, bitsets, entry, usable_pages, free_pages>>
    BY <1>10 DEF vars
  <2>2. Typed' BY <2>1 DEF MInv, Typed
  <2>3. Laid' BY <2>1, Fixed DEF MInv, Laid
  <2>4. Sorting' BY <2>1 DEF MInv, Sorting
  <2>5. Carving' BY <2>1, Fixed DEF MInv, Carving, BitSets
  <2>6. Releasing' BY <2>1 DEF MInv, Releasing
  <2>7. Accounted' BY <2>1 DEF MInv, Accounted, BitSetWords
  <2> QED BY <2>2, <2>3, <2>4, <2>5, <2>6, <2>7 DEF MInv
<1> QED BY <1>1, <1>2, <1>3, <1>4, <1>5, <1>6, <1>7, <1>8, <1>9, <1>10 DEF Next, Step, Over

\* The invariant holds in every state memory__init passes through.
THEOREM MapInductive == Spec => []MInv
  BY InitInv, NextInv, PTL DEF Spec

-----------------------------------------------------------------------------
(* What the invariant gives *)

\* begin_page and last_page enclose exactly the whole pages of an entry.
LEMMA WholePages ==
  ASSUME NEW e, e.ptr \in Nat, e.size \in Nat
  PROVE  /\ \A p \in begin_page(e) .. last_page(e) - 1 :
              p \in Nat /\ PageWords * p \in Nat
                /\ e.ptr <= PageWords * p /\ PageWords * p + PageWords <= end(e)
         /\ \A p \in Nat : e.ptr <= PageWords * p /\ PageWords * p + PageWords <= end(e)
              => p \in begin_page(e) .. last_page(e) - 1
<1> DEFINE P == PageWords
           v == end(e)
           a == CeilDiv(e.ptr, P)
           d == v \div P
<1>1. P \in Nat \ {0} BY SizesAssumption
<1>2. v \in Nat BY DEF end
<1>3. a \in Nat /\ P * a \in Nat /\ e.ptr <= P * a /\ P * a < e.ptr + P BY <1>1, CeilDivision
<1>4. d \in Nat /\ v % P \in Nat /\ v = P * d + (v % P) /\ v % P < P BY <1>1, <1>2, Division
<1>5. P * d \in Nat BY <1>1, <1>4, SMT
<1>6. begin_page(e) = a /\ last_page(e) = d BY DEF begin_page, last_page, end
<1> HIDE DEF P, v, a, d
<1>7. P * d <= v /\ v < P * d + P BY <1>1, <1>2, <1>4, <1>5
<1>8. ASSUME NEW p \in a .. d - 1 PROVE p \in Nat /\ P * p \in Nat /\ e.ptr <= P * p /\ P * p + P <= v
  <2>1. p \in Nat /\ a <= p /\ p < d BY <1>3, <1>4
  <2>2. P * a <= P * p BY <1>1, <1>3, <2>1, Factors
  <2>3. P * p + P <= P * d /\ P * p \in Nat BY <1>1, <1>4, <2>1, Multiples
  <2> QED BY <1>1, <1>2, <1>3, <1>5, <1>7, <2>1, <2>2, <2>3
<1>9. ASSUME NEW p \in Nat, e.ptr <= P * p, P * p + P <= v PROVE p \in a .. d - 1
  <2>1. P * p \in Nat BY <1>1, SMT
  <2>2. ~(p < a)
    <3>1. p < a => P * p + P <= P * a BY <1>1, <1>3, Multiples
    <3> QED BY <1>1, <1>3, <1>9, <2>1, <3>1
  <2>3. ~(d <= p)
    <3>1. d <= p => P * d <= P * p BY <1>1, <1>4, Factors
    <3> QED BY <1>1, <1>2, <1>5, <1>7, <1>9, <2>1, <3>1
  <2> QED BY <1>3, <1>4, <2>2, <2>3
<1> QED BY <1>6, <1>8, <1>9 DEF P, v

\* A page that ends below the end of memory is numbered below end_page and
\* below buddy_end_page, which is a multiple of the largest block.
LEMMA BelowEnd ==
  ASSUME bootMap \in Maps, NEW p \in Nat, PageWords * p \in Nat,
         PageWords * p + PageWords <= end_address
  PROVE  /\ end_page \in Nat /\ p < end_page /\ buddy_end_page \in Nat /\ p < buddy_end_page
         /\ \E c \in Nat : buddy_end_page = Pow2[CLASS_COUNT] * c
<1> DEFINE P == PageWords
           B == Pow2[CLASS_COUNT]
           M == P * B
           c == CeilDiv(end_address, M)
<1>1. P \in Nat \ {0} /\ CLASS_COUNT \in Nat BY SizesAssumption
<1>2. B \in Nat \ {0} BY <1>1, Pow2Type
<1>3. end_address \in Nat BY EndOfMemory
<1>4. M \in Nat \ {0} BY <1>1, <1>2, SMT
<1>5. end_page \in Nat /\ P * end_page \in Nat /\ end_address <= P * end_page
  BY <1>1, <1>3, CeilDivision DEF end_page
<1>6. c \in Nat /\ M * c \in Nat /\ end_address <= M * c BY <1>3, <1>4, CeilDivision
<1>7. buddy_end_page = c * B BY DEF buddy_end_page
<1> HIDE DEF B, c, P
<1>8. c * B \in Nat /\ c * B = B * c /\ M * c = P * (c * B) BY <1>1, <1>2, <1>6, SMT
<1> HIDE DEF M
<1>9. \A q \in Nat : end_address <= P * q /\ P * q \in Nat => p < q
  <2> SUFFICES ASSUME NEW q \in Nat, end_address <= P * q, P * q \in Nat PROVE p < q OBVIOUS
  <2>1. P * p \in Nat /\ P * p + P <= end_address BY DEF P
  <2>2. q <= p => P * q <= P * p BY <1>1, Factors
  <2> QED BY <1>1, <1>3, <2>1, <2>2
<1>10. p < end_page BY <1>5, <1>9
<1>11. p < c * B BY <1>6, <1>8, <1>9
<1> QED BY <1>5, <1>6, <1>7, <1>8, <1>10, <1>11 DEF B

\* Every page that was released lies in a free entry below the end of memory.
LEMMA ReleasedPages ==
  ASSUME MInv, NEW p \in free_pages
  PROVE  /\ p \in Nat /\ PageWords * p \in Nat /\ PageWords * p + PageWords <= end_address
         /\ \E i \in 1 .. Len(mmap) : /\ mmap[i].isFree /\ mmap[i].ptr <= PageWords * p
                                      /\ PageWords * p + PageWords <= end(mmap[i])
<1>1. PICK i \in 1 .. Len(mmap) : i < entry /\ p \in begin_page(mmap[i]) .. last_page(mmap[i]) - 1
  BY DEF MInv, Releasing
<1>2. mmap[i].ptr \in Nat /\ mmap[i].size \in Nat /\ bootMap \in Maps BY Facts
<1>3. /\ p \in Nat /\ PageWords * p \in Nat
      /\ mmap[i].ptr <= PageWords * p /\ PageWords * p + PageWords <= end(mmap[i])
  BY <1>1, <1>2, WholePages
<1>4. mmap[i].isFree
  <2>1. Len(mmap) \in Nat BY Facts
  <2>2. entry # 1 BY <1>1, <2>1
  <2>3. pc # "sort" BY <2>2 DEF MInv, Releasing
  <2> QED BY <2>3 DEF MInv, Carving
<1>5. end(mmap[i]) <= end_address BY DEF MInv, Laid
<1>6. end(mmap[i]) \in Nat /\ end_address \in Nat BY <1>2, EndOfMemory DEF end
<1>7. PageWords \in Nat BY SizesAssumption
<1>8. PageWords * p + PageWords <= end_address BY <1>3, <1>5, <1>6, <1>7
<1> QED BY <1>3, <1>4, <1>8

\* Pieces that are apart share no word.
LEMMA ApartDisjoint ==
  ASSUME NEW e, NEW f, e.ptr \in Nat, e.size \in Nat, f.ptr \in Nat, f.size \in Nat, Apart(e, f)
  PROVE  WordRange(e.ptr, e.size) \cap WordRange(f.ptr, f.size) = {}
<1>1. \A w : ~(w \in WordRange(e.ptr, e.size) /\ w \in WordRange(f.ptr, f.size))
  BY WordsOf DEF Apart, end
<1> QED BY <1>1

\* The free words that are left and the bit sets share no word.
LEMMA FreeApart == ASSUME MInv PROVE FreeWords(mmap) \cap BitSetWords = {}
<1> SUFFICES ASSUME NEW w, w \in FreeWords(mmap), w \in BitSetWords PROVE FALSE OBVIOUS
<1> DEFINE n == Len(mmap)
           m == Len(bitsets)
<1>1. n \in Nat /\ m \in Nat /\ DOMAIN mmap = 1 .. n /\ DOMAIN bitsets = 1 .. m BY Facts
<1>2. PICK i \in 1 .. n : w \in WordRange(mmap[i].ptr, mmap[i].size) BY <1>1, FreeWordsOf
<1>3. PICK k \in 1 .. m : w \in WordRange(bitsets[k].ptr, bitsets[k].size) BY <1>1, BitSetWordsOf
<1>4. Apart(mmap[i], bitsets[k]) BY DEF MInv, Laid
<1>5. /\ mmap[i].ptr \in Nat /\ mmap[i].size \in Nat
      /\ bitsets[k].ptr \in Nat /\ bitsets[k].size \in Nat
  BY Facts
<1> QED BY <1>2, <1>3, <1>4, <1>5, ApartDisjoint

-----------------------------------------------------------------------------
(* The properties *)

\* Sorting, dropping entries and carving lose no free memory and use none twice,
\* whatever map BOOTBOOT hands over.
THEOREM NothingLostAtBoot == Spec => []MemoryAccounted
<1>1. ASSUME MInv PROVE MemoryAccounted
  <2>1. /\ bootMap \in Maps /\ Len(bootMap) \in Nat
        /\ right_bound \in 0 .. Len(bootMap) - 1 /\ left_index \in 0 .. right_bound
        /\ DOMAIN bitsets = 1 .. Len(bitsets)
        /\ \A k \in 1 .. Len(bitsets) : bitsets[k].ptr \in Nat /\ bitsets[k].size \in Nat
    BY <1>1, Facts
  <2>2. TypeOK
    <3>1. usable_pages = free_pages BY <1>1 DEF MInv, Releasing
    <3>2. free_pages \subseteq 0 .. buddy_end_page - 1
      <4> SUFFICES ASSUME NEW p \in free_pages PROVE p \in 0 .. buddy_end_page - 1 OBVIOUS
      <4>1. p \in Nat /\ PageWords * p \in Nat /\ PageWords * p + PageWords <= end_address
        BY <1>1, ReleasedPages
      <4>2. buddy_end_page \in Nat /\ p < buddy_end_page BY <2>1, <4>1, BelowEnd
      <4> QED BY <4>1, <4>2
    <3>3. left_index \in 0 .. Len(bootMap) /\ right_bound \in -1 .. Len(bootMap) - 1 BY <2>1
    <3> QED BY <1>1, <3>1, <3>2, <3>3 DEF TypeOK, MInv, Typed, Entries
  <2>3. FreeWords(mmap) \cap BitSetWords = {} BY <1>1, FreeApart
  <2>4. ASSUME NEW j \in DOMAIN bitsets, NEW k \in DOMAIN bitsets, j # k
        PROVE  WordRange(bitsets[j].ptr, bitsets[j].size)
                 \cap WordRange(bitsets[k].ptr, bitsets[k].size) = {}
    <3>1. Apart(bitsets[j], bitsets[k]) BY <1>1, <2>1, <2>4 DEF MInv, Laid
    <3> QED BY <2>1, <3>1, ApartDisjoint
  <2>5. Accounted BY <1>1 DEF MInv
  <2> QED BY <2>2, <2>3, <2>4, <2>5 DEF MemoryAccounted, Accounted
<1> QED BY <1>1, MapInductive, PTL

\* The allocator gets only pages that are free throughout and hold no part of a
\* bit set, and when memory__init is through it has got every such page.
THEOREM PagesAreExact == Spec => []PagesExact
<1>1. ASSUME MInv PROVE PagesExact
  <2>1. /\ bootMap \in Maps /\ Len(mmap) \in Nat /\ DOMAIN mmap = 1 .. Len(mmap)
        /\ \A i \in 1 .. Len(mmap) : mmap[i].ptr \in Nat /\ mmap[i].size \in Nat
    BY <1>1, Facts
  <2>2. PageWords \in Nat \ {0} BY SizesAssumption
  <2>3. \A w : w \in FreeWords(mmap)
               <=> \E i \in 1 .. Len(mmap) : mmap[i].isFree /\ w \in WordRange(mmap[i].ptr, mmap[i].size)
    BY <2>1, FreeWordsOf
  <2>4. ASSUME NEW p \in Nat PROVE /\ p * PageWords = PageWords * p /\ PageWords * p \in Nat
                                   /\ \A w : w \in PageRange(p) <=> /\ w \in Int /\ PageWords * p <= w
                                                                    /\ w < PageWords * p + PageWords
    <3>1. p * PageWords = PageWords * p /\ PageWords * p \in Nat BY <2>2, SMT
    <3> QED BY <2>2, <3>1, WordsOf DEF PageRange
  <2>5. ASSUME NEW p \in free_pages PROVE PageRange(p) \subseteq FreeWords(bootMap) \ BitSetWords
    <3>1. p \in Nat BY <1>1, ReleasedPages
    <3>2. PICK i \in 1 .. Len(mmap) : /\ mmap[i].isFree /\ mmap[i].ptr <= PageWords * p
                                      /\ PageWords * p + PageWords <= end(mmap[i])
      BY <1>1, ReleasedPages
    <3>3. ASSUME NEW w \in PageRange(p) PROVE w \in FreeWords(mmap)
      <4>1. w \in Int /\ PageWords * p <= w /\ w < PageWords * p + PageWords /\ PageWords * p \in Nat
        BY <2>4, <3>1
      <4>2. mmap[i].ptr \in Nat /\ mmap[i].size \in Nat BY <2>1
      <4>3. mmap[i].ptr <= w /\ w < mmap[i].ptr + mmap[i].size BY <2>2, <3>2, <4>1, <4>2 DEF end
      <4>4. w \in WordRange(mmap[i].ptr, mmap[i].size) BY <4>1, <4>2, <4>3, WordsOf
      <4> QED BY <2>3, <3>2, <4>4
    <3>4. FreeWords(mmap) \cap BitSetWords = {} BY <1>1, FreeApart
    <3>5. FreeWords(mmap) \subseteq FreeWords(bootMap) BY <1>1 DEF MInv, Accounted
    <3> QED BY <3>3, <3>4, <3>5
  <2>6. ASSUME pc = "done", NEW i \in DOMAIN mmap, NEW p \in 0 .. end_page - 1,
               PageRange(p) \subseteq WordRange(mmap[i].ptr, mmap[i].size)
        PROVE  p \in free_pages
    <3>1. p \in Nat
      <4>1. p \in Int /\ 0 <= p OBVIOUS
      <4> QED BY <4>1
    <3>2. mmap[i].ptr \in Nat /\ mmap[i].size \in Nat BY <2>1
    <3> DEFINE v == PageWords * p
               w == v + (PageWords - 1)
    <3>3. v \in Nat /\ \A x : x \in PageRange(p) <=> x \in Int /\ v <= x /\ x < v + PageWords
      BY <2>4, <3>1
    <3> HIDE DEF v
    <3>4. w \in Int /\ v \in Int /\ v <= w /\ w < v + PageWords /\ v < v + PageWords
          /\ w + 1 = v + PageWords
      BY <2>2, <3>3
    <3> HIDE DEF w
    <3>5. v \in PageRange(p) /\ w \in PageRange(p) BY <3>3, <3>4
    <3>6. v \in WordRange(mmap[i].ptr, mmap[i].size) /\ w \in WordRange(mmap[i].ptr, mmap[i].size)
      BY <2>6, <3>5
    <3>7. mmap[i].ptr <= v /\ w < end(mmap[i]) BY <3>2, <3>6, WordsOf DEF end
    <3>8. end(mmap[i]) \in Nat BY <3>2 DEF end
    <3>9. v + PageWords <= end(mmap[i]) BY <2>2, <3>3, <3>4, <3>7, <3>8
    <3>10. p \in begin_page(mmap[i]) .. last_page(mmap[i]) - 1
      BY <3>1, <3>2, <3>7, <3>9, WholePages DEF v
    <3>11. i < entry
      <4>1. entry = Len(mmap) + 1 BY <1>1, <2>6 DEF MInv, Releasing
      <4> QED BY <2>1, <4>1
    <3> QED BY <1>1, <2>1, <3>10, <3>11 DEF MInv, Releasing
  <2> QED BY <2>5, <2>6 DEF PagesExact
<1> QED BY <1>1, MapInductive, PTL

\* Every page the allocator is given has its bits, for every class, within the
\* memory that was carved for them.
THEOREM BitsStayWithin == Spec => []BitsWithin
<1>1. ASSUME MInv PROVE BitsWithin
  <2> SUFFICES ASSUME NEW p \in usable_pages, NEW k \in DOMAIN bitsets
               PROVE  (IF k <= 2 THEN p ELSE p \div Pow2[k - 2]) < bitsets[k].size * WordBits
    BY DEF BitsWithin
  <2>1. usable_pages = free_pages BY <1>1 DEF MInv, Releasing
  <2>2. p \in Nat /\ PageWords * p \in Nat /\ PageWords * p + PageWords <= end_address
    BY <1>1, <2>1, ReleasedPages
  <2>3. bootMap \in Maps /\ DOMAIN bitsets = 1 .. Len(bitsets) /\ Len(bitsets) \in Nat BY <1>1, Facts
  <2>4. end_page \in Nat /\ p < end_page BY <2>2, <2>3, BelowEnd
  <2>5. WordBits \in Nat \ {0} /\ CLASS_COUNT \in Nat BY SizesAssumption
  <2>6. bitsets[k].size = CarveSize(k) /\ Len(bitsets) <= BitSets BY <1>1, <2>3 DEF MInv, Carving
  <2>7. \A x, y \in Nat : x < y => x < CeilDiv(y, WordBits) * WordBits
    <3> SUFFICES ASSUME NEW x \in Nat, NEW y \in Nat, x < y
                 PROVE  x < CeilDiv(y, WordBits) * WordBits
      OBVIOUS
    <3>1. /\ CeilDiv(y, WordBits) \in Nat /\ WordBits * CeilDiv(y, WordBits) \in Nat
          /\ y <= WordBits * CeilDiv(y, WordBits)
      BY <2>5, CeilDivision
    <3>2. CeilDiv(y, WordBits) * WordBits = WordBits * CeilDiv(y, WordBits) BY <2>5, <3>1, SMT
    <3> QED BY <3>1, <3>2
  <2>8. CASE k <= 2
    <3>1. CarveSize(k) = CeilDiv(end_page, WordBits) BY <2>8 DEF CarveSize
    <3> QED BY <2>2, <2>4, <2>6, <2>7, <2>8, <3>1
  <2>9. CASE ~(k <= 2)
    <3> DEFINE j == k - 2
               Q == Pow2[j]
    <3>1. j \in Nat /\ j <= CLASS_COUNT BY <2>3, <2>5, <2>6, <2>9 DEF BitSets
    <3>2. Q \in Nat \ {0} BY <3>1, Pow2Type
    <3>3. PICK c \in Nat : buddy_end_page = Pow2[CLASS_COUNT] * c BY <2>2, <2>3, BelowEnd
    <3>4. buddy_end_page \in Nat /\ p < buddy_end_page BY <2>2, <2>3, BelowEnd
    <3>5. PICK m \in Nat \ {0} : Pow2[CLASS_COUNT] = Q * m BY <2>5, <3>1, Pow2Multiple
    <3>6. CarveSize(k) = CeilDiv(buddy_end_page \div Q, WordBits) BY <2>9 DEF CarveSize
    <3> HIDE DEF Q, j
    <3> DEFINE t == m * c
    <3>7. t \in Nat /\ buddy_end_page = Q * t BY <3>2, <3>3, <3>5, SMT
    <3> HIDE DEF t
    <3>8. buddy_end_page \div Q = t
      <4>1. 0 \in 0 .. Q - 1 /\ Q * t + 0 = Q * t BY <3>2, <3>4, <3>7
      <4>2. (Q * t + 0) \div Q = t BY <3>2, <3>7, <4>1, Unique
      <4> QED BY <3>7, <4>1, <4>2
    <3>9. p \div Q \in Nat /\ p \div Q < t
      <4> DEFINE x == p \div Q
      <4>1. x \in Nat /\ p % Q \in Nat /\ p = Q * x + (p % Q) BY <2>2, <3>2, Division
      <4>2. Q * x \in Nat BY <3>2, <4>1, SMT
      <4> HIDE DEF x
      <4>3. Q * x < Q * t BY <2>2, <3>4, <3>7, <4>1, <4>2
      <4>4. x < t BY <3>2, <3>7, <4>1, <4>3, Factors
      <4> QED BY <4>1, <4>4 DEF x
    <3>10. p \div Q < CeilDiv(t, WordBits) * WordBits BY <2>7, <3>7, <3>9
    <3> QED BY <2>6, <2>9, <3>6, <3>8, <3>10 DEF Q, j
  <2> QED BY <2>8, <2>9
<1> QED BY <1>1, MapInductive, PTL
=============================================================================
