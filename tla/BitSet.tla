------------------------------- MODULE BitSet -------------------------------
(***************************************************************************)
(* The kernel's bit sets (lib/bitset.h): bits in an array of words.        *)
(* Operations on a range take whole words at once between the first and    *)
(* the last word boundary in it, and single bits around them.              *)
(*                                                                         *)
(* A word is the set of its bits that are 1.  The bits of the last word    *)
(* from Count on exist and are written by set_all.                         *)
(***************************************************************************)
EXTENDS Integers, FiniteSets

CONSTANTS
  WordBits,   \* 64
  Count       \* bits.count

ASSUME WordBitsAssumption == WordBits \in Nat \ {0}
ASSUME CountAssumption == Count \in Nat

VARIABLE data

Offsets == 0 .. WordBits - 1

\* for (i = 0, idx = 0; idx < bits.count; i++, idx += 64)
Words == {w \in 0 .. Count : w * WordBits < Count}

align_down(v) == v - (v % WordBits)
align_up(v) == IF v % WordBits = 0 THEN v ELSE align_down(v) + WordBits

Bit(words, i) == i % WordBits \in words[i \div WordBits]
get(i) == Bit(data, i)

\* Mutant: the first word boundary is looked for below the range.
SlowDown(begin, end) ==
  IF align_down(begin) >= align_down(end) THEN begin .. end - 1
  ELSE align_down(end) .. end - 1

\* The bits of a range that are taken one by one.
Slow(begin, end) ==
  IF align_up(begin) >= align_down(end) THEN begin .. end - 1
  ELSE (begin .. align_up(begin) - 1) \cup (align_down(end) .. end - 1)

\* Mutant: the last word is left out.
FastShort(begin, end) == align_up(begin) \div WordBits .. (align_down(end) \div WordBits) - 2

\* Mutant: a range that ends inside a word is taken to its end.
FastLong(begin, end) == align_up(begin) \div WordBits .. (align_up(end) \div WordBits) - 1

\* The words of a range that are taken at once: none if the first boundary is
\* not below the last one.
Fast(begin, end) == align_up(begin) \div WordBits .. (align_down(end) \div WordBits) - 1

\* What the loop over n whole words adds to count.
WordsCount(first, n) ==
  LET count[k \in Nat] == IF k = 0 THEN 0 ELSE count[k - 1] + Cardinality(data[first + k - 1])
  IN count[n]

get_count(begin, end) ==
  Cardinality({i \in Slow(begin, end) : get(i)})
    + WordsCount(align_up(begin) \div WordBits, Cardinality(Fast(begin, end)))

get_all(begin, end) ==
  /\ \A i \in Slow(begin, end) : get(i)
  /\ \A w \in Fast(begin, end) : data[w] = Offsets

get_any(begin, end) ==
  \/ \E i \in Slow(begin, end) : get(i)
  \/ \E w \in Fast(begin, end) : data[w] # {}

\* bits.data[i] = 0; if (value) bits.data[i] = ~bits.data[i]
Filled(value) == IF value THEN Offsets ELSE {}

\* What the array is after BitSet__set ...
set(idx, value) ==
  [data EXCEPT ![idx \div WordBits] =
     IF value THEN @ \cup {idx % WordBits} ELSE @ \ {idx % WordBits}]

\* ... after BitSet__set_all ...
set_all(value) == [w \in Words |-> Filled(value)]

\* ... and after BitSet__set_range.
set_range(begin, end, value) ==
  [w \in Words |->
     IF w \in Fast(begin, end) THEN Filled(value)
     ELSE {r \in Offsets : IF w * WordBits + r \in Slow(begin, end) THEN value
                           ELSE r \in data[w]}]

Init == data = [w \in Words |-> {}]

Next ==
  \E value \in BOOLEAN :
    \/ \E idx \in 0 .. Count - 1 : data' = set(idx, value)
    \/ data' = set_all(value)
    \/ \E begin, end \in 0 .. Count : begin <= end /\ data' = set_range(begin, end, value)

Spec == Init /\ [][Next]_data

-----------------------------------------------------------------------------
(* Properties *)

TypeOK == data \in [Words -> SUBSET Offsets]

\* The queries on a range that go word by word answer what a look at every single
\* bit would, on every range, also where it begins or ends inside a word.
QueriesExact ==
  \A begin, end \in 0 .. Count : begin <= end =>
    LET ones == {i \in begin .. end - 1 : get(i)}
    IN /\ get_all(begin, end) <=> ones = begin .. end - 1
       /\ get_any(begin, end) <=> ones # {}

\* The same of the number of ones.
CountExact ==
  \A begin, end \in 0 .. Count : begin <= end =>
    get_count(begin, end) = Cardinality({i \in begin .. end - 1 : get(i)})

\* Updates change the bits of their range and no other, although set_all and
\* set_range write whole words.
UpdatesExact ==
  \A i \in 0 .. Count - 1, value \in BOOLEAN :
    /\ Bit(set_all(value), i) <=> value
    /\ \A idx \in 0 .. Count - 1 :
         Bit(set(idx, value), i) <=> IF i = idx THEN value ELSE get(i)
    /\ \A begin, end \in 0 .. Count : begin <= end =>
         (Bit(set_range(begin, end, value), i)
            <=> IF i \in begin .. end - 1 THEN value ELSE get(i))
=============================================================================
