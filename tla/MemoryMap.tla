----------------------------- MODULE MemoryMap -----------------------------
(***************************************************************************)
(* How memory__init (kern/memory.c, first half) turns BOOTBOOT's memory    *)
(* map into the allocator's bit sets and first free pages: it sorts the    *)
(* free entries to the front, drops the others, carves the bit sets out of *)
(* the free entries and releases the whole pages that are left.            *)
(*                                                                         *)
(* Addresses and sizes are counted in words of 64 bits: BOOTBOOT's are     *)
(* multiples of 16 bytes and every bit set is aligned to 8, so align_up in *)
(* alloc_from_entries changes nothing.  What release_pages does with the   *)
(* pages is in PageAlloc; here they are the set free_pages.                *)
(***************************************************************************)
EXTENDS Integers, Sequences, SequencesExt, FiniteSets, Powers

CONSTANTS
  WordBits,     \* bits of a word: 64
  PageWords,    \* words of a page: 512
  CLASS_COUNT,
  Maps          \* the maps BOOTBOOT may hand over, ordered by address

ASSUME SizesAssumption == {WordBits, PageWords, CLASS_COUNT} \subseteq Nat \ {0}
ASSUME MapsAssumption ==
  \A map \in Maps : /\ map \in Seq([ptr : Nat, size : Nat, isFree : BOOLEAN]) /\ map # <<>>
                    /\ \A i, j \in DOMAIN map : i < j => map[i].ptr + map[i].size <= map[j].ptr

VARIABLES
  bootMap,       \* what BOOTBOOT handed over
  mmap,          \* <<[ptr, size, isFree], ...>>
  pc,            \* where memory__init is
  right_bound,   \* of SLOW_SORT
  left_index,    \* of SLOW_SORT
  bitsets,       \* <<[ptr, size], ...>>: usable_pages, free_pages, buddies of every class
  entry,         \* the next entry whose pages are released
  usable_pages,
  free_pages

vars == <<bootMap, mmap, pc, right_bound, left_index, bitsets, entry, usable_pages, free_pages>>

CeilDiv(a, b) == (a + b - 1) \div b
WordRange(ptr, size) == ptr .. ptr + size - 1

end_address == LET last_ent == Last(bootMap) IN last_ent.ptr + last_ent.size
end_page == CeilDiv(end_address, PageWords)
buddy_end_page == CeilDiv(end_address, PageWords * Pow2[CLASS_COUNT]) * Pow2[CLASS_COUNT]

BitSets == CLASS_COUNT + 1

\* Mutant: (end_page - 1) / 8 without + 1
CarveSizeFloor(k) ==
  IF k <= 2 THEN (end_page - 1) \div WordBits ELSE CeilDiv(buddy_end_page \div Pow2[k - 2], WordBits)

\* Words that are asked for: one bit for every page of memory, or for every
\* pair of buddies.
CarveSize(k) ==
  IF k <= 2 THEN CeilDiv(end_page, WordBits) ELSE CeilDiv(buddy_end_page \div Pow2[k - 2], WordBits)

Init ==
  /\ bootMap \in Maps /\ mmap = bootMap
  /\ pc = "sort" /\ right_bound = Len(bootMap) - 1 /\ left_index = 0
  /\ bitsets = <<>> /\ entry = 1
  /\ usable_pages = {} /\ free_pages = {}

\* The body of SLOW_SORT.
SortStep ==
  /\ pc = "sort" /\ right_bound > 0 /\ left_index < right_bound
  /\ LET l == left_index + 1
         r == left_index + 2
     IN mmap' = IF ~mmap[l].isFree /\ mmap[r].isFree
                THEN [mmap EXCEPT ![l] = mmap[r], ![r] = mmap[l]] ELSE mmap
  /\ left_index' = left_index + 1
  /\ UNCHANGED <<bootMap, pc, right_bound, bitsets, entry, usable_pages, free_pages>>

\* Mutant: one round only.
SortRoundOnce ==
  /\ pc = "sort" /\ right_bound > 0 /\ left_index >= right_bound
  /\ right_bound' = 0 /\ left_index' = 0
  /\ UNCHANGED <<bootMap, mmap, pc, bitsets, entry, usable_pages, free_pages>>

\* The next round of SLOW_SORT.
SortRound ==
  /\ pc = "sort" /\ right_bound > 0 /\ left_index >= right_bound
  /\ right_bound' = right_bound - 1 /\ left_index' = 0
  /\ UNCHANGED <<bootMap, mmap, pc, bitsets, entry, usable_pages, free_pages>>

\* mmap.count becomes the index of the first entry that is not free.
Strip ==
  /\ pc = "sort" /\ right_bound <= 0
  /\ LET used == {i \in DOMAIN mmap : ~mmap[i].isFree}
     IN mmap' = IF used = {} THEN mmap
                ELSE SubSeq(mmap, 1, (CHOOSE i \in used : \A j \in used : i <= j) - 1)
  /\ pc' = "carve"
  /\ UNCHANGED <<bootMap, right_bound, left_index, bitsets, entry, usable_pages, free_pages>>

\* The entries that have room for n words.
Roomy(n) == {i \in DOMAIN mmap : mmap[i].size >= n}

\* alloc_from_entries takes the front of the first entry with enough room;
\* the bit set made of it starts empty.
Carve ==
  LET k == Len(bitsets) + 1
      n == CarveSize(k)
      i == CHOOSE j \in Roomy(n) : \A h \in Roomy(n) : j <= h
  IN
  /\ pc = "carve" /\ k <= BitSets /\ Roomy(n) # {}
  /\ bitsets' = Append(bitsets, [ptr |-> mmap[i].ptr, size |-> n])
  /\ mmap' = [mmap EXCEPT ![i].ptr = @ + n, ![i].size = @ - n]
  /\ UNCHANGED <<bootMap, pc, right_bound, left_index, entry, usable_pages, free_pages>>

\* alloc_from_entries: assert(false)
CarveFails ==
  /\ pc = "carve" /\ Len(bitsets) < BitSets /\ Roomy(CarveSize(Len(bitsets) + 1)) = {}
  /\ pc' = "no memory"
  /\ UNCHANGED <<bootMap, mmap, right_bound, left_index, bitsets, entry, usable_pages, free_pages>>

CarveDone ==
  /\ pc = "carve" /\ Len(bitsets) = BitSets
  /\ pc' = "release"
  /\ UNCHANGED <<bootMap, mmap, right_bound, left_index, bitsets, entry, usable_pages, free_pages>>

begin_page(e) == CeilDiv(e.ptr, PageWords)

\* local end_page
last_page(e) == (e.ptr + e.size) \div PageWords

\* Mutant: a page that has begun before the entry counts as its own.
ReleaseDown ==
  /\ pc = "release" /\ entry <= Len(mmap)
  /\ LET e == mmap[entry] IN
       LET pages == e.ptr \div PageWords .. last_page(e) - 1
       IN usable_pages' = usable_pages \cup pages /\ free_pages' = free_pages \cup pages
  /\ entry' = entry + 1
  /\ UNCHANGED <<bootMap, mmap, pc, right_bound, left_index, bitsets>>

\* BitSet__set_range and release_pages on the whole pages of an entry.
Release ==
  /\ pc = "release" /\ entry <= Len(mmap)
  /\ LET e == mmap[entry]
         pages == begin_page(e) .. last_page(e) - 1
     IN /\ begin_page(e) <= last_page(e)
        /\ usable_pages' = usable_pages \cup pages /\ free_pages' = free_pages \cup pages
  /\ entry' = entry + 1
  /\ UNCHANGED <<bootMap, mmap, pc, right_bound, left_index, bitsets>>

\* BitSet__set_range: assert(begin <= end)
ReleaseFails ==
  /\ pc = "release" /\ entry <= Len(mmap) /\ begin_page(mmap[entry]) > last_page(mmap[entry])
  /\ pc' = "bad range"
  /\ UNCHANGED <<bootMap, mmap, right_bound, left_index, bitsets, entry, usable_pages, free_pages>>

ReleaseDone ==
  /\ pc = "release" /\ entry > Len(mmap)
  /\ pc' = "done"
  /\ UNCHANGED <<bootMap, mmap, right_bound, left_index, bitsets, entry, usable_pages, free_pages>>

Step == \/ SortStep \/ SortRound \/ Strip \/ Carve \/ CarveFails \/ CarveDone
        \/ Release \/ ReleaseFails \/ ReleaseDone

\* memory__init goes on, or the kernel has panicked.
Over == pc \in {"done", "no memory", "bad range"} /\ UNCHANGED vars

Next == Step \/ Over

Spec == Init /\ [][Next]_vars

-----------------------------------------------------------------------------
(* Properties *)

TypeOK ==
  /\ mmap \in Seq([ptr : Nat, size : Nat, isFree : BOOLEAN])
  /\ pc \in {"sort", "carve", "release", "done", "no memory", "bad range"}
  /\ left_index \in 0 .. Len(bootMap) /\ right_bound \in -1 .. Len(bootMap) - 1
  /\ usable_pages \subseteq 0 .. buddy_end_page - 1 /\ free_pages \subseteq usable_pages

FreeWords(map) == UNION {WordRange(map[i].ptr, map[i].size) : i \in {j \in DOMAIN map : map[j].isFree}}
BitSetWords == UNION {WordRange(bitsets[k].ptr, bitsets[k].size) : k \in DOMAIN bitsets}
PageRange(p) == WordRange(p * PageWords, PageWords)

\* Sorting, dropping entries and carving lose no free memory and use none twice:
\* what the entries still offer and the bit sets make up what BOOTBOOT offered,
\* and no two of them overlap.
MemoryAccounted ==
  /\ TypeOK
  /\ FreeWords(mmap) \cup BitSetWords = FreeWords(bootMap)
  /\ FreeWords(mmap) \cap BitSetWords = {}
  /\ \A j, k \in DOMAIN bitsets :
       j # k => WordRange(bitsets[j].ptr, bitsets[j].size) \cap WordRange(bitsets[k].ptr, bitsets[k].size) = {}

\* The allocator is given only pages that are free from the first to the last
\* word and hold no part of its own bit sets, and when memory__init is through no
\* whole page of an entry has been forgotten.
PagesExact ==
  /\ \A p \in free_pages : PageRange(p) \subseteq FreeWords(bootMap) \ BitSetWords
  /\ pc = "done" =>
       \A i \in DOMAIN mmap, p \in 0 .. end_page - 1 :
         PageRange(p) \subseteq WordRange(mmap[i].ptr, mmap[i].size) => p \in free_pages

\* Every page the allocator is given has its bits within the memory that was
\* carved for them, although usable_pages and free_pages claim to be longer than that.
BitsWithin ==
  \A p \in usable_pages, k \in DOMAIN bitsets :
    (IF k <= 2 THEN p ELSE p \div Pow2[k - 2]) < bitsets[k].size * WordBits

\* The assertion begin <= end in BitSet__set_range.
RangeOrdered == pc # "bad range"
=============================================================================
