------------------------------ MODULE BumpAlloc ------------------------------
(***************************************************************************)
(* The bump allocator (lib/basics.h, Bump__new and Bump__bump_impl), which *)
(* any number of cores may use at once without a lock.  Offsets count from *)
(* Bump.begin, which Bump__new makes page-aligned; memory is never given   *)
(* back.                                                                   *)
(*                                                                         *)
(* A weak compare-exchange that fails spuriously changes nothing: it is a  *)
(* stuttering step.                                                        *)
(***************************************************************************)
EXTENDS Integers

CONSTANTS
  Cores,      \* the callers
  Capacity,   \* Bump.count
  Sizes,      \* the sizes asked for
  Aligns,     \* the alignments asked for
  MaxAllocs   \* bound: how many calls are made altogether

ASSUME CapacityAssumption == Capacity \in Nat
ASSUME SizesAssumption == Sizes \subseteq Nat \ {0}
ASSUME AlignsAssumption == Aligns \subseteq Nat \ {0}
ASSUME MaxAllocsAssumption == MaxAllocs \in Nat

VARIABLES
  index,       \* Bump.index
  pc,          \* [core -> where it is in Bump__bump_impl]
  bump_index,  \* [core -> local bump_index]
  size, align, \* [core -> the arguments]
  allocs,      \* history: number of calls begun
  regions      \* history: the regions <<begin, end, caller>> returned, end excluded

args == <<size, align>>
vars == <<index, pc, bump_index, args, allocs, regions>>

\* __builtin_align_up
align_up(v, a) == IF v % a = 0 THEN v ELSE v + a - (v % a)

aligned_index(c) == align_up(bump_index[c], align[c])
end_index(c) == aligned_index(c) + size[c]

\* The call.
Bump(c, s, a) ==
  /\ pc[c] = "idle" /\ allocs < MaxAllocs
  /\ pc' = [pc EXCEPT ![c] = "load"]
  /\ size' = [size EXCEPT ![c] = s]
  /\ align' = [align EXCEPT ![c] = a]
  /\ allocs' = allocs + 1
  /\ UNCHANGED <<index, bump_index, regions>>

Load(c) ==
  /\ pc[c] = "load"
  /\ pc' = [pc EXCEPT ![c] = "try"]
  /\ bump_index' = [bump_index EXCEPT ![c] = index]
  /\ UNCHANGED <<index, args, allocs, regions>>

\* ensure(end_index <= bump->count) return NULL
TooLarge(c) ==
  /\ pc[c] = "try"
  /\ end_index(c) > Capacity
  /\ pc' = [pc EXCEPT ![c] = "idle"]
  /\ UNCHANGED <<index, bump_index, args, allocs, regions>>

\* Mutant: index is stored without comparing it first.
ExchangeBlind(c) ==
  /\ pc[c] = "try" /\ end_index(c) <= Capacity
  /\ index' = end_index(c)
  /\ pc' = [pc EXCEPT ![c] = "idle"]
  /\ regions' = regions \cup {<<aligned_index(c), end_index(c), c>>}
  /\ UNCHANGED <<bump_index, args, allocs>>

\* The compare-exchange succeeds and the region is the caller's ...
Exchange(c) ==
  /\ pc[c] = "try" /\ end_index(c) <= Capacity
  /\ index = bump_index[c]
  /\ index' = end_index(c)
  /\ pc' = [pc EXCEPT ![c] = "idle"]
  /\ regions' = regions \cup {<<aligned_index(c), end_index(c), c>>}
  /\ UNCHANGED <<bump_index, args, allocs>>

\* Mutant: the old value is compared again and again.
RetryStale(c) ==
  /\ pc[c] = "try" /\ end_index(c) <= Capacity
  /\ index # bump_index[c]
  /\ UNCHANGED vars

\* ... or it fails, and the loop goes on with the current value.
Retry(c) ==
  /\ pc[c] = "try" /\ end_index(c) <= Capacity
  /\ index # bump_index[c]
  /\ bump_index' = [bump_index EXCEPT ![c] = index]
  /\ UNCHANGED <<index, pc, args, allocs, regions>>

\* Bump__new
Init ==
  /\ index = 0
  /\ pc = [c \in Cores |-> "idle"]
  /\ bump_index = [c \in Cores |-> 0]
  /\ size \in [Cores -> {0}] /\ align \in [Cores -> {1}]
  /\ allocs = 0 /\ regions = {}

Step(c) == Load(c) \/ TooLarge(c) \/ Exchange(c) \/ Retry(c)

\* Every call that is allowed has been made and has returned.
Rest ==
  /\ allocs = MaxAllocs /\ \A c \in Cores : pc[c] = "idle"
  /\ UNCHANGED vars

Next ==
  \/ \E c \in Cores : (\E s \in Sizes, a \in Aligns : Bump(c, s, a)) \/ Step(c)
  \/ Rest

Spec == Init /\ [][Next]_vars

-----------------------------------------------------------------------------
(* Properties *)

TypeOK ==
  /\ index \in Nat
  /\ pc \in [Cores -> {"idle", "load", "try"}]
  /\ bump_index \in [Cores -> Nat]
  /\ size \in [Cores -> Nat] /\ align \in [Cores -> Nat \ {0}]
  /\ allocs \in Nat
  /\ regions \subseteq Nat \X Nat \X Cores

\* No two regions that Bump__bump_impl returned overlap, however the calls
\* interleave.
Disjoint == \A r, s \in regions : r # s => r[2] <= s[1] \/ s[2] <= r[1]

\* Every region lies in the memory of the Bump, below its index.
InBounds == index <= Capacity /\ \A r \in regions : r[1] < r[2] /\ r[2] <= index

\* What makes Disjoint inductive: regions end at or below index, a region starts
\* at or above the index it was cut from, and a core that is about to try has
\* seen an index no larger than the present one.
IndInv ==
  /\ TypeOK /\ Disjoint /\ InBounds
  /\ \A c \in Cores : pc[c] = "try" => bump_index[c] <= index
  /\ \A c \in Cores : pc[c] # "idle" => size[c] \in Sizes

\* Bump__bump_impl returns NULL only to a caller whose region would not fit at this
\* moment either, although it decided with an index that others may have moved on
\* since, with requests of other sizes and alignments.
NullJustified ==
  [][\A c \in Cores : pc[c] = "try" /\ pc'[c] = "idle" /\ regions' = regions
        => align_up(index, align[c]) + size[c] > Capacity]_vars
=============================================================================
