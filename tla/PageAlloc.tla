------------------------------ MODULE PageAlloc ------------------------------
(***************************************************************************)
(* The physical page allocator (kern/memory.c): a buddy system whose free  *)
(* lists live inside the free pages.                                       *)
(*                                                                         *)
(* A call is a run of steps, one per iteration of the loops of the code;   *)
(* no other core calls the allocator (it has no lock: main.c keeps all     *)
(* cores but one parked), so calls do not overlap.  Pages are numbered,    *)
(* sizes count pages, NULL is the null pointer and Garbage the contents of *)
(* a page that belongs to a client, who may have written anything.         *)
(*                                                                         *)
(* A failed assertion stops the kernel.  Here it is a guard, so the model  *)
(* stops there too, and AssertionsHold says that it never does.            *)
(***************************************************************************)
EXTENDS Powers, Sequences, FiniteSets

CONSTANTS
  CLASS_COUNT,  \* number of size classes; class k holds blocks of 2^k pages
  PageCount,    \* buddy_end_page, a multiple of 2^CLASS_COUNT
  MemoryMaps,   \* the memory maps to boot with: sequences of ranges <<begin, end>>
  MaxRequest,   \* bound: the most pages a client asks for
  Reserved      \* bound: the pages whose usability a client may change

ASSUME ClassCountAssumption == CLASS_COUNT \in 1 .. 63
ASSUME PageCountAssumption == PageCount \in Nat /\ PageCount % Pow2[CLASS_COUNT] = 0
\* Above that alloc_raw reads past its lists.
ASSUME MaxRequestAssumption == MaxRequest \in 0 .. Pow2[CLASS_COUNT]
\* The ranges are what BitSet__set_range has accepted.
ASSUME MapsAssumption ==
  MemoryMaps \subseteq Seq({r \in (0 .. PageCount) \X (0 .. PageCount) : r[1] <= r[2]})
ASSUME ReservedAssumption == Reserved \subseteq 0 .. PageCount - 1

VARIABLES
  free_memory, usable_pages, free_pages,  \* MemGlobals
  freelist,          \* [class -> first free block]
  buddies,           \* [class -> indices of the bits that are set]
  next, prev, tag,   \* [page -> fields of the FreeBlock at its start]
  pc,                \* where the current call is
  mmap,              \* memory__init: the entries still to be released
  available_memory,  \* memory__init: pages released so far
  booted,            \* memory__init has built the heap
  exact,             \* alloc_raw: the argument
  begin, count,      \* the range allocated or released by the current call
  class,             \* the class the current loop is at
  page,              \* alloc_raw, release_pages: the block being split or merged
  remaining,         \* alloc_raw: pages still to be carved; release_pages: pages to go
  held               \* history: pages that belong to clients

lists == <<freelist, next, prev, tag>>
accounts == <<free_memory, usable_pages, free_pages>>
boot == <<mmap, available_memory, booted>>
locals == <<exact, begin, count, class, page, remaining>>
vars == <<accounts, lists, buddies, pc, boot, locals, held>>

NULL == -1
Garbage == -2

Pages == 0 .. PageCount - 1
Classes == 0 .. CLASS_COUNT - 1
\* Mutant: merging stops one class early.
BuddyClassesShort == 0 .. CLASS_COUNT - 3

BuddyClasses == 0 .. CLASS_COUNT - 2  \* the largest class merges no further

PageRange(b, n) == b .. b + n - 1
is_aligned(p, k) == p % Pow2[k] = 0

\* buddy_info
Buddy(p, k) == IF (p \div Pow2[k]) % 2 = 0 THEN p + Pow2[k] ELSE p - Pow2[k]
BuddyIndex(p, k) == p \div Pow2[k + 1]

\* 64 - clz(n - 1): the number of bits of n - 1.
smallest_greater_power2(n) ==
  IF n <= 1 THEN 0 ELSE CHOOSE k \in 1 .. 63 : Pow2[k - 1] <= n - 1 /\ n - 1 < Pow2[k]

-----------------------------------------------------------------------------
(* The free lists *)

PopAsserts(k) == freelist[k] # NULL /\ tag[freelist[k]] = k /\ prev[freelist[k]] = NULL

pop_freelist(k) ==
  LET second == next[freelist[k]] IN
  /\ PopAsserts(k)
  /\ freelist' = [freelist EXCEPT ![k] = second]
  /\ prev' = [p \in Pages |-> IF p = second THEN NULL ELSE prev[p]]
  /\ UNCHANGED <<next, tag>>

RemoveAsserts(p, k) ==
  is_aligned(p, k) /\ tag[p] = k /\ (prev[p] = NULL => freelist[k] = p)

\* Mutant: the next block keeps pointing back at the removed one.
RemoveOneWay(p, k) ==
  /\ RemoveAsserts(p, k)
  /\ next' = [q \in Pages |-> IF q = prev[p] THEN next[p] ELSE next[q]]
  /\ freelist' = IF prev[p] = NULL THEN [freelist EXCEPT ![k] = next[p]] ELSE freelist
  /\ UNCHANGED <<prev, tag>>

remove_from_freelist(p, k) ==
  /\ RemoveAsserts(p, k)
  /\ prev' = [q \in Pages |-> IF q = next[p] THEN prev[p] ELSE prev[q]]
  /\ next' = [q \in Pages |-> IF q = prev[p] THEN next[p] ELSE next[q]]
  /\ freelist' = IF prev[p] = NULL THEN [freelist EXCEPT ![k] = next[p]] ELSE freelist
  /\ UNCHANGED tag

add_to_freelist(p, k) ==
  /\ tag' = [tag EXCEPT ![p] = k]
  /\ prev' = [q \in Pages |-> CASE q = freelist[k] -> p
                                [] q = p -> NULL
                                [] OTHER -> prev[q]]
  /\ next' = [next EXCEPT ![p] = freelist[k]]
  /\ freelist' = [freelist EXCEPT ![k] = p]

Goto(from, to) == pc = from /\ pc' = to

\* The call returns; its locals are gone.
Return(to) ==
  /\ pc' = to
  /\ exact' = FALSE /\ begin' = 0 /\ count' = 0 /\ class' = 0 /\ page' = 0 /\ remaining' = 0

-----------------------------------------------------------------------------
(* alloc_raw, reached through zeroed_pages, raw_pages (exact) and try_raw_pages *)

AllocRaw(n, ex) ==
  /\ Goto("idle", "scan")
  /\ count' = n /\ exact' = ex /\ class' = smallest_greater_power2(n)
  /\ UNCHANGED <<accounts, lists, buddies, boot, begin, page, remaining, held>>

\* RANGE(min_class, CLASS_COUNT, current): "!=" ends the loop.
ScanNext ==
  /\ pc = "scan" /\ class # CLASS_COUNT /\ class \in Classes
  /\ freelist[class] = NULL
  /\ class' = class + 1
  /\ UNCHANGED <<accounts, lists, buddies, pc, boot, exact, begin, count, page, remaining, held>>

ScanFound ==
  /\ Goto("scan", "take")
  /\ class # CLASS_COUNT /\ class \in Classes
  /\ freelist[class] # NULL
  /\ UNCHANGED <<accounts, lists, buddies, boot, locals, held>>

\* exact: return the NULL buffer.
ScanFails ==
  /\ pc = "scan" /\ class = CLASS_COUNT /\ exact
  /\ Return("idle")
  /\ UNCHANGED <<accounts, lists, buddies, boot, held>>

\* Otherwise look for the largest smaller block ...
ScanFallsBack ==
  /\ Goto("scan", "fallback")
  /\ class = CLASS_COUNT /\ ~exact
  /\ class' = smallest_greater_power2(count) - 1
  /\ UNCHANGED <<accounts, lists, buddies, boot, exact, begin, count, page, remaining, held>>

\* Mutant: the loop variable is not decremented.
FallbackStuck ==
  /\ pc = "fallback" /\ class >= 0
  /\ freelist[class] = NULL
  /\ UNCHANGED vars

FallbackNext ==
  /\ pc = "fallback" /\ class >= 0
  /\ freelist[class] = NULL
  /\ class' = class - 1
  /\ UNCHANGED <<accounts, lists, buddies, pc, boot, exact, begin, count, page, remaining, held>>

FallbackFound ==
  /\ Goto("fallback", "take")
  /\ class >= 0
  /\ freelist[class] # NULL
  /\ count' = Pow2[class]
  /\ UNCHANGED <<accounts, lists, buddies, boot, exact, begin, class, page, remaining, held>>

\* Mutant: single pages are not looked for.
FallbackFailsEarly ==
  /\ pc = "fallback" /\ class <= 0
  /\ Return("idle")
  /\ UNCHANGED <<accounts, lists, buddies, boot, held>>

FallbackFails ==
  /\ pc = "fallback" /\ class < 0
  /\ Return("idle")
  /\ UNCHANGED <<accounts, lists, buddies, boot, held>>

TakeAsserts ==
  LET b == freelist[class] IN
  /\ PopAsserts(class)
  /\ PageRange(b, count) \subseteq usable_pages /\ PageRange(b, count) \subseteq free_pages
  /\ class # CLASS_COUNT - 1
       => is_aligned(b, class) /\ BuddyIndex(b, class) \in buddies[class]

\* The block is taken off its list and out of the accounts.
Take ==
  LET b == freelist[class] IN
  /\ Goto("take", "split")
  /\ TakeAsserts
  /\ pop_freelist(class)
  /\ free_memory' = free_memory - count
  /\ free_pages' = free_pages \ PageRange(b, count)
  /\ buddies' = IF class # CLASS_COUNT - 1
                THEN [buddies EXCEPT ![class] = @ \ {BuddyIndex(b, class)}]
                ELSE buddies
  /\ begin' = b /\ page' = b /\ remaining' = count
  /\ UNCHANGED <<usable_pages, boot, exact, count, class, held>>

SplitAsserts ==
  is_aligned(page, class - 1) /\ BuddyIndex(page, class - 1) \notin buddies[class - 1]

\* Mutant: goes on with the half that is already used.
SplitUpperStays ==
  LET child_size == Pow2[class - 1] IN
  /\ pc = "split" /\ class > 0 /\ SplitAsserts
  /\ remaining > child_size
  /\ remaining' = remaining - child_size
  /\ class' = class - 1
  /\ UNCHANGED <<accounts, lists, buddies, pc, boot, exact, begin, count, page, held>>

\* More than the lower half is wanted: all of it is used, go on with the upper half.
SplitUpper ==
  LET child_size == Pow2[class - 1] IN
  /\ pc = "split" /\ class > 0 /\ SplitAsserts
  /\ remaining > child_size
  /\ remaining' = remaining - child_size
  /\ page' = page + child_size
  /\ class' = class - 1
  /\ UNCHANGED <<accounts, lists, buddies, pc, boot, exact, begin, count, held>>

\* Mutant: the buddy bit is not set.
SplitLowerNoBit ==
  LET child_size == Pow2[class - 1] IN
  /\ pc = "split" /\ class > 0 /\ SplitAsserts
  /\ remaining <= child_size
  /\ pc' = IF remaining = child_size THEN "return" ELSE "split"
  /\ add_to_freelist(page + child_size, class - 1)
  /\ class' = class - 1
  /\ UNCHANGED <<accounts, buddies, boot, exact, begin, count, page, remaining, held>>

\* Otherwise the upper half is free again.
SplitLower ==
  LET child_size == Pow2[class - 1] IN
  /\ pc = "split" /\ class > 0 /\ SplitAsserts
  /\ remaining <= child_size
  /\ pc' = IF remaining = child_size THEN "return" ELSE "split"
  /\ add_to_freelist(page + child_size, class - 1)
  /\ buddies' = [buddies EXCEPT ![class - 1] = @ \cup {BuddyIndex(page, class - 1)}]
  /\ class' = class - 1
  /\ UNCHANGED <<accounts, boot, exact, begin, count, page, remaining, held>>

SplitDone ==
  /\ Goto("split", "return")
  /\ class = 0
  /\ UNCHANGED <<accounts, lists, buddies, boot, locals, held>>

\* The pages go to the client, who may write to them (zeroed_pages does so first).
HandOut ==
  LET given == PageRange(begin, count)
      Overwritten(f) == [p \in Pages |-> IF p \in given THEN Garbage ELSE f[p]] IN
  /\ pc = "return"
  /\ Return("idle")
  /\ held' = held \cup given
  /\ next' = Overwritten(next) /\ prev' = Overwritten(prev) /\ tag' = Overwritten(tag)
  /\ UNCHANGED <<accounts, freelist, buddies, boot>>

-----------------------------------------------------------------------------
(* release_pages *)

ReleaseAsserts(b, n) ==
  PageRange(b, n) \subseteq usable_pages /\ PageRange(b, n) \cap free_pages = {}

StartRelease(b, n) ==
  /\ pc' = "release"
  /\ begin' = b /\ count' = n /\ remaining' = n
  /\ page' = b /\ class' = 0
  /\ UNCHANGED exact

\* A client gives back pages it holds, all of a block or a part of it.
ReleasePages(b, n) ==
  /\ pc = "idle" /\ PageRange(b, n) \subseteq held
  /\ ReleaseAsserts(b, n)
  /\ StartRelease(b, n)
  /\ held' = held \ PageRange(b, n)
  /\ UNCHANGED <<accounts, lists, buddies, boot>>

\* The page of the loop of release_pages that is being merged.
Current == begin + count - remaining

BuddyIsFree == BuddyIndex(page, class) \in buddies[class]

\* The buddy is free: take it off its list, go on with the block they form.
Merge ==
  LET buddy == Buddy(page, class) IN
  /\ pc = "release" /\ remaining > 0 /\ class \in BuddyClasses
  /\ is_aligned(page, class)
  /\ BuddyIsFree
  /\ buddies' = [buddies EXCEPT ![class] = @ \ {BuddyIndex(page, class)}]
  /\ remove_from_freelist(buddy, class)
  /\ page' = IF page < buddy THEN page ELSE buddy
  /\ class' = class + 1
  /\ UNCHANGED <<accounts, pc, boot, exact, begin, count, remaining, held>>

\* It is not, or there is no larger class: the block is free; on to the next page.
AddBlock ==
  /\ pc = "release" /\ remaining > 0
  /\ class \in BuddyClasses => ~BuddyIsFree
  /\ is_aligned(page, class)
  /\ buddies' = IF class \in BuddyClasses
                THEN [buddies EXCEPT ![class] = @ \cup {BuddyIndex(page, class)}]
                ELSE buddies
  /\ add_to_freelist(page, class)
  /\ remaining' = remaining - 1
  /\ page' = Current + 1
  /\ class' = 0
  /\ UNCHANGED <<accounts, pc, boot, exact, begin, count, held>>

\* Mutant: free_memory is not increased.
ReleaseDoneUncounted ==
  /\ pc = "release" /\ remaining = 0
  /\ Return(IF booted THEN "idle" ELSE "boot")
  /\ free_pages' = free_pages \cup PageRange(begin, count)
  /\ UNCHANGED <<free_memory, usable_pages, lists, buddies, boot, held>>

\* Mutant: the pages are not marked free.
ReleaseDoneUnmarked ==
  /\ pc = "release" /\ remaining = 0
  /\ Return(IF booted THEN "idle" ELSE "boot")
  /\ free_memory' = free_memory + count
  /\ UNCHANGED <<usable_pages, free_pages, lists, buddies, boot, held>>

\* All pages are on the lists; the accounts follow.
ReleaseDone ==
  /\ pc = "release" /\ remaining = 0
  /\ Return(IF booted THEN "idle" ELSE "boot")
  /\ free_memory' = free_memory + count
  /\ free_pages' = free_pages \cup PageRange(begin, count)
  /\ UNCHANGED <<usable_pages, lists, buddies, boot, held>>

-----------------------------------------------------------------------------

\* unsafe_mark_memory_usability
MarkUsability(b, n, usable) ==
  /\ pc = "idle"
  /\ PageRange(b, n) \cap free_pages = {}
  /\ usable_pages' = IF usable THEN usable_pages \cup PageRange(b, n) ELSE usable_pages \ PageRange(b, n)
  /\ held' = IF usable THEN held \cup PageRange(b, n) ELSE held \ PageRange(b, n)
  /\ UNCHANGED <<free_memory, free_pages, lists, buddies, pc, boot, locals>>

\* memory__init: the pages of the next free entry become usable and are released.
BootEntry ==
  LET b == Head(mmap)[1]
      size == Head(mmap)[2] - b IN
  /\ pc = "boot" /\ mmap # <<>>
  /\ mmap' = Tail(mmap)
  /\ available_memory' = available_memory + size
  /\ usable_pages' = usable_pages \cup PageRange(b, size)
  /\ PageRange(b, size) \cap free_pages = {}
  /\ StartRelease(b, size)
  /\ UNCHANGED <<free_memory, free_pages, lists, buddies, booted, held>>

\* All entries are released: assert(available_memory == MemGlobals.free_memory).
BootDone ==
  /\ Goto("boot", "idle")
  /\ mmap = <<>>
  /\ available_memory = free_memory
  /\ booted' = TRUE
  /\ UNCHANGED <<accounts, lists, buddies, mmap, available_memory, locals, held>>

Init ==
  /\ mmap \in MemoryMaps
  /\ free_memory = 0 /\ usable_pages = {} /\ free_pages = {} /\ available_memory = 0
  /\ freelist = [k \in Classes |-> NULL]
  /\ buddies = [k \in BuddyClasses |-> {}]
  /\ next = [p \in Pages |-> Garbage]
  /\ prev = [p \in Pages |-> Garbage]
  /\ tag = [p \in Pages |-> Garbage]
  /\ pc = "boot" /\ booted = FALSE
  /\ exact = FALSE /\ begin = 0 /\ count = 0 /\ class = 0 /\ page = 0 /\ remaining = 0
  /\ held = {}

\* The call in progress goes on.
Step ==
  \/ BootEntry \/ BootDone
  \/ ScanNext \/ ScanFound \/ ScanFails \/ ScanFallsBack
  \/ FallbackNext \/ FallbackFound \/ FallbackFails
  \/ Take \/ SplitUpper \/ SplitLower \/ SplitDone \/ HandOut
  \/ Merge \/ AddBlock \/ ReleaseDone

\* A client makes a call.
Call ==
  \/ \E n \in 1 .. MaxRequest, ex \in BOOLEAN : AllocRaw(n, ex)
  \/ \E b \in Pages, n \in 1 .. MaxRequest : ReleasePages(b, n)
  \/ \E b \in Reserved, usable \in BOOLEAN : MarkUsability(b, 1, usable)

Next == Step \/ Call

Spec == Init /\ [][Next]_vars

\* A call that has begun goes on; nobody has to make one.
FairSpec == Spec /\ WF_vars(Step)

-----------------------------------------------------------------------------
(* Properties *)

\* The first PageCount + 1 pointers met when following a free list.
Walk(k) ==
  LET ptr[n \in 0 .. PageCount] ==
        IF n = 0 THEN freelist[k]
        ELSE LET block == ptr[n - 1] IN IF block \in Pages THEN next[block] ELSE NULL
  IN  ptr

\* The blocks on the free list of class k.
Blocks(k) == LET ptr == Walk(k) IN {ptr[n] : n \in 0 .. PageCount} \ {NULL}

PagesOf(k) == UNION {PageRange(b, Pow2[k]) : b \in Blocks(k)}

TypeOK ==
  /\ free_memory \in 0 .. PageCount
  /\ usable_pages \subseteq Pages /\ free_pages \subseteq Pages /\ held \subseteq Pages
  /\ freelist \in [Classes -> Pages \cup {NULL}]
  /\ DOMAIN buddies = BuddyClasses
  /\ \A k \in BuddyClasses : buddies[k] \subseteq 0 .. PageCount \div Pow2[k + 1] - 1
  /\ \A f \in {next, prev} : f \in [Pages -> Pages \cup {NULL, Garbage}]
  /\ tag \in [Pages -> Classes \cup {Garbage}]
  /\ pc \in {"boot", "idle", "scan", "fallback", "take", "split", "return", "release"}
  /\ available_memory \in 0 .. PageCount /\ booted \in BOOLEAN /\ exact \in BOOLEAN
  /\ begin \in 0 .. PageCount /\ page \in 0 .. PageCount
  /\ count \in Nat /\ remaining \in 0 .. count
  /\ class \in -1 .. CLASS_COUNT

\* Every free list is a doubly linked list that ends, of aligned blocks that
\* carry the class of the list; and every variable has its type.
ListsWellFormed ==
  TypeOK /\ \A k \in Classes :
    /\ Walk(k)[PageCount] = NULL
    /\ freelist[k] # NULL => prev[freelist[k]] = NULL
    /\ \A b \in Blocks(k) : /\ b \in Pages /\ is_aligned(b, k) /\ tag[b] = k
                            /\ next[b] # NULL => prev[next[b]] = b

\* validate_heap: the sizes of the listed blocks of the first n classes ...
calculated_free_memory[n \in 0 .. CLASS_COUNT] ==
  IF n = 0 THEN 0
  ELSE calculated_free_memory[n - 1] + Pow2[n - 1] * Cardinality(Blocks(n - 1))

\* ... add up to free_memory, and each block has the class of its list.
HeapValid ==
  /\ \A k \in Classes : \A b \in Blocks(k) : tag[b] = k
  /\ calculated_free_memory[CLASS_COUNT] = free_memory

\* Every assertion of the allocator holds when the code reaches it: those of
\* alloc_raw, of release_pages and the list functions below it, of
\* memory__init, and validate_heap whenever no call is in progress.
AssertionsHold ==
  /\ pc = "take" => TakeAsserts
  /\ pc = "split" /\ class > 0 => SplitAsserts
  /\ pc = "release" /\ remaining > 0
       => /\ is_aligned(page, class)
          /\ class \in BuddyClasses /\ BuddyIsFree => RemoveAsserts(Buddy(page, class), class)
  /\ pc = "boot" /\ mmap = <<>> => available_memory = free_memory
  /\ pc = "idle" => held \subseteq usable_pages /\ held \cap free_pages = {}
  /\ pc \in {"boot", "idle"} => HeapValid

\* Between calls the accounts of free memory agree: the listed blocks together
\* are the pages of free_pages, as many as free_memory says (with HeapValid: no
\* two blocks overlap), and every usable page is either free or held by a client.
AccountsAgree ==
  pc \in {"boot", "idle"} =>
    /\ UNION {PagesOf(k) : k \in Classes} = free_pages
    /\ Cardinality(free_pages) = free_memory
    /\ free_pages \cup held = usable_pages /\ free_pages \cap held = {}

\* A buddy bit is set exactly when one of the two buddies, and not the other,
\* is on the list of its class; both never are.
BuddyBitsExact ==
  \A k \in BuddyClasses :
    LET listed == Blocks(k) IN
    \A p \in {q \in Pages : is_aligned(q, k + 1)} :
      /\ BuddyIndex(p, k) \in buddies[k] <=> (p \in listed <=> Buddy(p, k) \notin listed)
      /\ ~(p \in listed /\ Buddy(p, k) \in listed)

\* The allocator never writes to a page that a client holds, and never hands
\* out a page that a client holds or that is still on a list.
ClientsUndisturbed ==
  /\ \A p \in held : next[p] = Garbage /\ prev[p] = Garbage /\ tag[p] = Garbage
  /\ pc = "return" => /\ PageRange(begin, count) \cap held = {}
                      /\ \A k \in Classes : PageRange(begin, count) \cap PagesOf(k) = {}

\* Between calls, aligned free pages that would make a block lie in one block:
\* no sequence of calls leaves memory split that could be merged.
FullyMerged ==
  pc \in {"boot", "idle"} =>
    LET runs == UNION {{PageRange(b, Pow2[k]) : b \in Blocks(k)} : k \in Classes} IN
    \A k \in Classes, p \in Pages :
      is_aligned(p, k) /\ PageRange(p, Pow2[k]) \subseteq free_pages
        => \E run \in runs : PageRange(p, Pow2[k]) \subseteq run

\* What clients see: the pages they may be given, and the request being served.
Available == usable_pages \ held
Allocating == pc \in {"scan", "fallback", "take", "split", "return"}
Pending == [n |-> IF Allocating THEN count ELSE 0, exact |-> Allocating /\ exact]

Pool == INSTANCE PagePool WITH
  ClassCount <- CLASS_COUNT, pool <- Available, out <- held, request <- Pending

\* Seen by its clients the allocator is a pool of pages: what it is given back is
\* at once free again, what it hands out is a run of as many free pages as were
\* asked for, and it refuses or hands out less only if there is no block for the request.
RefinesPool == Pool!Spec

\* A request that is not exact and cannot be met gets as many pages as the longest
\* run of free pages has: the comment on alloc_raw (memory.c:60) says "return the
\* largest contiguous number of pages that exist".  The code looks at single blocks
\* only, so this does not hold.
LongestRun ==
  [][pc = "fallback" /\ pc' = "take" =>
       \A b \in Pages, n \in 1 .. count : PageRange(b, n) \subseteq free_pages => n <= count']_vars

\* Every call returns.
CallsReturn == pc # "idle" ~> pc = "idle"
=============================================================================
