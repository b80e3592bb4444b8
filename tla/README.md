# Verification of the dumboss kernel

This directory holds TLA+ models of the parts of the dumboss kernel that keep
state, the TLC configurations that check them, and TLAPS proofs of what matters
most about them. Paths below are relative to the repository; `PROJECT.json`
maps every definition that models code to its lines.

## 1. Inventory

dumboss is a small x86_64 kernel. BOOTBOOT loads it and starts `_start` on every
core; all but the boot core halt (`kern/main.c:35`). The boot core runs
`memory__init`, `descriptor__init`, `tasks__init` and `task_begin`, looks once
for a task and shuts the machine down. Nothing is persisted and there is no
network: what is hard here is code meant for many cores (the task ring, the bump
allocator, the logger), long sequences of legal calls on intrusive data
structures (the page allocator, the page tables), and a boot that rebuilds the
ground it stands on.

| Part | State | Operations | What makes it correct |
|---|---|---|---|
| Task ring, `kern/multitasking.c` | slots with a four-valued `sync_info`, counters `read_from`, `write_to`, `next_id` | `enqueue_task`, `dequeue_task` on any core, without a lock | a slot has one owner; no task is lost, doubled or torn; counters stay within a lap; calls return |
| Bump allocator, `lib/basics.h` | one atomic index | `Bump__new`, `Bump__bump_impl`, without a lock | regions are disjoint and inside the memory; NULL only when full; calls return |
| Page allocator, `kern/memory.c` | free lists inside the free pages, buddy bits per class, `usable_pages`, `free_pages`, `free_memory` | `alloc_raw` (and `raw_pages`, `try_raw_pages`, `zeroed_pages`), `release_pages`, `unsafe_mark_memory_usability`, `validate_heap` | its accounts agree, no assertion fails, clients' pages are left alone, free memory is fully merged |
| Bit sets, `lib/bitset.h` | an array of words | get, set, and on ranges count, all, any, set | the word-by-word paths do what bit-by-bit ones would |
| Memory map at boot, `memory__init` lines 103-173 | BOOTBOOT's map, sorted and eaten up in place | `SLOW_SORT`, `alloc_from_entries`, release of the rest | no free memory lost or used twice; only whole free pages reach the allocator |
| Page tables, `kern/page_tables.c` | four-level trees of frames | `map_page`, `map_2MB_page`, `map_region`, `copy_mapping`, `translate`, `region_size`, `destroy_table`, `destroy_bootboot_table` | tables are trees; a mapping disturbs no other; frames are neither lost nor freed twice |
| Switch of tables, `memory__init` lines 176-218 | cr3, old and new table | shift the identity map, build, copy, load cr3, destroy the old one | the kernel's code, data and stack and all memory stay mapped at every step |
| Logger, `kern/__lib_impl__.c`, `Mutex` in `lib/sync.h` | a mutex, one buffer, the serial port | `ext__log`, `ext__log_fmt` | lines are sent whole; calls return; errors end the kernel |
| Formatting, `lib/basics.h` | the buffer of the logger | `any__fmt`, `any__fmt_any`, number conversion, `strcpy_s` | a line is what format and arguments mean, clipped; mistakes are named; nothing behind the buffer is written |
| Start-up, `kern/main.c` | none | `_start`, `init` | the boot ends, and crashes only for known reasons |
| Descriptor tables, `kern/descriptor_tables.c` | GDT, TSS, gdtr, cs | `descriptor__init`, `load_gdt`, `tss_segment` | the entries lead to the TSS and to the code segment |
| Interrupts, `kern/interrupts.c` | IDT, idtr | `load_idt`, `Idt__double_fault` | an exception reaches its handler |
| Workers, `kern/multitasking.c` | an array of workers named by core id, two counters, rings | `tasks__init`, `task_begin`, `get_worker_index`, `add_task_inner`, `task_main` | each core has its own worker |
| Build tool, `build/*.go` | a cache of time stamps | build in a container | not part of the kernel |

How they interact: the allocator uses the bit sets and is filled from the memory
map; page tables take frames from the allocator and give them back; the switch
of tables runs on both; bump allocators take pages from the allocator; descriptor
tables, IDT and workers are cut from one of them (`InitAlloc`); every part logs. Cores share the rings, the bump allocators and the logger. The page
allocator and the page tables have no lock and rely on being used by one core.

`PROJECT.json` lists the hazards of this code, each with the properties
aimed at it, or the reason why there is none yet.

## 2. Modules

A module `X` has its small instance, if it runs by itself, in `MCX` and its proofs, if any, in
`XProofs`; those of BumpAlloc are in BootProofs. **Powers** has the powers of two
that sizes are made of.
Definitions called "Mutant" are variants of the definition below them
with a plausible bug, which some property must detect; no specification
uses them.

**TaskQueue** models `enqueue_task` and `dequeue_task` with one action for every
atomic access and every store to a slot. Slots and counters are the code's;
`pc`, `my_write`, `my_read`, `upper_bound`, `my_task` are the locals of each core;
`submitted`, `taken` and `callers` are history. Two peculiarities are kept: a success moves
no counter, and after moving a counter a core tries the same slot again.
**TaskBag** is what the ring promises: a bag of at most `TaskCount` tasks.
`RefinesBag` maps the occupied slots to the bag.

**BumpAlloc**, which Boot uses, models the loop of `Bump__bump_impl`: load, test, compare-exchange,
retry. Offsets count from the beginning of the memory, which is page-aligned;
`regions` is history.

**Boot** runs the kernel from `_start` to `exit` on top of BumpAlloc. `at` is the
step a core is about to take, `cont` where it goes on after a line is logged;
`gdtr`, `cs`, `tr` and `idtr` are the registers of each core; `gdt`, `tss`, `workers`,
`rings` are the memory behind them. An address is a function from byte numbers to
bytes, so that taking one apart and putting it together again
(`TssLow`, `IdtEntry__set_handler`) is checked and not assumed. An exception may
strike between any two steps (`Fault`), and the program may cause one itself where it
uses a NULL; `Deliverable` is what the processor makes of it, and is external. Only
double faults have a gate, so every exception becomes one; without delivery
the processor resets. A machine says how many cores it has and which of them are
let on to `task_begin`: only the boot core at this commit, others in some of the
machines, because the code behind the parking loop is written for them (such a core has
no GDT of the kernel and is followed up to its own IDT). `room` is how often
`zeroed_pages(2)` still succeeds; `Bump__new(4)` of `tasks__init` may fail with any of it
left, because four pages in a row are more than two times two. `memory__init` is one step here; MemoryMap and
KernelTables have its inside. A ring is a bag, as TaskQueue shows for one core.

**Format** models how a line gets into the buffer: one action per element of the
format or value of `ext__log`, early returns included. A text is a sequence of characters; a
String is the cell it begins at and the cell behind its end; cells behind the buffer
are part of the model so that an overrun can be seen. The second half of the
module says what a call should do without following the code: which `%` open a
specifier (an even number of `%` stands before them), which argument belongs to
which place, and what a number looks like in decimal. Logger takes it from there:
its lines and its malformed calls are Format's "sent" and "failed".

**PageAlloc** models the buddy system with one action per loop iteration. The
fields `next`, `prev` and the class of a `FreeBlock` are functions on pages, so that
writing into a client's page can be seen; a client's page holds `Garbage`. Each
assertion is a guard, and `AssertionsHold` says that no call gets stuck at
one. It starts with the release loop of `memory__init`. Its bit sets are sets of
numbers, which BitSet justifies. **PagePool** is what the allocator promises its clients,
without lists and buddies: a set of pages that can be handed out, a set that is out, and
a request. A request is answered with a run of pages of the pool, or refused if no
aligned block in the pool holds it; `try_raw_pages` settles for the largest block first.
In this PagePool follows the code, not the comment on `alloc_raw` (finding 3).
`RefinesPool` maps the usable pages that no client has to the pool and the call of
`alloc_raw` in progress to the request.

**BitSet** models an array of words as sets of bits. `Slow` and `Fast` are the
single bits and the whole words into which the range operations divide a range.

**MemoryMap** models the first half of `memory__init`. It counts in words of 64
bits, because BOOTBOOT's addresses are multiples of 16 bytes and every
alignment is 8. `bitsets` is what `alloc_from_entries` has cut off. A failed assertion ends it in a state of its own
("no memory", "bad range").

**PageTables** models the tables as functions from frames to entries. A step of
`map_page` is one level, a step of `map_region` one page, a step of the recursive
destroy one entry, with the C call stack as the sequence `destroy`. The
allocator is the set `free`: an allocation of one page fails only if it is empty
(`RefinesPool` of PageAlloc). Addresses are page numbers, whose indices are taken
by shifting nine bits at a time (`shifted`); flags are the set
of what they allow, `{"W", "X"}`. Callers may map small pages inside a 2MB page,
which the code does not notice: it writes into the page (`StrayLeaf`). The model leaves
all tables alone then, because it keeps the frames of tables and of data apart; in the
kernel the linear map covers both, and such a write could hit a table. That
`memory__init` never does so is checked in KernelTables (`WalksLiveTables`).
**AddressSpace** is what tables promise: partial functions from pages to frames
that grow by aligned blocks and disappear as a whole.

**KernelTables** extends PageTables with the second half of `memory__init`. The tables
BOOTBOOT leaves behind are external; `Layouts` is the set of mappings it may have
made, `Memories` the frames the allocator may have left. `stage` is where `memory__init` is, and the steps of each call are those of
PageTables.

**Logger** models both log functions, which differ only in how the line is
formatted. A character is the pair of its call and its place, so that mixing can
be seen. A malformed call (`bad`) takes the code's error path: a nested call with
the mutex held, then `exit(1)`. `UseInterrupts` is never set in the code.

## 3. Runs

| Run | Shows | Bounds |
|---|---|---|
| `queue` | exclusion, nothing lost, delivered once, one lap, refinement of TaskBag; calls return; "full" and "empty" mean it while one core has the ring to itself | 2 cores, 2 slots, 5 enqueues |
| `boot` | tables and workers disjoint, exceptions handled, crashes justified, own workers; the machine stops | 17 machines of 1 to 112 cores, real sizes, 0 to 60 successful calls of `zeroed_pages`, 1 exception, 2 tasks |
| `pages` | lists, accounts, buddy bits, assertions, clients, merging, refinement of PagePool (justified failures); calls return, the boot loop included | 8 pages, 3 classes, 3 memory maps, requests up to 5 |
| `pages_longest` | finding on `try_raw_pages` | the same |
| `bits` | queries, count and updates are exact | words of 4 bits, 10 bits |
| `map` | memory accounted for, pages exact, bits within | all maps of 4 entries over 22 words, pages of 4 |
| `map_range` | finding on `memory__init` | the same |
| `tables` | trees, frames, justified refusals, refinement of AddressSpace; calls return | tables of 2 entries, 4 table frames, 3 data frames |
| `kernel` | kernel mapped, code executable, memory reachable, panics justified; the boot ends with the old tables given back | tables of 4 entries, 9 layouts, 12, 8, 6, 3 or no free frames |
| `format` | lines and complaints exact, nothing behind the buffer | all formats of up to 4 characters over `a`, `%`, `f`, up to 2 arguments of 9 values, 3 file names, buffer of 12, numbers of 8 bits |
| `log` | lines are whole; calls return unless one is malformed | 3 cores, 3 calls, buffer of 3, lines of 1, 3 and 4 |
| `log_error` | finding on the error path of the logger | 2 cores |

Why the bounds suffice for the interesting cases:

- Two slots and two cores let a writer and a reader meet in a slot and let each
  core move a counter under the other. Five enqueues fill the ring, are refused,
  and reuse slots, and the counters go round more than once. The proofs
  extend the safety properties to any number of cores; that calls return is
  checked for two. Alone, one core fills the ring, empties it and goes round it
  twice. `AnswersExact` depends on an even number of slots (the ring has 204):
  with three, one core is told "full" while slot 0 is empty, because after a
  compare-exchange that succeeds it looks at the same slot again.
- Eight pages and three classes have merges over two levels, blocks of the largest
  class next to each other (which must not merge), maps that begin and end
  inside blocks, and requests that are no power of two.
- Words of four bits and ten bits give ranges within a word, over a boundary, over
  two whole words, and into the last, partial word.
- 22 words are five pages and a half and three bit sets' worth of slack: entries that
  are too small for a bit set, that carving uses up, that hold no whole page, and
  every order of free and used.
- Four table frames are one path of a tree, so a second branch or tree runs
  out at every level. Tables of two entries have a 2MB page of two pages;
  Virtuals holds page 0 (refused), pages in and out of a 2MB block and the
  last page (`map_region` wraps around). In KernelTables tables of four entries let
  the kernel, the frame buffer and the linear map share and not share tables.
- Lines of 1, 3 and 4 characters are short, exactly fit, and are clipped.
- The sizes in `boot` are the real ones: with 54 workers the IDT still fits into
  InitAlloc, with 55 it does not, and 112 workers do not fit themselves. Two cores
  let on at once race for a worker and for the room of an IDT. Memory ends
  before each call of `zeroed_pages` in turn.
- The prefixes in `format` are 8, 12 and 13 characters for a buffer of 12. The
  numbers include 0, the largest and the least; the formats have a `%` at the
  end, escaped and unknown specifiers, and more and fewer places than arguments.

Fairness. Every liveness property assumes weak fairness of the steps of a core
inside a call, and nothing else: the kernel runs with interrupts off or returns
from them, so a core that is inside a function goes on executing. Nobody has to
make a call. The compare-exchange loops and the spin lock are not fair to a core;
`CallsReturn` of TaskQueue and Logger and `Ends` of Boot hold because a core loses only to
the progress of another, of which there is a bounded amount: the ring has only
so many slots, the bump allocator so much memory, and the number of enqueues and
of log calls is bounded (`MaxEnqueues`, `MaxCalls`). For the logger that means: a
call returns once the other cores stop logging, unless a malformed call has
stopped the logger for good (finding 1). In Boot the parked cores and exceptions
are not fair: nothing has to happen to them. Dequeues are not bounded.

Deadlock is checked in every run. Where a bound on calls is used up, the models
with a bound have an explicit resting step (`Rest`), enabled only when no core is
inside a call. Boot rests (`Over`) only when the machine has stopped or a core waits
for the mutex it holds itself.

### Findings

1. The error path of `ext__log_fmt` waits for the mutex it holds (`log_error`).
2. A free entry that lies inside one page fails an assertion at boot (`map_range`).
3. `try_raw_pages` returns the largest block and not, as the comment on `alloc_raw` says,
   the largest contiguous number of pages (`pages_longest`; `memory.c:60`).

The other exceptions that properties make are weaknesses of the code. The models have
each of them as a step and the property names it, so no property catches it:

- `copy_mapping` never advances `virt`: on a mapping that BOOTBOOT has made of two pieces it
  fails, and `memory__init` panics with memory left (`PanicJustified`;
  `page_tables.c:106`).
- An exception inside the logger leaves its handler waiting for the mutex for ever, and
  its `panic` is not reached (`Ends`; `interrupts.c:143`), for the same reason as in
  finding 1.
- `ext__log_fmt` stops at an assertion, with the mutex held, when file name and line
  number alone are longer than the buffer; `ext__log` has a `min` there (`CallExact`;
  `__lib_impl__.c:81`).
- InitAlloc is two pages on every machine: 55 cores leave no room for the IDT,
  which is asserted; 112 leave none for the workers, which is not
  (`CrashJustified`; `multitasking.c:51`). A second IDT never fits.
- The pages of a ring and of the exception stack are used unchecked
  (`CrashJustified`, `FaultsHandled`; `multitasking.c:56`, `descriptor_tables.c:71`).
- With more than one core let on, core 0 may take another's worker, and the boot
  core fails in `ltr` when it is not first, because the GDT has one TSS
  (`OwnWorker`, `CrashJustified`; `multitasking.c:132`).
- The mutex of the logger is not fair: a core waits as long as others keep logging
  (`CallsReturn` has a bounded number of calls; `__lib_impl__.c:76`).

Noticed while modelling, without a run of their own: the comment on `WorkerState`
gives the amount queued as `write_to - read_from`, but a successful call moves
neither counter (`multitasking.c:23`); `alloc_raw` for more than 2^CLASS_COUNT pages
starts its search behind the last class, because `RANGE` stops on `!=`
(`memory.c:364`; nobody asks for so many, and PageAlloc keeps `MaxRequest` below); the
branch of `ext__log_fmt` for "too many parameters" cannot be reached
(`ComplainsOfParameter`; `__lib_impl__.c:83`); clearing `usable_pages` and `free_pages`
may write up to 504 bytes behind what was carved for them (`memory.c:145`).

## 4. Proofs

All are for every value of the constants under the ASSUMEs of the modules (sizes
are natural numbers, not zero where a division needs it; data values
differ from the null value), so for any number of cores and calls.

**TaskQueueProofs.** `Inductive` proves `IndInv`: TypeOK, CounterInv, SlotExclusion,
TaskInv and NothingLost. The safety properties are not inductive alone. That
nothing is lost needs that a writer's id is its own and is in its slot
(TaskInv), which needs that nobody else writes the slot (SlotExclusion); that the
counters stay within a lap needs that bounds read earlier are still on the
safe side of the counters (CounterInv). From it: `TypeCorrect`, `Exclusive`,
`LosesNothing`, `DeliversOnce`, `WithinOneLap`, the action property `Climbs`, and
`ImplementsBag`, where publishing is adding to the bag, clearing is taking
out and every other step stutters.

**BootProofs**, on the bump allocator. `IndInv` adds to Disjoint and InBounds that the
index a core has read is not above the present one. With the lemmas on `align_up` (it
does not go down, and is monotonic) it gives `NoOverlap`, `StaysInBounds` and
`NullOnlyWhenFull`: a NULL decided on a stale index is right, because the index
only grows. The last is proved and not checked in a run: in the boot only requests of
one size race, so that a NULL on a stale index does not occur there.

**BootProofs**, on the boot. Every step of Boot is a step of BumpAlloc or leaves it
alone (`BootUsesBump`), so that `TablesApart` and `RefusedOnlyWhenFull` follow for any
machine. The rest needs `BootInv`, which is about the `place` of each core, the step it
is at or comes back to when its line is logged. *Cast*: the boot core is alone until
there are workers, and after an exception it comes only to the handler and to exit.
*Descriptors*: how far GDT, TSS, gdtr, cs, tr and idtr have come at each of its steps;
that an exception is delivered once tr is loaded follows from it. *Budget*: how much of
InitAlloc is used at each step up to the workers, without which one could not say that a
NULL there means too many cores. *Claims*: `init_count` is the number of cores that have
claimed a worker, each has another one, and stores its id where it finds it again. From
it: `ExceptionsReachHandler`, `CrashesJustified` and `WorkersOwn`. Assumed of a machine:
its boot core is among the cores let on, these are finitely many and no more than
`numcores`.

**PageAllocProofs.** `Invariant` proves `IInv`, from which all that the run `pages`
checks except liveness follows, for any number of pages and classes, any memory map and
any sequence of calls: `ListsAreWellFormed`, `NoAssertionFails`, `AccountsAlwaysAgree`,
`BuddyBitsAreExact`, `ClientsStayUndisturbed`, `MemoryStaysMerged` and
`ImplementsPool`. The lists are threaded through the free pages, so the central
part, *ListsMatch*, says what they stand for: there are sets of blocks `B`, one for each
class, such that the links of each list run exactly through its blocks (they have ranks
that fall along `next`, so that there is no cycle), blocks are aligned and do not overlap,
a buddy bit is set where one of two buddies is a block, which both never are
(*Shape*), and the blocks together with the block in the hands of the call are the free
pages together with those the call has brought back so far (*Coverage*). *Books* says
which pages are free, held or in hand, and that nothing is written into a client's page;
*Underway* what each step of a call knows of its locals. Blocks of two sizes are nested or
apart (`Nested`), which keeps a split and a merge from touching others. That
`validate_heap` and the accounts count the same is an induction over the classes
(`CoverCount`), that free memory is merged one over the class of a free block (`Merged`).
`ImplementsPool` goes through the actions: `Merged` turns an aligned block of free pages
into a listed one at least as large (`RoomIsListed`), so an empty search means that the
pool has no room. It needs a little more than `IInv` (*Asked*): a fallback knows that all
larger lists are empty and that the classes left are too small, and what was taken
begins where a block that holds it may begin.
Assumed: `PageCount` is a multiple of the largest block, as `memory__init` makes it; no
request is larger than that block.

**MemoryMapProofs.** `MInv` says how far SLOW_SORT has come (*Sorting*: the entry at
`left_index` is free only if all before it are, and so is every entry behind
`right_bound`), that entries and bit sets are apart and below the end of memory (*Laid*),
that each bit set has the size asked for (*Carving*), that exactly the whole pages of the
entries before `entry` have been released (*Releasing*), and that entries and bit sets
make up what BOOTBOOT offered (*Accounted*). `NothingLostAtBoot`, `PagesAreExact` and
`BitsStayWithin` follow, for maps of any length and any sizes of words, pages and
classes. Assumed: the map is not empty and its entries are ordered by address and do not
overlap, as BOOTBOOT promises; without the order the last entry would not give
`end_address`.

**FormatProofs.** `IndInv` says that the String any__fmt works on always ends with the
buffer (Str__suffix moves only the beginning), and that no more arguments are used than
there are. `StaysInBuffer` and `ComplainsOfParameter` follow, for any buffer, format
and arguments.

**BitSetProofs.** The lemma `Covered` says that Slow and Fast make up a range,
for any width of a word. `Updates` and `Queries` follow from it and
from the uniqueness of quotient and remainder. So does `WordsInArray`: the whole words and
single bits of a range lie in the words that `Count` bits take up, and these are the
words of set_all's loop. The model's updates are functions on the array, so that no
invariant of it could say this. `Counts` adds an induction over
the words: the ones of a word are as many as its bits in the range, and the ranges of
two words share none.

**LoggerProofs.** `IndInv` says that the mutex has one owner, also while it waits for
itself in the error path (MutexInv), that the owner's line is in the buffer and
its last sent character last on the serial port, and that a newline is last there
between lines (SendInv). `SentWhole` follows.

**PageTablesProofs.** `Invariant` proves `IndInv`, for tables of any number of entries,
any frames and any sequence of calls. `TreeShaped` only counts the entries that lead to a
table, which is not inductive by itself; what makes it true is that tables have levels.
The code does not store them, so the invariant says that there is *some* assignment
`L` of levels to frames for which all of this holds (`Shape(L)`): roots are on level
4 and an entry leads one level down, to a table that is neither free nor a root
(*Branches*), or, when it is huge or on level 1, to data (*Entries*); no two entries lead to one
table (*Unshared*), every table hangs somewhere (*Attached*), and none of the last level
is empty unless a walk stands in it (*Filled*). `destroy_table` does not clear the entries it follows, so
those it has been at count no longer: they lead to tables on its stack or to free
frames (*Visited*, *Stack*). A walk stands where the indices of its page
lead (*WalkOnPath*), in a table of its level or, through the entry of a 2MB
page, in data. From it:

- `FramesAreAccounted` and `TablesFormTrees`, also when calls fail half-way;
- `ImplementsSpace`: hanging a table into a tree is invisible to `translate`
  (`GrowSpace`), so is releasing what no root leads to (`ReleaseSpace`), and the last
  entry of a walk maps exactly the pages of its block in its own tree
  (`SetLargeSpace`, `SetSmallSpace`). The last needs that two walks that meet in a table
  have come the same way (`SameWay`) and that the indices of a page determine it
  (`SameIndices`), which is where the arithmetic of `page_table_indices` enters;
- `FailuresAreJustified`: a block is refused because of another large page or because of a
  table, which by *Filled* has a page in it.

Assumed: a table has at least two entries, frames of tables and of data differ and are
not NULL, and callers name pages that four indices distinguish.

Where a proof needs division with remainder, multiples, powers of two, or induction over
numbers, its module begins with these lemmas. Induction is in a form the provers
can use: the least element of a set of numbers (`Least`), and from it that a set that
has 0 and every successor has all (`SetInduction`).

The type invariants of TaskQueue, BumpAlloc, Logger, PageAlloc, MemoryMap and
PageTables are proved (the last three as part of ListsWellFormed, MemoryAccounted and
TreeShaped).

Only model-checked: all liveness (the prover has no fairness or ENABLED);
`CallExact`, which depends on the digits the number conversion writes, so on recursion
over sequences; `WalksLiveTables`, `KernelStaysMapped` and `PanicJustified` of KernelTables,
which are about the layouts BOOTBOOT makes and about the flags along a path, of which the
invariant of PageTables says nothing;
`AnswersExact`. The properties of the findings are false.

## 5. Not modelled, and why

- `traverse_table`, `mem_fmt` and the boot messages only log. The conversion of
  floating-point numbers is compiled out; `current_gdt` and the functions on the APIC
  base are not called.
- What a task does: `task_main` takes one and exits (`multitasking.c:123`).
- Two cores inside the page allocator: it has no lock, nothing in the repository says
  it may be shared, and main.c parks the other cores.
- `macros.h`, `types.h`, `magic.h`, `asm.h`: syntax, constants and single
  instructions. Where a macro decides behaviour (RANGE compares with `!=`, SLOW_SORT)
  it is in the module of its user.
- The build tool is not part of the kernel.
- Weak memory: `lib/sync.h` makes all atomics sequentially consistent, and plain
  accesses to slots lie between them.
- Widths: counters are 64 bits and do not wrap in practice; sizes are below
  2^63. The unsigned subtraction in `alloc_from_entries` (`memory.c:235`) would wrap
  for an entry shorter than its alignment gap; BOOTBOOT's addresses leave no gap.

## 6. Plan

The parts of the kernel that keep state are modelled. Left to do, in this order:

1. Proofs about KernelTables, from those about PageTables: that a walk of `memory__init`
   never meets a page that is mapped already (so `WalksLiveTables`), and that the old
   table is left alone until it is destroyed.
2. When other cores are let on: Boot with their GDT and TSS, and the page allocator
   under a lock.
