----------------------------- MODULE PageTables -----------------------------
(***************************************************************************)
(* The page tables of the kernel (kern/page_tables.c): four-level trees    *)
(* that map_page, map_2MB_page, map_region and copy_mapping fill in and    *)
(* destroy_table gives back.                                               *)
(*                                                                         *)
(* Addresses are page numbers.  A virtual page has one index per level; a  *)
(* table is one frame that holds EntryCount entries.  A step of a walk is  *)
(* one level, a step of map_region one page, a step of destroy one entry.  *)
(* The allocator behind zeroed_pages and release_pages is a set of free    *)
(* frames: an allocation fails only when the set is empty, which is what   *)
(* PageAlloc shows for requests of one page.                               *)
(*                                                                         *)
(* One core runs.  map_page takes the entry of a 2MB page for a pointer to *)
(* a table; nothing but the care of its callers keeps it from writing into *)
(* the page (StrayLeaf, WalksLiveTables).                                  *)
(***************************************************************************)
EXTENDS Integers, Sequences, SequencesExt, FiniteSets

CONSTANTS
  EntryCount,   \* ENTRY_COUNT: entries of a table, and 4KB pages in 2MB
  TableFrames,  \* frames of the allocator, used for tables
  DataFrames,   \* frames that are mapped, numbered from 0
  Virtuals,     \* virtual pages that callers name
  Counts,       \* lengths, in pages, that callers name
  Flags,        \* PTE_KERNEL, PTE_KERNEL_EXE, ... : what an access may do
  NULL

ASSUME EntryCountAssumption == EntryCount \in Nat \ {0, 1}
ASSUME FramesAssumption == DataFrames \subseteq Nat /\ NULL \notin Nat \cup TableFrames
                           /\ TableFrames \cap DataFrames = {}

\* The pages that four indices distinguish
VPageCount == EntryCount * (EntryCount * (EntryCount * EntryCount))
VPages == 0 .. VPageCount - 1
Indices == 0 .. EntryCount - 1
_2MB == EntryCount

ASSUME CallersAssumption == Virtuals \subseteq VPages /\ Counts \subseteq Nat

VARIABLES
  free,     \* frames zeroed_pages can return
  usable,   \* MemGlobals.usable_pages: frames release_pages accepts
  tables,   \* [frames that are tables -> [Indices -> Entry]]
  roots,    \* the level 4 tables in use
  pc,       \* the innermost function that runs
  walk,     \* locals of map_page or map_2MB_page
  region,   \* locals of map_region
  copy,     \* locals of copy_mapping
  destroy,  \* the call stack of destroy_table_inner
  result    \* what the last call returned

locals == <<pc, walk, region, copy, destroy, result>>
vars == <<free, usable, tables, roots, locals>>

Entry == [frame : TableFrames \cup DataFrames \cup {NULL}, flags : Flags \cup {{}}, huge : BOOLEAN]
NoEntry == [frame |-> NULL, flags |-> {}, huge |-> FALSE]
ZeroedTable == [i \in Indices |-> NoEntry]
None == <<>>

is_aligned(v, n) == v % n = 0

\* page_table_indices: the index of a page in a table of a level
shifted(v) ==
  LET p2 == v \div EntryCount
      p3 == p2 \div EntryCount
      p4 == p3 \div EntryCount
  IN <<v, p2, p3, p4>>
index(v, level) == shifted(v)[level] % EntryCount

EntryAt(t, v, level) == tables[t][index(v, level)]

translate(p4, v) ==
  LET e4 == EntryAt(p4, v, 4)
      e3 == EntryAt(e4.frame, v, 3)
      e2 == EntryAt(e3.frame, v, 2)
  IN IF e4.frame = NULL \/ e3.frame = NULL THEN NULL
     ELSE IF e2.frame = NULL THEN NULL
     ELSE IF e2.huge THEN e2.frame + index(v, 1)
     ELSE EntryAt(e2.frame, v, 1).frame

\* virt += _4KB in 64 bits, as page_table_indices sees it
Plus(v, n) == (v + n) % VPageCount

\* region_size: how many pages from v on have consecutive frames
region_size(p4, v) ==
  LET first == translate(p4, v)
      Expected(i) == translate(p4, Plus(v, i)) # NULL /\ translate(p4, Plus(v, i)) = first + i
  IN IF first = NULL THEN 0
     ELSE CHOOSE n \in 1 .. VPageCount :
            (\A i \in 1 .. n - 1 : Expected(i)) /\ (n = VPageCount \/ ~Expected(n))

-----------------------------------------------------------------------------
(* Returning.  A failure is passed on by every caller up to the outermost. *)

Finish(r) ==
  /\ pc' = "idle" /\ result' = r
  /\ walk' = None /\ region' = None /\ copy' = None /\ destroy' = None

\* zeroed_pages(1): some free frame; the frames of tables differ in nothing else
zeroed_pages(t) ==
  /\ free # {} /\ t = CHOOSE u \in free : TRUE
  /\ free' = free \ {t}

-----------------------------------------------------------------------------
(* map_page and map_2MB_page.  They differ in the level of the last entry. *)

\* ensure(virtual && is_aligned(..)), ensure(kernel && is_aligned(..))
Accepted(v, k, n) == v # 0 /\ k # NULL /\ is_aligned(v, n) /\ is_aligned(k, n)

StartWalk(p4, v, k, f, last) ==
  /\ pc' = "walk"
  /\ walk' = [p4 |-> p4, virtual |-> v, kernel |-> k, flags |-> f,
              table |-> p4, level |-> 4, last |-> last]

WalkEntry == EntryAt(walk.table, walk.virtual, walk.level)

\* The entry leads to the next table.
Descend ==
  /\ pc = "walk" /\ walk.level > walk.last
  /\ WalkEntry.frame # NULL
  /\ walk' = [walk EXCEPT !.table = WalkEntry.frame, !.level = @ - 1]
  /\ UNCHANGED <<free, usable, tables, roots, pc, region, copy, destroy, result>>

\* Mutant: the new table is not entered into its parent.
GrowUnlinked(t) ==
  /\ pc = "walk" /\ walk.level > walk.last
  /\ WalkEntry.frame = NULL
  /\ zeroed_pages(t)
  /\ tables' = [u \in DOMAIN tables \cup {t} |-> IF u = t THEN ZeroedTable ELSE tables[u]]
  /\ walk' = [walk EXCEPT !.table = t, !.level = @ - 1]
  /\ UNCHANGED <<usable, roots, pc, region, copy, destroy, result>>

\* The entry is empty: a new table is hung there.
Grow(t) ==
  /\ pc = "walk" /\ walk.level > walk.last
  /\ WalkEntry.frame = NULL
  /\ zeroed_pages(t)
  /\ tables' = [u \in DOMAIN tables \cup {t} |->
       IF u = t THEN ZeroedTable
       ELSE IF u = walk.table
            THEN [tables[u] EXCEPT ![index(walk.virtual, walk.level)] =
                    [frame |-> t, flags |-> walk.flags, huge |-> FALSE]]
            ELSE tables[u]]
  /\ walk' = [walk EXCEPT !.table = t, !.level = @ - 1]
  /\ UNCHANGED <<usable, roots, pc, region, copy, destroy, result>>

\* zeroed_pages returned NULL: what was hung so far stays.
GrowFails ==
  /\ pc = "walk" /\ walk.level > walk.last
  /\ WalkEntry.frame = NULL /\ free = {}
  /\ Finish(FALSE)
  /\ UNCHANGED <<free, usable, tables, roots>>

\* Mutant: another entry is looked at as well.
LeafTakenFirst ==
  /\ pc = "walk" /\ walk.level = walk.last /\ walk.table \in DOMAIN tables
  /\ {WalkEntry, tables[walk.table][0]} # {NoEntry}
  /\ Finish(FALSE)
  /\ UNCHANGED <<free, usable, tables, roots>>

\* ensure(entries[..] == 0) return false
LeafTaken ==
  /\ pc = "walk" /\ walk.level = walk.last /\ walk.table \in DOMAIN tables
  /\ WalkEntry # NoEntry
  /\ Finish(FALSE)
  /\ UNCHANGED <<free, usable, tables, roots>>

\* diff in map_region
MappedPages == IF walk.last = 2 THEN _2MB ELSE 1

\* map_page returns true; map_region, if it called, goes on behind the page.
WalkDone ==
  \/ region = None /\ Finish(TRUE)
  \/ /\ region # None
     /\ pc' = "region" /\ walk' = None
     /\ region' = [region EXCEPT !.virtual = Plus(@, MappedPages), !.ptr = @ + MappedPages,
                                 !.mapped = @ + MappedPages]
     /\ UNCHANGED <<copy, destroy, result>>

\* Mutant: an entry in use is overwritten.
SetLeafUnchecked ==
  /\ pc = "walk" /\ walk.level = walk.last /\ walk.table \in DOMAIN tables
  /\ tables' = [tables EXCEPT ![walk.table][index(walk.virtual, walk.level)] =
                  [frame |-> walk.kernel, flags |-> walk.flags, huge |-> walk.last = 2]]
  /\ WalkDone
  /\ UNCHANGED <<free, usable, roots>>

\* The last entry is written.
SetLeaf ==
  /\ pc = "walk" /\ walk.level = walk.last /\ walk.table \in DOMAIN tables
  /\ WalkEntry = NoEntry
  /\ tables' = [tables EXCEPT ![walk.table][index(walk.virtual, walk.level)] =
                  [frame |-> walk.kernel, flags |-> walk.flags, huge |-> walk.last = 2]]
  /\ WalkDone
  /\ UNCHANGED <<free, usable, roots>>

\* The walk went through a 2MB page, which is not a table: what it reads there
\* is data, and if that is zero it is overwritten with an entry.
StrayLeaf ==
  /\ pc = "walk" /\ walk.table \notin DOMAIN tables
  /\ WalkDone \/ Finish(FALSE)
  /\ UNCHANGED <<free, usable, tables, roots>>

-----------------------------------------------------------------------------
(* map_region and copy_mapping *)

StartRegion(p4, v, k, n, f) ==
  /\ pc' = "region"
  /\ region' = [p4 |-> p4, virtual |-> v, ptr |-> k, size |-> n, mapped |-> 0, flags |-> f]

\* One iteration: as many pages at once as alignment and length allow.
NextPage ==
  /\ pc = "region" /\ region.mapped < region.size
  /\ LET fits2MB == /\ is_aligned(region.virtual, _2MB) /\ is_aligned(region.ptr, _2MB)
                    /\ region.size - region.mapped >= _2MB
     IN \/ /\ ~Accepted(region.virtual, region.ptr, 1)
           /\ Finish(FALSE)
        \/ /\ Accepted(region.virtual, region.ptr, 1)
           /\ StartWalk(region.p4, region.virtual, region.ptr, region.flags,
                        IF fits2MB THEN 2 ELSE 1)
           /\ UNCHANGED <<region, copy, destroy, result>>
  /\ UNCHANGED <<free, usable, tables, roots>>

\* The loop of map_region ends; copy_mapping, if it called, counts the pages.
RegionDone ==
  /\ pc = "region" /\ region.mapped >= region.size
  /\ \/ copy = None /\ Finish(TRUE)
     \/ /\ copy # None
        /\ pc' = "copy" /\ region' = None
        /\ copy' = [copy EXCEPT !.count = @ - copy.size]
        /\ UNCHANGED <<walk, destroy, result>>
  /\ UNCHANGED <<free, usable, tables, roots>>

\* Mutant: the whole region is copied, however long it is.
CopyRegionWhole ==
  /\ pc = "copy" /\ copy.count > 0
  /\ LET ptr == translate(copy.src, copy.virt)
         size == region_size(copy.src, copy.virt)
     IN /\ copy' = [copy EXCEPT !.size = size]
        /\ StartRegion(copy.dest, copy.virt, ptr, size, copy.flags)
  /\ UNCHANGED <<free, usable, tables, roots, walk, destroy, result>>

\* One iteration of copy_mapping.
CopyRegion ==
  /\ pc = "copy" /\ copy.count > 0
  /\ LET ptr == translate(copy.src, copy.virt)
         size == region_size(copy.src, copy.virt)
     IN \/ /\ ~Accepted(copy.virt, ptr, 1)
           /\ Finish(FALSE)
        \/ /\ Accepted(copy.virt, ptr, 1)
           /\ copy' = [copy EXCEPT !.size = size]
           /\ StartRegion(copy.dest, copy.virt, ptr,
                          IF size < copy.count THEN size ELSE copy.count, copy.flags)
           /\ UNCHANGED <<walk, destroy, result>>
  /\ UNCHANGED <<free, usable, tables, roots>>

CopyDone ==
  /\ pc = "copy" /\ copy.count <= 0
  /\ Finish(TRUE)
  /\ UNCHANGED <<free, usable, tables, roots>>

-----------------------------------------------------------------------------
(* destroy_table and destroy_bootboot_table.  The recursion is a stack of  *)
(* the tables being walked, the innermost last.                            *)

StartDestroy(p4, bootboot) ==
  /\ pc' = "destroy"
  /\ destroy' = <<[table |-> p4, level |-> 4, next |-> 0, bootboot |-> bootboot]>>
  /\ roots' = roots \ {p4}

\* Mutant: the last entry of a table is looked at again and again.
VisitShort ==
  /\ pc = "destroy"
  /\ LET top == Last(destroy)
         entry == tables[top.table][top.next]
         seen == [destroy EXCEPT ![Len(destroy)].next = IF @ + 1 < EntryCount THEN @ + 1 ELSE @]
     IN /\ top.level > 1 /\ top.next < EntryCount
        /\ \/ (entry.frame = NULL \/ entry.huge) /\ destroy' = seen
           \/ /\ entry.frame # NULL /\ ~entry.huge
              /\ destroy' = Append(seen, [table |-> entry.frame, level |-> top.level - 1,
                                          next |-> 0, bootboot |-> top.bootboot])
  /\ UNCHANGED <<free, usable, tables, roots, pc, walk, region, copy, result>>

\* The next entry is looked at; a table behind it is walked first.
Visit ==
  /\ pc = "destroy"
  /\ LET top == Last(destroy)
         entry == tables[top.table][top.next]
         seen == [destroy EXCEPT ![Len(destroy)].next = @ + 1]
     IN /\ top.level > 1 /\ top.next < EntryCount
        /\ \/ (entry.frame = NULL \/ entry.huge) /\ destroy' = seen
           \/ /\ entry.frame # NULL /\ ~entry.huge
              /\ destroy' = Append(seen, [table |-> entry.frame, level |-> top.level - 1,
                                          next |-> 0, bootboot |-> top.bootboot])
  /\ UNCHANGED <<free, usable, tables, roots, pc, walk, region, copy, result>>

\* Mutant: the table is dropped without release_pages.
ReleaseForgotten ==
  /\ pc = "destroy"
  /\ LET top == Last(destroy) IN
       /\ top.level = 1 \/ top.next = EntryCount
       /\ tables' = [u \in DOMAIN tables \ {top.table} |-> tables[u]]
  /\ \/ Len(destroy) > 1 /\ destroy' = Front(destroy) /\ UNCHANGED <<pc, walk, region, copy, result>>
     \/ Len(destroy) = 1 /\ Finish(TRUE)
  /\ UNCHANGED <<free, usable, roots>>

\* Everything below the table is gone: the table itself is released.
Release ==
  /\ pc = "destroy"
  /\ LET top == Last(destroy) IN
       /\ top.level = 1 \/ top.next = EntryCount
       /\ free' = free \cup {top.table}
       /\ usable' = IF top.bootboot THEN usable \cup {top.table} ELSE usable
       /\ tables' = [u \in DOMAIN tables \ {top.table} |-> tables[u]]
  /\ \/ Len(destroy) > 1 /\ destroy' = Front(destroy) /\ UNCHANGED <<pc, walk, region, copy, result>>
     \/ Len(destroy) = 1 /\ Finish(TRUE)
  /\ UNCHANGED roots

Mapping == \/ Descend \/ GrowFails \/ LeafTaken \/ SetLeaf \/ StrayLeaf
           \/ NextPage \/ RegionDone
           \/ \E t \in free : Grow(t)

Destroying == Visit \/ Release

Copying == CopyRegion \/ CopyDone

-----------------------------------------------------------------------------
(* The callers *)

\* PageTable4 *new = zeroed_pages(1)
NewTable(t) ==
  /\ pc = "idle" /\ zeroed_pages(t)
  /\ tables' = [u \in DOMAIN tables \cup {t} |-> IF u = t THEN ZeroedTable ELSE tables[u]]
  /\ roots' = roots \cup {t}
  /\ UNCHANGED <<usable, locals>>

\* A call that map_page or map_region (n = 1) or map_2MB_page refuses at once.
Reject(v, k, n) ==
  /\ pc = "idle" /\ ~Accepted(v, k, n)
  /\ Finish(FALSE)
  /\ UNCHANGED <<free, usable, tables, roots>>

map_page(p4, v, k, f) ==
  /\ pc = "idle" /\ Accepted(v, k, 1)
  /\ StartWalk(p4, v, k, f, 1)
  /\ UNCHANGED <<free, usable, tables, roots, region, copy, destroy, result>>

map_2MB_page(p4, v, k, f) ==
  /\ pc = "idle" /\ Accepted(v, k, _2MB)
  /\ StartWalk(p4, v, k, f, 2)
  /\ UNCHANGED <<free, usable, tables, roots, region, copy, destroy, result>>

map_region(p4, v, k, n, f) ==
  /\ pc = "idle" /\ Accepted(v, k, 1)
  /\ StartRegion(p4, v, k, n, f)
  /\ UNCHANGED <<free, usable, tables, roots, walk, copy, destroy, result>>

copy_mapping(dest, src, v, n, f) ==
  /\ pc = "idle"
  /\ pc' = "copy"
  /\ copy' = [dest |-> dest, src |-> src, virt |-> v, count |-> n, size |-> 0, flags |-> f]
  /\ UNCHANGED <<free, usable, tables, roots, walk, region, destroy, result>>

destroy_table(p4, bootboot) ==
  /\ pc = "idle"
  /\ StartDestroy(p4, bootboot)
  /\ UNCHANGED <<free, usable, tables, walk, region, copy, result>>

Init ==
  /\ free = TableFrames /\ usable = TableFrames
  /\ tables = [t \in {} |-> ZeroedTable] /\ roots = {}
  /\ pc = "idle" /\ result = TRUE
  /\ walk = None /\ region = None /\ copy = None /\ destroy = None

Call ==
  \/ \E t \in free : NewTable(t)
  \/ \E v \in Virtuals, k \in DataFrames \cup {NULL}, n \in {1, _2MB} : Reject(v, k, n)
  \/ \E p4 \in roots :
       \/ \E v \in Virtuals, k \in DataFrames, f \in Flags :
            map_page(p4, v, k, f) \/ map_2MB_page(p4, v, k, f)
       \/ \E v \in Virtuals, k \in DataFrames, n \in Counts, f \in Flags :
            k .. k + n - 1 \subseteq DataFrames /\ map_region(p4, v, k, n, f)
       \/ destroy_table(p4, FALSE)

\* copy_mapping and destroy_bootboot_table are called in KernelTables.
Next == Call \/ Mapping \/ Destroying

Spec == Init /\ [][Next]_vars

\* The core inside a call keeps executing.
FairSpec == Spec /\ WF_vars(Mapping \/ Destroying)

-----------------------------------------------------------------------------
(* Properties *)

TypeOK ==
  /\ free \subseteq TableFrames /\ usable \subseteq TableFrames
  /\ DOMAIN tables \subseteq TableFrames /\ roots \subseteq DOMAIN tables
  /\ \A t \in DOMAIN tables : tables[t] \in [Indices -> Entry]
  /\ pc \in {"idle", "walk", "region", "copy", "destroy"}
  /\ result \in BOOLEAN

\* The entries that lead to table u.
Links(u) == {l \in (DOMAIN tables) \X Indices : tables[l[1]][l[2]].frame = u}

\* Where destroy_table has not yet been.
ToVisit(i) == {destroy[i].table} \X (destroy[i].next .. EntryCount - 1)

\* The tables form trees, also after calls that failed half-way: every table is
\* either a root or hangs in exactly one entry, so destroying a root
\* gives back each table once and none is lost.  A table that destroy_table has
\* entered is on its stack instead, and is not released before it is done with.
TreeShaped ==
  /\ TypeOK
  /\ \A i \in 1 .. Len(destroy) : destroy[i].table \in DOMAIN tables
  /\ \A u \in DOMAIN tables :
       \/ u \in roots /\ Links(u) = {} /\ \A i \in 1 .. Len(destroy) : destroy[i].table # u
       \/ /\ u \notin roots
          /\ IF \E i \in 1 .. Len(destroy) : destroy[i].table = u
             THEN Cardinality({i \in 1 .. Len(destroy) : destroy[i].table = u}) = 1
                  /\ \A i \in 1 .. Len(destroy) : Links(u) \cap ToVisit(i) = {}
             ELSE Cardinality(Links(u)) = 1

\* No frame is lost or handed out twice: it is either free or a table.
\* release_pages asserts that what it is given is usable.
FramesAccounted ==
  /\ free \cap DOMAIN tables = {}
  /\ free \cup DOMAIN tables = TableFrames
  /\ free \subseteq usable

\* A walk never takes a page of data for a table.  (Not of page_tables.c as
\* such, but of its use in memory__init: KernelTables.)
WalksLiveTables == pc = "walk" => walk.table \in DOMAIN tables

\* A mapping is refused only for a reason: a table is missing and memory has run
\* out, or one of the pages is already mapped.  In particular no empty table is left behind
\* where a 2MB page could go.
FailureJustified ==
  [][pc = "walk" /\ pc' = "idle" /\ ~result' =>
       \/ free = {} /\ walk.level > walk.last
       \/ \E i \in 0 .. MappedPages - 1 : translate(walk.p4, walk.virtual + i) # NULL]_vars

\* The page tables implement address spaces.
Space == [r \in roots |-> [v \in VPages |-> translate(r, v)]]
Abstract == INSTANCE AddressSpace WITH
  Tables <- TableFrames, Block <- _2MB, Frames <- DataFrames, space <- Space
RefinesSpace == Abstract!Spec

\* Every call comes to an end.
CallsReturn == pc # "idle" ~> pc = "idle"
=============================================================================
