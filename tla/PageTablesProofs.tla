-------------------------- MODULE PageTablesProofs --------------------------
(***************************************************************************)
(* Proofs about PageTables, for any number of entries, frames and callers: *)
(* whatever map_page, map_2MB_page, map_region and destroy_table do, also  *)
(* when they fail half-way, the tables form trees, no frame is lost, every *)
(* failure has its reason, and what translate sees are address spaces in   *)
(* the sense of AddressSpace.                                              *)
(***************************************************************************)
EXTENDS PageTables, FiniteSetTheorems, SequenceTheorems, TLAPS

-----------------------------------------------------------------------------
(* The inductive invariant.  TreeShaped counts links; what makes it true   *)
(* is that every table has a level, that links lead one level down, and    *)
(* that the links destroy_table has followed no longer count.              *)

\* A call of destroy_table_inner
Frame == [table : TableFrames, level : 1 .. 4, next : Nat, bootboot : BOOLEAN]

OnStack(u) == \E j \in 1 .. Len(destroy) : destroy[j].table = u

\* destroy_table has looked at entry i of table t.
Visited(t, i) == \E j \in 1 .. Len(destroy) : destroy[j].table = t /\ i < destroy[j].next

\* Entry i of table t leads to a table and not to a page of data.
Branch(L, t, i) == L[t] # 1 /\ tables[t][i].frame # NULL /\ ~tables[t][i].huge

Memory ==
  /\ usable = TableFrames /\ free \subseteq TableFrames
  /\ tables \in [TableFrames \ free -> [Indices -> Entry]]
  /\ roots \subseteq TableFrames \ free
  /\ result \in BOOLEAN

Typed == tables \in [TableFrames \ free -> [Indices -> Entry]]

RegionOK ==
  /\ region \in [p4 : roots, virtual : VPages, ptr : Nat, size : Nat, mapped : Nat, flags : Flags]
  /\ region.mapped <= region.size
  /\ region.ptr .. region.ptr + (region.size - region.mapped) - 1 \subseteq DataFrames

\* What a call of map_page or map_2MB_page is about
WalkOK ==
  /\ walk \in [p4 : roots, virtual : VPages, kernel : DataFrames, flags : Flags,
               table : TableFrames \cup DataFrames, level : 1 .. 4, last : {1, 2}]
  /\ walk.last <= walk.level
  /\ is_aligned(walk.virtual, MappedPages) /\ is_aligned(walk.kernel, MappedPages)
  /\ region # None => RegionOK /\ MappedPages <= region.size - region.mapped

Control ==
  /\ pc \in {"idle", "walk", "region", "destroy"}
  /\ copy = None
  /\ pc \in {"idle", "destroy"} => region = None
  /\ pc = "region" => RegionOK
  /\ pc = "walk" => WalkOK
  /\ pc # "destroy" => destroy = None
  /\ pc = "destroy" => destroy \in Seq(Frame) /\ Len(destroy) >= 1

\* The tables that a walk for page v from root r passes on its way down
Table3(r, v) == EntryAt(r, v, 4).frame
Table2(r, v) == EntryAt(Table3(r, v), v, 3).frame
Table1(r, v) == EntryAt(Table2(r, v), v, 2).frame

\* A walk is where its page's indices have led it.
WalkOnPath ==
  LET r == walk.p4
      v == walk.virtual
  IN /\ walk.level = 4 => walk.table = r
     /\ walk.level = 3 => walk.table = Table3(r, v)
     /\ walk.level <= 2 => Table3(r, v) # NULL
     /\ walk.level = 2 => walk.table = Table2(r, v)
     /\ walk.level = 1 => Table2(r, v) # NULL /\ walk.table = Table1(r, v)

\* Where a walk may be: in a table of its level, or in a page of data that
\* the entry of a 2MB page has led it to.
WalkAt(L) ==
  pc = "walk" => /\ WalkOnPath
                 /\ walk.table \in TableFrames => walk.table \notin free /\ L[walk.table] = walk.level
                 /\ walk.table \notin TableFrames => walk.level = 1

\* Every entry is what the level of its table says it is.
Entries(L) ==
  \A t \in TableFrames \ free, i \in Indices :
    /\ tables[t][i].frame = NULL => tables[t][i] = NoEntry
    /\ tables[t][i].huge => L[t] = 2
    /\ tables[t][i].frame # NULL /\ ~Branch(L, t, i) => tables[t][i].frame \in DataFrames

\* A link that destroy_table has not followed leads to a live table one level
\* down that is neither a root nor being destroyed; one it has followed leads to
\* a table that is being destroyed or has been.
Branches(L) ==
  \A t \in TableFrames \ free, i \in Indices :
    Branch(L, t, i) =>
      LET u == tables[t][i].frame
      IN /\ u \in TableFrames
         /\ ~Visited(t, i) => u \notin free \cup roots /\ L[u] = L[t] - 1 /\ ~OnStack(u)
         /\ Visited(t, i) => u \in free \/ OnStack(u)

\* No two links lead to one table.
Unshared(L) ==
  \A t, u \in TableFrames \ free, i, j \in Indices :
    /\ Branch(L, t, i) /\ ~Visited(t, i) /\ Branch(L, u, j) /\ ~Visited(u, j)
    /\ tables[t][i].frame = tables[u][j].frame
    => t = u /\ i = j

\* Every table hangs somewhere.
Attached(L) ==
  \A u \in TableFrames \ (free \cup roots) :
    OnStack(u) \/ \E t \in TableFrames \ free, i \in Indices :
                    Branch(L, t, i) /\ ~Visited(t, i) /\ tables[t][i].frame = u

\* The stack of destroy_table goes down level by level from a table that
\* is no longer a root.
Stack(L) ==
  \A j \in 1 .. Len(destroy) :
    /\ destroy[j].table \in TableFrames \ (free \cup roots)
    /\ L[destroy[j].table] = 5 - j /\ destroy[j].level = 5 - j

\* No table of the last level is left empty.
Filled(L) ==
  \A t \in TableFrames \ free :
    L[t] = 1 => \/ \E i \in Indices : tables[t][i].frame # NULL
                \/ pc = "walk" /\ walk.table = t

Trees(L) ==
  /\ \A r \in roots : L[r] = 4
  /\ Entries(L) /\ Branches(L) /\ Unshared(L) /\ Attached(L) /\ Stack(L)

Shape(L) == Trees(L) /\ Filled(L) /\ WalkAt(L)

Levels == [TableFrames -> 1 .. 4]

IndInv == Memory /\ Control /\ \E L \in Levels : Shape(L)

-----------------------------------------------------------------------------
(* Numbers *)

\* What % and \div mean for the prover.
LEMMA Division ==
  ASSUME NEW v \in Nat, NEW a \in Nat \ {0}
  PROVE  /\ v \div a \in Nat /\ v % a \in Nat
         /\ v = a * (v \div a) + (v % a) /\ v % a < a
  BY SMT

\* page_table_indices yields indices of a table.
LEMMA IndexType ==
  ASSUME NEW v \in Nat, NEW l \in 1 .. 4
  PROVE  index(v, l) \in Indices
<1> DEFINE s == shifted(v)[l]
<1>1. /\ v \div EntryCount \in Nat
      /\ (v \div EntryCount) \div EntryCount \in Nat
      /\ ((v \div EntryCount) \div EntryCount) \div EntryCount \in Nat
  BY EntryCountAssumption, Division
<1>2. s \in Nat BY <1>1 DEF shifted
<1> HIDE DEF s
<1>3. s % EntryCount \in Nat /\ s % EntryCount < EntryCount BY <1>2, EntryCountAssumption, Division
<1> QED BY <1>3, EntryCountAssumption DEF index, Indices, s

-----------------------------------------------------------------------------
(* The invariant holds at first *)

\* Without a call of destroy_table no table is being destroyed.
LEMMA Calm ==
  ASSUME destroy = None
  PROVE  (\A u : ~OnStack(u)) /\ (\A t, i : ~Visited(t, i)) /\ (\A L : Stack(L))
<1>1. 1 .. Len(destroy) = {} BY DEF None
<1> QED BY <1>1 DEF OnStack, Visited, Stack

\* The same after a step
LEMMA CalmNext ==
  ASSUME destroy' = None
  PROVE  (\A u : ~OnStack(u)') /\ (\A t, i : ~Visited(t, i)') /\ (\A L : Stack(L)')
<1>1. 1 .. Len(destroy') = {} BY DEF None
<1> QED BY <1>1 DEF OnStack, Visited, Stack

\* No tables form no trees.
LEMMA InitInd == Init => IndInv
<1> SUFFICES ASSUME Init PROVE IndInv OBVIOUS
<1> USE DEF Init
<1>1. TableFrames \ free = {} OBVIOUS
<1>2. tables \in [{} -> [Indices -> Entry]] OBVIOUS
<1>3. Memory BY <1>1, <1>2 DEF Memory
<1>4. Control BY DEF Control
<1> DEFINE L == [t \in TableFrames |-> 4]
<1>5. L \in Levels BY DEF Levels
<1>6. Stack(L) BY Calm
<1> HIDE DEF L
<1>7. Entries(L) /\ Branches(L) /\ Unshared(L) /\ Attached(L) /\ Filled(L) /\ WalkAt(L)
  BY <1>1 DEF Entries, Branches, Unshared, Attached, Filled, WalkAt
<1>8. Shape(L) BY <1>6, <1>7 DEF Shape, Trees
<1> QED BY <1>3, <1>4, <1>5, <1>8 DEF IndInv

-----------------------------------------------------------------------------
(* Steps that leave the tables alone *)

\* A walk or a loop moves on: the trees stay what they are.
LEMMA TreesSame ==
  ASSUME NEW L, Trees(L), UNCHANGED <<tables, free, roots, destroy>>
  PROVE  Trees(L)'
  BY DEF Trees, Entries, Branches, Unshared, Attached, Stack, Branch, Visited, OnStack

\* A call that ends, outside destroy_table, leaves the invariant's control part.
LEMMA FinishControl ==
  ASSUME NEW r \in BOOLEAN, Finish(r)
  PROVE  Control' /\ (\A L : WalkAt(L)') /\ result' \in BOOLEAN /\ destroy' = None
  BY DEF Finish, Control, WalkAt, None

\* Mapping a page in a table that has one already, or giving up, ends the call.
LEMMA GiveUpInd ==
  ASSUME IndInv, GrowFails \/ LeafTaken PROVE IndInv'
<1>1. UNCHANGED <<tables, free, usable, roots>> /\ Finish(FALSE) /\ pc = "walk"
  BY DEF GrowFails, LeafTaken
<1>2. PICK L \in Levels : Shape(L) BY DEF IndInv
<1>3. UNCHANGED destroy BY <1>1, FinishControl DEF IndInv, Control
<1>4. Trees(L)' BY <1>1, <1>2, <1>3, TreesSame DEF Shape
<1>5. Memory' BY <1>1, FinishControl DEF IndInv, Memory
<1>6. Filled(L)'
  <2> SUFFICES ASSUME NEW t \in TableFrames \ free, L[t] = 1
               PROVE  \E i \in Indices : tables[t][i].frame # NULL
    BY <1>1 DEF Filled
  <2>1. CASE walk.table # t BY <1>2, <2>1 DEF Shape, Filled
  <2>2. CASE walk.table = t
    <3>1. walk.level = 1 BY <1>1, <1>2, <2>2 DEF Shape, WalkAt
    <3>2. WalkOK BY <1>1 DEF IndInv, Control
    <3>3. walk.last \in {1, 2} /\ walk.virtual \in Nat /\ walk.level \in 1 .. 4
      BY <3>2 DEF WalkOK, VPages
    <3>4. ~(walk.level > walk.last) BY <3>1, <3>3
    <3>5. WalkEntry # NoEntry BY <3>4 DEF GrowFails, LeafTaken
    <3>6. index(walk.virtual, walk.level) \in Indices BY <3>3, IndexType
    <3>7. WalkEntry.frame # NULL
      BY <1>2, <2>2, <3>5, <3>6 DEF Shape, Trees, Entries, WalkEntry, EntryAt
    <3> QED BY <2>2, <3>6, <3>7 DEF WalkEntry, EntryAt
  <2> QED BY <2>1, <2>2
<1>7. Shape(L)' BY <1>1, <1>4, <1>6, FinishControl DEF Shape
<1> QED BY <1>1, <1>5, <1>7, FinishControl DEF IndInv

\* The facts about a walk that its steps use
LEMMA WalkFacts ==
  ASSUME IndInv, pc = "walk"
  PROVE  /\ WalkOK /\ destroy = None /\ walk.p4 \in roots /\ walk.virtual \in Nat
         /\ walk.virtual \in VPages
         /\ walk.level \in 1 .. 4 /\ walk.last \in {1, 2} /\ walk.last <= walk.level
         /\ walk.kernel \in DataFrames /\ walk.flags \in Flags
         /\ walk.table \in TableFrames \cup DataFrames /\ walk.table # NULL
         /\ index(walk.virtual, walk.level) \in Indices
<1>1. WalkOK /\ destroy = None BY DEF IndInv, Control
<1>2. /\ walk.p4 \in roots /\ walk.virtual \in VPages
      /\ walk.level \in 1 .. 4 /\ walk.last \in {1, 2} /\ walk.last <= walk.level
      /\ walk.kernel \in DataFrames /\ walk.flags \in Flags
      /\ walk.table \in TableFrames \cup DataFrames
  BY <1>1 DEF WalkOK
<1>3. walk.virtual \in Nat BY <1>2 DEF VPages
<1>4. walk.table # NULL BY <1>2, FramesAssumption
<1> QED BY <1>1, <1>2, <1>3, <1>4, IndexType

\* A walk that has not come to its last level is in a table of its level.
LEMMA WalkInTable ==
  ASSUME IndInv, pc = "walk", NEW L \in Levels, Shape(L),
         walk.level > walk.last \/ walk.table \in DOMAIN tables
  PROVE  walk.table \in TableFrames \ free /\ L[walk.table] = walk.level
<1>1. /\ walk.table \in TableFrames => walk.table \notin free /\ L[walk.table] = walk.level
      /\ walk.table \notin TableFrames => walk.level = 1
  BY DEF Shape, WalkAt
<1>2. walk.level \in 1 .. 4 /\ walk.last \in {1, 2} BY WalkFacts
<1>3. DOMAIN tables = TableFrames \ free BY DEF IndInv, Memory
<1>4. ~(walk.level > walk.last /\ walk.level = 1) BY <1>2
<1> QED BY <1>1, <1>3, <1>4

\* What a walk does with itself when it goes down one level
LEMMA WalkDown ==
  ASSUME IndInv, pc = "walk", pc' = pc, walk.level > walk.last,
         UNCHANGED <<roots, region, copy, destroy>>,
         NEW u \in TableFrames \cup DataFrames,
         walk' = [walk EXCEPT !.table = u, !.level = @ - 1]
  PROVE  /\ Control'
         /\ walk'.p4 = walk.p4 /\ walk'.virtual = walk.virtual /\ walk'.last = walk.last
         /\ walk'.table = u /\ walk'.level = walk.level - 1
<1>0. /\ WalkOK /\ walk.level \in 1 .. 4 /\ walk.last \in {1, 2} BY WalkFacts
<1>1. walk \in [p4 : roots, virtual : VPages, kernel : DataFrames, flags : Flags,
                table : TableFrames \cup DataFrames, level : 1 .. 4, last : {1, 2}]
  BY <1>0 DEF WalkOK
<1>2. walk.level - 1 \in 1 .. 4 /\ walk.last <= walk.level - 1 BY <1>0
<1>3. /\ walk' \in [p4 : roots', virtual : VPages, kernel : DataFrames, flags : Flags,
                    table : TableFrames \cup DataFrames, level : 1 .. 4, last : {1, 2}]
      /\ walk'.p4 = walk.p4 /\ walk'.virtual = walk.virtual /\ walk'.last = walk.last
      /\ walk'.table = u /\ walk'.level = walk.level - 1 /\ walk'.kernel = walk.kernel
  BY <1>1, <1>2
<1>4. MappedPages' = MappedPages BY <1>3 DEF MappedPages
<1>5. RegionOK => RegionOK' BY DEF RegionOK
<1>6. WalkOK' BY <1>0, <1>2, <1>3, <1>4, <1>5 DEF WalkOK
<1>7. Control' BY <1>6 DEF IndInv, Control
<1> QED BY <1>3, <1>7

\* Going down leads to a table of the next level, or through the entry of a
\* 2MB page into data.
LEMMA DescendInd ==
  ASSUME IndInv, Descend PROVE IndInv'
<1> DEFINE w == walk.table
           x == index(walk.virtual, walk.level)
           u == tables[w][x].frame
<1>1. /\ pc = "walk" /\ walk.level > walk.last /\ pc' = pc
      /\ u # NULL
      /\ walk' = [walk EXCEPT !.table = u, !.level = @ - 1]
      /\ UNCHANGED <<free, usable, tables, roots, region, copy, destroy, result>>
  BY DEF Descend, WalkEntry, EntryAt
<1>2. PICK L \in Levels : Shape(L) BY DEF IndInv
<1>3. w \in TableFrames \ free /\ L[w] = walk.level BY <1>1, <1>2, WalkInTable
<1>4. x \in Indices /\ walk.level \in 1 .. 4 /\ walk.last \in {1, 2} /\ walk.virtual \in Nat
  BY <1>1, WalkFacts
<1>4a. walk.level # 1 BY <1>1, <1>4
<1>5. Trees(L) BY <1>2 DEF Shape
<1>6. /\ u \in TableFrames \cup DataFrames
      /\ u \in TableFrames => u \notin free /\ L[u] = walk.level - 1
      /\ u \notin TableFrames => walk.level = 2
  <2>1. CASE Branch(L, w, x)
    <3>1. ~Visited(w, x) BY <1>1, WalkFacts, Calm
    <3>2. u \in TableFrames \ free /\ L[u] = L[w] - 1
      BY <1>3, <1>4, <1>5, <2>1, <3>1 DEF Trees, Branches
    <3> QED BY <1>3, <3>2
  <2>2. CASE ~Branch(L, w, x)
    <3>1. u \in DataFrames BY <1>1, <1>3, <1>4, <1>5, <2>2 DEF Trees, Entries
    <3>2. tables[w][x].huge BY <1>1, <1>3, <1>4a, <2>2 DEF Branch
    <3>3. L[w] = 2 BY <1>3, <1>4, <1>5, <3>2 DEF Trees, Entries
    <3> QED BY <1>3, <3>1, <3>3, FramesAssumption
  <2> QED BY <2>1, <2>2
<1> HIDE DEF u
<1>7. /\ Control'
      /\ walk'.p4 = walk.p4 /\ walk'.virtual = walk.virtual /\ walk'.last = walk.last
      /\ walk'.table = u /\ walk'.level = walk.level - 1
  BY <1>1, <1>6, WalkDown
<1>8. WalkAt(L)'
  <2>1. /\ Table3(walk.p4, walk.virtual)' = Table3(walk.p4, walk.virtual)
        /\ Table2(walk.p4, walk.virtual)' = Table2(walk.p4, walk.virtual)
        /\ Table1(walk.p4, walk.virtual)' = Table1(walk.p4, walk.virtual)
    BY <1>1, <1>7 DEF Table3, Table2, Table1, EntryAt
  <2>2. WalkOnPath BY <1>1, <1>2 DEF Shape, WalkAt
  <2>3. w # NULL BY <1>1, WalkFacts
  <2>4. /\ walk.level = 4 => u = Table3(walk.p4, walk.virtual)
        /\ walk.level = 3 => u = Table2(walk.p4, walk.virtual) /\ Table3(walk.p4, walk.virtual) # NULL
        /\ walk.level = 2 => /\ u = Table1(walk.p4, walk.virtual)
                            /\ Table3(walk.p4, walk.virtual) # NULL
                            /\ Table2(walk.p4, walk.virtual) # NULL
    <3>1. CASE walk.level = 4 BY <2>2, <3>1 DEF WalkOnPath, Table3, EntryAt, u
    <3>2. CASE walk.level = 3
      <4>1. w = Table3(walk.p4, walk.virtual) BY <2>2, <3>2 DEF WalkOnPath
      <4>2. u = Table2(walk.p4, walk.virtual) BY <3>2, <4>1 DEF Table2, EntryAt, u
      <4> QED BY <2>3, <3>2, <4>1, <4>2
    <3>3. CASE walk.level = 2
      <4>1. w = Table2(walk.p4, walk.virtual) /\ Table3(walk.p4, walk.virtual) # NULL
        BY <2>2, <3>3 DEF WalkOnPath
      <4>2. u = Table1(walk.p4, walk.virtual) BY <3>3, <4>1 DEF Table1, EntryAt, u
      <4> QED BY <2>3, <3>3, <4>1, <4>2
    <3> QED BY <3>1, <3>2, <3>3
  <2>5. WalkOnPath' BY <1>4, <1>4a, <1>7, <2>1, <2>4 DEF WalkOnPath
  <2>6. /\ walk'.table \in TableFrames => walk'.table \notin free' /\ L[walk'.table] = walk'.level
        /\ walk'.table \notin TableFrames => walk'.level = 1
    BY <1>1, <1>6, <1>7
  <2> QED BY <2>5, <2>6 DEF WalkAt
<1>9. Filled(L)'
  <2> SUFFICES ASSUME NEW t \in TableFrames \ free, L[t] = 1
               PROVE  \E i \in Indices : tables[t][i].frame # NULL
    BY <1>1 DEF Filled
  <2>1. t # w BY <1>3, <1>4a
  <2> QED BY <1>2, <2>1 DEF Shape, Filled
<1>10. Trees(L)' BY <1>1, <1>5, TreesSame
<1>11. Shape(L)' BY <1>8, <1>9, <1>10 DEF Shape
<1>12. Memory' BY <1>1 DEF IndInv, Memory
<1> QED BY <1>7, <1>11, <1>12 DEF IndInv

\* There are pages, and pages wrap around to pages.
LEMMA PlusType ==
  ASSUME NEW v \in VPages, NEW n \in Nat
  PROVE  Plus(v, n) \in VPages
<1>1. VPageCount \in Nat \ {0}
  <2> DEFINE a == EntryCount * EntryCount
             b == EntryCount * a
  <2>1. a \in Nat \ {0} BY EntryCountAssumption, SMT
  <2> HIDE DEF a
  <2>2. b \in Nat \ {0} BY <2>1, EntryCountAssumption, SMT
  <2> HIDE DEF b
  <2>3. EntryCount * b \in Nat \ {0} BY <2>2, EntryCountAssumption, SMT
  <2> QED BY <2>3 DEF VPageCount, a, b
<1>2. v + n \in Nat BY <1>1 DEF VPages
<1>3. (v + n) % VPageCount \in Nat /\ (v + n) % VPageCount < VPageCount BY <1>1, <1>2, Division
<1> QED BY <1>1, <1>3 DEF Plus, VPages

\* map_region goes on behind the page it has mapped, and what is left of it
\* is the rest of what it was given.
LEMMA WalkDoneControl ==
  ASSUME IndInv, pc = "walk", WalkDone, UNCHANGED roots
  PROVE  /\ Control' /\ (\A L : WalkAt(L)') /\ result' \in BOOLEAN /\ destroy' = None
         /\ pc' # "walk"
<1>1. CASE region = None /\ Finish(TRUE)
  <2>1. pc' = "idle" BY <1>1 DEF Finish
  <2> QED BY <1>1, <2>1, FinishControl
<1>2. CASE /\ region # None
           /\ pc' = "region" /\ walk' = None
           /\ region' = [region EXCEPT !.virtual = Plus(@, MappedPages), !.ptr = @ + MappedPages,
                                       !.mapped = @ + MappedPages]
           /\ UNCHANGED <<copy, destroy, result>>
  <2>1. WalkOK /\ destroy = None BY WalkFacts
  <2>2. RegionOK /\ MappedPages <= region.size - region.mapped BY <1>2, <2>1 DEF WalkOK
  <2>3. MappedPages \in Nat BY EntryCountAssumption DEF MappedPages, _2MB
  <2>4. region \in [p4 : roots, virtual : VPages, ptr : Nat, size : Nat, mapped : Nat, flags : Flags]
    BY <2>2 DEF RegionOK
  <2> DEFINE m == MappedPages
             v == Plus(region.virtual, m)
             p == region.ptr + m
             d == region.mapped + m
  <2>5. v \in VPages /\ p \in Nat /\ d \in Nat BY <2>3, <2>4, PlusType
  <2>6. region' = [region EXCEPT !.virtual = v, !.ptr = p, !.mapped = d] BY <1>2
  <2> HIDE DEF v, p, d
  <2>7. /\ region' \in [p4 : roots, virtual : VPages, ptr : Nat, size : Nat, mapped : Nat, flags : Flags]
        /\ region'.ptr = p /\ region'.mapped = d /\ region'.size = region.size
    BY <2>4, <2>5, <2>6
  <2> DEFINE s == region.size
             q == region.ptr
             c == region.mapped
  <2>8. s \in Nat /\ q \in Nat /\ c \in Nat BY <2>4
  <2>8a. m <= s - c BY <2>2
  <2>8b. q .. q + (s - c) - 1 \subseteq DataFrames BY <2>2 DEF RegionOK
  <2>8c. p = q + m /\ d = c + m BY DEF p, d
  <2> HIDE DEF m, s, q, c
  <2>9. d <= s BY <2>3, <2>8, <2>8a, <2>8c DEF m
  <2>10. p .. p + (s - d) - 1 \subseteq q .. q + (s - c) - 1 BY <2>3, <2>8, <2>8a, <2>8c DEF m
  <2>11. RegionOK' BY <2>7, <2>8b, <2>9, <2>10 DEF RegionOK, s
  <2>12. Control' BY <1>2, <2>1, <2>11 DEF IndInv, Control
  <2>13. result' \in BOOLEAN BY <1>2 DEF IndInv, Memory
  <2> QED BY <1>2, <2>1, <2>12, <2>13 DEF WalkAt
<1> QED BY <1>1, <1>2 DEF WalkDone

\* Outside a walk every table of the last level has an entry.
LEMMA FilledSame ==
  ASSUME IndInv, NEW L \in Levels, Shape(L), UNCHANGED <<tables, free>>,
         pc = "walk" => walk.table \notin TableFrames
  PROVE  Filled(L)'
  BY DEF Filled, Shape

\* A write into a page of data disturbs no table.
LEMMA StrayLeafInd ==
  ASSUME IndInv, StrayLeaf PROVE IndInv'
<1>1. /\ pc = "walk" /\ walk.table \notin DOMAIN tables
      /\ WalkDone \/ Finish(FALSE)
      /\ UNCHANGED <<free, usable, tables, roots>>
  BY DEF StrayLeaf
<1>2. PICK L \in Levels : Shape(L) BY DEF IndInv
<1>3. Control' /\ WalkAt(L)' /\ result' \in BOOLEAN /\ destroy' = None
  BY <1>1, FinishControl, WalkDoneControl
<1>4. destroy = None BY <1>1, WalkFacts
<1>5. Trees(L)' BY <1>1, <1>2, <1>3, <1>4, TreesSame DEF Shape
<1>6. walk.table \notin TableFrames
  BY <1>1, <1>2 DEF Shape, WalkAt, IndInv, Memory
<1>7. Filled(L)' BY <1>1, <1>2, <1>6, FilledSame
<1>8. Memory' BY <1>1, <1>3 DEF IndInv, Memory
<1> QED BY <1>3, <1>5, <1>7, <1>8 DEF IndInv, Shape

\* A call outside map_page goes on to another, or returns.
LEMMA MovesInd ==
  ASSUME IndInv, pc \in {"idle", "region"}, pc' \in {"idle", "region"}, destroy' = None,
         Control', result' \in BOOLEAN, UNCHANGED <<free, usable, tables, roots>>
  PROVE  IndInv'
<1>1. PICK L \in Levels : Shape(L) BY DEF IndInv
<1>2. destroy = None BY DEF IndInv, Control
<1>3. Trees(L)' BY <1>1, <1>2, TreesSame DEF Shape
<1>4. Filled(L)' BY <1>1, FilledSame
<1>5. WalkAt(L)' BY DEF WalkAt
<1>6. Memory' BY DEF IndInv, Memory
<1> QED BY <1>3, <1>4, <1>5, <1>6 DEF IndInv, Shape

\* map_region returns.
LEMMA RegionDoneInd ==
  ASSUME IndInv, RegionDone PROVE IndInv'
<1>1. copy = None BY DEF IndInv, Control
<1>2. pc = "region" /\ Finish(TRUE) /\ UNCHANGED <<free, usable, tables, roots>>
  BY <1>1 DEF RegionDone
<1>3. pc' = "idle" BY <1>2 DEF Finish
<1> QED BY <1>2, <1>3, FinishControl, MovesInd

\* A call is refused.
LEMMA RejectInd ==
  ASSUME IndInv, NEW v, NEW k, NEW n, Reject(v, k, n) PROVE IndInv'
<1>2. pc = "idle" /\ Finish(FALSE) /\ UNCHANGED <<free, usable, tables, roots>>
  BY DEF Reject
<1>3. pc' = "idle" BY <1>2 DEF Finish
<1> QED BY <1>2, <1>3, FinishControl, MovesInd

\* map_region begins.
LEMMA MapRegionInd ==
  ASSUME IndInv, NEW p4 \in roots, NEW v \in Virtuals, NEW k \in DataFrames, NEW n \in Counts,
         NEW f \in Flags, k .. k + n - 1 \subseteq DataFrames, map_region(p4, v, k, n, f)
  PROVE  IndInv'
<1>1. /\ pc = "idle" /\ pc' = "region"
      /\ region' = [p4 |-> p4, virtual |-> v, ptr |-> k, size |-> n, mapped |-> 0, flags |-> f]
      /\ UNCHANGED <<free, usable, tables, roots, walk, copy, destroy, result>>
  BY DEF map_region, StartRegion
<1>2. v \in VPages /\ k \in Nat /\ n \in Nat BY FramesAssumption, CallersAssumption
<1>3. n - 0 = n /\ k + (n - 0) - 1 = k + n - 1 BY <1>2
<1>4. RegionOK' BY <1>1, <1>2, <1>3 DEF RegionOK
<1>5. destroy' = None /\ Control' /\ result' \in BOOLEAN
  BY <1>1, <1>4 DEF IndInv, Control, Memory
<1> QED BY <1>1, <1>5, MovesInd

\* A walk begins at the root, which is a table of level 4.
LEMMA StartWalkInd ==
  ASSUME IndInv, pc \in {"idle", "region"}, NEW p4 \in roots, NEW v \in VPages,
         NEW k \in DataFrames, NEW f \in Flags, NEW last \in {1, 2}, NEW n,
         n = IF last = 2 THEN _2MB ELSE 1, is_aligned(v, n), is_aligned(k, n),
         StartWalk(p4, v, k, f, last), pc = "region" => n <= region.size - region.mapped,
         UNCHANGED <<free, usable, tables, roots, region, copy, destroy, result>>
  PROVE  IndInv'
<1>1. /\ pc' = "walk"
      /\ walk' = [p4 |-> p4, virtual |-> v, kernel |-> k, flags |-> f,
                  table |-> p4, level |-> 4, last |-> last]
  BY DEF StartWalk
<1>2. PICK L \in Levels : Shape(L) BY DEF IndInv
<1>3. p4 \in TableFrames \ free /\ L[p4] = 4 BY <1>2 DEF IndInv, Memory, Shape, Trees
<1>4. destroy = None /\ (pc = "idle" => region = None) /\ (pc = "region" => RegionOK) /\ copy = None
  BY DEF IndInv, Control
<1>5. Trees(L)' BY <1>2, TreesSame DEF Shape
<1>6. Filled(L)' BY <1>2, FilledSame
<1>7. WalkAt(L)' BY <1>1, <1>3 DEF WalkAt, WalkOnPath
<1>8. MappedPages' = n BY <1>1 DEF MappedPages
<1>9. RegionOK => RegionOK' BY DEF RegionOK
<1>10. WalkOK'
  <2>1. walk' \in [p4 : roots', virtual : VPages, kernel : DataFrames, flags : Flags,
                   table : TableFrames \cup DataFrames, level : 1 .. 4, last : {1, 2}]
    BY <1>1, <1>3
  <2>2. walk'.last <= walk'.level /\ walk'.virtual = v /\ walk'.kernel = k BY <1>1
  <2>3. region' # None => RegionOK' /\ n <= region'.size - region'.mapped BY <1>4, <1>9
  <2> QED BY <1>8, <2>1, <2>2, <2>3 DEF WalkOK
<1>11. Control' BY <1>1, <1>4, <1>10 DEF Control
<1>12. Memory' BY DEF IndInv, Memory
<1> QED BY <1>5, <1>6, <1>7, <1>11, <1>12 DEF IndInv, Shape

\* map_page and map_2MB_page begin.
LEMMA MapPageInd ==
  ASSUME IndInv, NEW p4 \in roots, NEW v \in Virtuals, NEW k \in DataFrames, NEW f \in Flags,
         map_page(p4, v, k, f) \/ map_2MB_page(p4, v, k, f)
  PROVE  IndInv'
<1>1. v \in VPages BY CallersAssumption
<1>2. CASE map_page(p4, v, k, f)
  <2>1. /\ pc = "idle" /\ is_aligned(v, 1) /\ is_aligned(k, 1) /\ StartWalk(p4, v, k, f, 1)
        /\ UNCHANGED <<free, usable, tables, roots, region, copy, destroy, result>>
    BY <1>2 DEF map_page, Accepted
  <2>2. 1 = IF 1 = 2 THEN _2MB ELSE 1 OBVIOUS
  <2> QED BY <1>1, <2>1, <2>2, StartWalkInd
<1>3. CASE map_2MB_page(p4, v, k, f)
  <2>1. /\ pc = "idle" /\ is_aligned(v, _2MB) /\ is_aligned(k, _2MB) /\ StartWalk(p4, v, k, f, 2)
        /\ UNCHANGED <<free, usable, tables, roots, region, copy, destroy, result>>
    BY <1>3 DEF map_2MB_page, Accepted
  <2> QED BY <1>1, <2>1, StartWalkInd
<1> QED BY <1>2, <1>3

\* map_region maps its next page, of a size that fits.
LEMMA NextPageInd ==
  ASSUME IndInv, NextPage PROVE IndInv'
<1> DEFINE fits == /\ is_aligned(region.virtual, _2MB) /\ is_aligned(region.ptr, _2MB)
                   /\ region.size - region.mapped >= _2MB
           last == IF fits THEN 2 ELSE 1
           n == IF last = 2 THEN _2MB ELSE 1
<1>1. pc = "region" /\ region.mapped < region.size /\ UNCHANGED <<free, usable, tables, roots>>
  BY DEF NextPage
<1>2. CASE Finish(FALSE)
  <2>1. pc' = "idle" BY <1>2 DEF Finish
  <2> QED BY <1>1, <1>2, <2>1, FinishControl, MovesInd
<1>3. CASE /\ Accepted(region.virtual, region.ptr, 1)
           /\ StartWalk(region.p4, region.virtual, region.ptr, region.flags, last)
           /\ UNCHANGED <<region, copy, destroy, result>>
  <2>1. RegionOK BY <1>1 DEF IndInv, Control
  <2>2. /\ region.p4 \in roots /\ region.virtual \in VPages /\ region.flags \in Flags
        /\ region.ptr \in Nat /\ region.size \in Nat /\ region.mapped \in Nat
    BY <2>1 DEF RegionOK
  <2>3. region.ptr \in region.ptr .. region.ptr + (region.size - region.mapped) - 1
    BY <1>1, <2>2
  <2>4. region.ptr \in DataFrames BY <2>1, <2>3 DEF RegionOK
  <2>5. n <= region.size - region.mapped /\ is_aligned(region.virtual, n) /\ is_aligned(region.ptr, n)
    <3>1. CASE fits BY <2>2, <3>1, EntryCountAssumption DEF _2MB
    <3>2. CASE ~fits BY <1>1, <1>3, <2>2, <3>2 DEF Accepted
    <3> QED BY <3>1, <3>2
  <2>6. last \in {1, 2} OBVIOUS
  <2> HIDE DEF last
  <2> QED BY <1>1, <1>3, <2>2, <2>4, <2>5, <2>6, StartWalkInd
<1> QED BY <1>2, <1>3 DEF NextPage

-----------------------------------------------------------------------------
(* Steps that change a table *)

\* An empty entry leads nowhere.
LEMMA Empty == NoEntry.frame = NULL /\ ~NoEntry.huge /\ NoEntry \in Entry
  BY DEF NoEntry, Entry

\* A new root is a table of its own.
LEMMA NewTableInd ==
  ASSUME IndInv, NEW t \in free, NewTable(t) PROVE IndInv'
<1>1. /\ pc = "idle" /\ free' = free \ {t}
      /\ tables' = [u \in DOMAIN tables \cup {t} |-> IF u = t THEN ZeroedTable ELSE tables[u]]
      /\ roots' = roots \cup {t}
      /\ UNCHANGED <<usable, pc, walk, region, copy, destroy, result>>
  BY DEF NewTable, zeroed_pages, locals
<1>2. PICK L \in Levels : Shape(L) BY DEF IndInv
<1>3. Memory BY DEF IndInv
<1>4. /\ t \in TableFrames /\ TableFrames \ free' = (TableFrames \ free) \cup {t}
      /\ DOMAIN tables = TableFrames \ free
      /\ t \notin roots
  BY <1>1, <1>3 DEF Memory
<1>5. ZeroedTable \in [Indices -> Entry] BY Empty DEF ZeroedTable
<1>6. /\ tables' \in [TableFrames \ free' -> [Indices -> Entry]]
      /\ \A u \in TableFrames \ free : tables'[u] = tables[u]
      /\ \A i \in Indices : tables'[t][i] = NoEntry
  BY <1>1, <1>3, <1>4, <1>5 DEF Memory, ZeroedTable
<1>7. Memory' BY <1>1, <1>3, <1>4, <1>6 DEF Memory
<1>8. Control' BY <1>1 DEF IndInv, Control
<1>9. PICK M : M = [L EXCEPT ![t] = 4] OBVIOUS
<1>10. M \in Levels /\ M[t] = 4 /\ \A u \in TableFrames \ free : M[u] = L[u]
  BY <1>1, <1>4, <1>9 DEF Levels
<1>11. destroy = None /\ destroy' = None BY <1>1 DEF IndInv, Control
<1>12. /\ \A i \in Indices : ~Branch(M, t, i)'
       /\ \A u \in TableFrames \ free, i \in Indices : Branch(M, u, i)' <=> Branch(L, u, i)
  BY <1>6, <1>10, Empty DEF Branch
<1>13. Trees(L) BY <1>2 DEF Shape
<1>14. \A r \in roots' : M[r] = 4 BY <1>1, <1>3, <1>10, <1>13 DEF Trees, Memory
<1>15. Entries(M)'
  <2> SUFFICES ASSUME NEW u \in TableFrames \ free', NEW i \in Indices
               PROVE  /\ tables'[u][i].frame = NULL => tables'[u][i] = NoEntry
                      /\ tables'[u][i].huge => M[u] = 2
                      /\ tables'[u][i].frame # NULL /\ ~Branch(M, u, i)' => tables'[u][i].frame \in DataFrames
    BY DEF Entries
  <2>1. CASE u = t
    <3>1. tables'[u][i] = NoEntry BY <1>6, <2>1
    <3> QED BY <3>1, Empty
  <2>2. CASE u # t BY <1>4, <1>6, <1>10, <1>12, <1>13, <2>2 DEF Trees, Entries
  <2> QED BY <2>1, <2>2
<1>16. Branches(M)'
  <2> SUFFICES ASSUME NEW u \in TableFrames \ free', NEW i \in Indices, Branch(M, u, i)'
               PROVE  /\ tables'[u][i].frame \in TableFrames
                      /\ tables'[u][i].frame \notin free' \cup roots'
                      /\ M[tables'[u][i].frame] = M[u] - 1
    BY <1>11, CalmNext DEF Branches
  <2>1. u \in TableFrames \ free BY <1>4, <1>12
  <2>2. Branch(L, u, i) BY <1>12, <2>1
  <2>3. /\ tables[u][i].frame \in TableFrames \ (free \cup roots)
        /\ L[tables[u][i].frame] = L[u] - 1
    BY <1>11, <1>13, <2>1, <2>2, Calm DEF Trees, Branches
  <2> QED BY <1>1, <1>6, <1>10, <2>1, <2>3
<1>17. Unshared(M)'
  <2> SUFFICES ASSUME NEW u1 \in TableFrames \ free', NEW u2 \in TableFrames \ free',
                      NEW i \in Indices, NEW j \in Indices,
                      Branch(M, u1, i)', Branch(M, u2, j)',
                      tables'[u1][i].frame = tables'[u2][j].frame
               PROVE  u1 = u2 /\ i = j
    BY DEF Unshared
  <2>1. u1 \in TableFrames \ free /\ u2 \in TableFrames \ free BY <1>4, <1>12
  <2>2. Branch(L, u1, i) /\ Branch(L, u2, j) BY <1>12, <2>1
  <2> QED BY <1>6, <1>11, <1>13, <2>1, <2>2, Calm DEF Trees, Unshared
<1>18. Attached(M)'
  <2> SUFFICES ASSUME NEW u \in TableFrames \ (free' \cup roots')
               PROVE  \E s \in TableFrames \ free', i \in Indices :
                        Branch(M, s, i)' /\ tables'[s][i].frame = u
    BY <1>11, CalmNext DEF Attached
  <2>1. u \in TableFrames \ (free \cup roots) BY <1>1
  <2>2. PICK s \in TableFrames \ free, i \in Indices : Branch(L, s, i) /\ tables[s][i].frame = u
    BY <1>11, <1>13, <2>1, Calm DEF Trees, Attached
  <2>3. Branch(M, s, i)' /\ tables'[s][i].frame = u /\ s \in TableFrames \ free'
    BY <1>4, <1>6, <1>12, <2>2
  <2> QED BY <2>3
<1>19. Stack(M)' BY <1>11, CalmNext
<1>20. Filled(M)'
  <2> SUFFICES ASSUME NEW u \in TableFrames \ free', M[u] = 1
               PROVE  \E i \in Indices : tables'[u][i].frame # NULL
    BY DEF Filled
  <2>1. u \in TableFrames \ free /\ L[u] = 1 BY <1>4, <1>10
  <2>2. PICK i \in Indices : tables[u][i].frame # NULL BY <1>1, <1>2, <2>1 DEF Shape, Filled
  <2> QED BY <1>6, <2>1, <2>2
<1>21. WalkAt(M)' BY <1>1 DEF WalkAt
<1>22. Trees(M)' BY <1>14, <1>15, <1>16, <1>17, <1>18, <1>19 DEF Trees
<1>23. Shape(M)' BY <1>20, <1>21, <1>22 DEF Shape
<1> QED BY <1>7, <1>8, <1>10, <1>23 DEF IndInv

\* The last entry of a walk is written, and every other entry is what it was.
LEMMA SetLeafTables ==
  ASSUME IndInv, SetLeaf, NEW w, w = walk.table, NEW x, x = index(walk.virtual, walk.level),
         NEW e, e = [frame |-> walk.kernel, flags |-> walk.flags, huge |-> walk.last = 2],
         NEW L \in Levels, Shape(L)
  PROVE  /\ w \in TableFrames \ free /\ x \in Indices /\ L[w] = walk.last
         /\ tables[w][x] = NoEntry
         /\ e.frame = walk.kernel /\ (e.huge <=> walk.last = 2)
         /\ Typed' /\ tables'[w][x] = e
         /\ \A u \in TableFrames \ free, i \in Indices :
              ~(u = w /\ i = x) => tables'[u][i] = tables[u][i]
<1>1. /\ pc = "walk" /\ walk.level = walk.last /\ w \in DOMAIN tables
      /\ tables[w][x] = NoEntry
      /\ tables' = [tables EXCEPT ![w][x] = e] /\ free' = free
  BY DEF SetLeaf, WalkEntry, EntryAt
<1>3. w \in TableFrames \ free /\ L[w] = walk.level BY <1>1, WalkInTable
<1>4. x \in Indices /\ walk.last \in {1, 2} /\ walk.kernel \in DataFrames /\ walk.flags \in Flags
  BY <1>1, WalkFacts
<1>6. e \in Entry /\ e.frame = walk.kernel /\ (e.huge <=> walk.last = 2) BY <1>4 DEF Entry
<1>7. tables \in [TableFrames \ free -> [Indices -> Entry]] BY DEF IndInv, Memory
<1>8. /\ tables' \in [TableFrames \ free -> [Indices -> Entry]]
      /\ tables'[w][x] = e
      /\ \A u \in TableFrames \ free, i \in Indices :
           ~(u = w /\ i = x) => tables'[u][i] = tables[u][i]
  BY <1>1, <1>3, <1>4, <1>6, <1>7
<1>9. Typed' BY <1>1, <1>8 DEF Typed
<1> QED BY <1>1, <1>3, <1>4, <1>6, <1>8, <1>9

\* A page gets its entry, in a table of the last level or, for a 2MB page, of the one
\* above; the trees stay what they are.
LEMMA SetLeafInd ==
  ASSUME IndInv, SetLeaf PROVE IndInv'
<1>a. PICK w : w = walk.table OBVIOUS
<1>b. PICK x : x = index(walk.virtual, walk.level) OBVIOUS
<1>c. PICK e : e = [frame |-> walk.kernel, flags |-> walk.flags, huge |-> walk.last = 2] OBVIOUS
<1>1. /\ pc = "walk" /\ walk.level = walk.last /\ w \in DOMAIN tables
      /\ tables[w][x] = NoEntry
      /\ WalkDone
      /\ UNCHANGED <<free, usable, roots>>
  BY <1>a, <1>b DEF SetLeaf, WalkEntry, EntryAt
<1>2. PICK L \in Levels : Shape(L) BY DEF IndInv
<1>3. w \in TableFrames \ free /\ L[w] = walk.level BY <1>1, <1>2, <1>a, WalkInTable
<1>4. /\ x \in Indices /\ walk.last \in {1, 2} /\ walk.kernel \in DataFrames /\ walk.flags \in Flags
      /\ destroy = None
  BY <1>1, <1>b, WalkFacts
<1>5. /\ Control' /\ WalkAt(L)' /\ result' \in BOOLEAN /\ destroy' = None /\ pc' # "walk"
  BY <1>1, WalkDoneControl
<1>6. /\ e \in Entry /\ e.frame = walk.kernel /\ (e.huge <=> walk.last = 2)
  BY <1>4, <1>c DEF Entry
<1>8. /\ Typed' /\ tables'[w][x] = e
      /\ \A u \in TableFrames \ free, i \in Indices :
           ~(u = w /\ i = x) => tables'[u][i] = tables[u][i]
  BY <1>2, <1>a, <1>b, <1>c, SetLeafTables
<1>9. walk.kernel # NULL BY <1>4, FramesAssumption
<1>10. ~Branch(L, w, x) /\ ~Branch(L, w, x)'
  <2>1. tables[w][x].frame = NULL BY <1>1, Empty
  <2>2. L[w] = 1 \/ tables'[w][x].huge BY <1>1, <1>3, <1>4, <1>6, <1>8
  <2> QED BY <2>1, <2>2 DEF Branch
<1>11. \A u \in TableFrames \ free, i \in Indices : Branch(L, u, i)' <=> Branch(L, u, i)
  BY <1>8, <1>10 DEF Branch
<1>12. Trees(L) BY <1>2 DEF Shape
<1>13. Entries(L)'
  <2> SUFFICES ASSUME NEW u \in TableFrames \ free, NEW i \in Indices
               PROVE  /\ tables'[u][i].frame = NULL => tables'[u][i] = NoEntry
                      /\ tables'[u][i].huge => L[u] = 2
                      /\ tables'[u][i].frame # NULL /\ ~Branch(L, u, i)' => tables'[u][i].frame \in DataFrames
    BY <1>1 DEF Entries
  <2>1. CASE u = w /\ i = x BY <1>1, <1>3, <1>4, <1>6, <1>8, <1>9, <2>1
  <2>2. CASE ~(u = w /\ i = x) BY <1>8, <1>11, <1>12, <2>2 DEF Trees, Entries
  <2> QED BY <2>1, <2>2
<1>14. \A u \in TableFrames \ free, i \in Indices :
         Branch(L, u, i) => tables'[u][i].frame = tables[u][i].frame
  BY <1>8, <1>10
<1>15. Branches(L)'
  <2> SUFFICES ASSUME NEW u \in TableFrames \ free, NEW i \in Indices, Branch(L, u, i)
               PROVE  /\ tables'[u][i].frame \in TableFrames
                      /\ tables'[u][i].frame \notin free \cup roots
                      /\ L[tables'[u][i].frame] = L[u] - 1
    BY <1>1, <1>5, <1>11, CalmNext DEF Branches
  <2> QED BY <1>4, <1>12, <1>14, Calm DEF Trees, Branches
<1>16. Unshared(L)'
  <2> SUFFICES ASSUME NEW u1 \in TableFrames \ free, NEW u2 \in TableFrames \ free,
                      NEW i \in Indices, NEW j \in Indices,
                      Branch(L, u1, i), Branch(L, u2, j),
                      tables'[u1][i].frame = tables'[u2][j].frame
               PROVE  u1 = u2 /\ i = j
    BY <1>1, <1>11 DEF Unshared
  <2> QED BY <1>4, <1>12, <1>14, Calm DEF Trees, Unshared
<1>17. Attached(L)'
  <2> SUFFICES ASSUME NEW u \in TableFrames \ (free \cup roots)
               PROVE  \E s \in TableFrames \ free, i \in Indices :
                        Branch(L, s, i)' /\ tables'[s][i].frame = u
    BY <1>1, <1>5, CalmNext DEF Attached
  <2>1. PICK s \in TableFrames \ free, i \in Indices : Branch(L, s, i) /\ tables[s][i].frame = u
    BY <1>4, <1>12, Calm DEF Trees, Attached
  <2> QED BY <1>11, <1>14, <2>1
<1>18. Trees(L)'
  BY <1>1, <1>5, <1>12, <1>13, <1>15, <1>16, <1>17, CalmNext DEF Trees
<1>19. Filled(L)'
  <2> SUFFICES ASSUME NEW u \in TableFrames \ free, L[u] = 1
               PROVE  \E i \in Indices : tables'[u][i].frame # NULL
    BY <1>1 DEF Filled
  <2>1. CASE u = w BY <1>4, <1>6, <1>8, <1>9, <2>1
  <2>2. CASE u # w
    <3>1. PICK i \in Indices : tables[u][i].frame # NULL
      BY <1>2, <1>a, <2>2 DEF Shape, Filled
    <3> QED BY <1>8, <2>2, <3>1
  <2> QED BY <2>1, <2>2
<1>20. Memory' BY <1>1, <1>5, <1>8 DEF IndInv, Memory, Typed
<1> QED BY <1>5, <1>18, <1>19, <1>20 DEF IndInv, Shape

\* An entry of a table that is not being destroyed leads to another such table,
\* one level down, unless it is the entry of a page.
LEMMA OneDown ==
  ASSUME NEW L \in Levels, Trees(L), NEW t \in TableFrames \ free, ~OnStack(t),
         NEW i \in Indices, tables[t][i].frame # NULL, L[t] # 1, ~tables[t][i].huge
  PROVE  /\ Branch(L, t, i) /\ ~Visited(t, i)
         /\ tables[t][i].frame \in TableFrames \ (free \cup roots)
         /\ L[tables[t][i].frame] = L[t] - 1 /\ ~OnStack(tables[t][i].frame)
<1>1. Branch(L, t, i) BY DEF Branch
<1>2. ~Visited(t, i) BY DEF Visited, OnStack
<1> QED BY <1>1, <1>2 DEF Trees, Branches

\* The way down from a root: what translate meets
LEMMA Way ==
  ASSUME Memory, NEW L \in Levels, Trees(L), NEW r \in roots, NEW v \in Nat,
         NEW i4, NEW i3, NEW i2, NEW t3, NEW t2, NEW t1,
         i4 = index(v, 4), i3 = index(v, 3), i2 = index(v, 2),
         t3 = Table3(r, v), t2 = Table2(r, v), t1 = Table1(r, v)
  PROVE  /\ i4 \in Indices /\ i3 \in Indices /\ i2 \in Indices
         /\ t3 = tables[r][i4].frame /\ t2 = tables[t3][i3].frame /\ t1 = tables[t2][i2].frame
         /\ r \in TableFrames \ free /\ L[r] = 4 /\ ~OnStack(r)
         /\ t3 # NULL =>
              /\ Branch(L, r, i4) /\ ~Visited(r, i4)
              /\ t3 \in TableFrames \ (free \cup roots) /\ L[t3] = 3 /\ ~OnStack(t3)
              /\ t2 # NULL =>
                   /\ Branch(L, t3, i3) /\ ~Visited(t3, i3)
                   /\ t2 \in TableFrames \ (free \cup roots) /\ L[t2] = 2 /\ ~OnStack(t2)
                   /\ t1 # NULL /\ ~tables[t2][i2].huge =>
                        /\ Branch(L, t2, i2) /\ ~Visited(t2, i2)
                        /\ t1 \in TableFrames \ (free \cup roots) /\ L[t1] = 1 /\ ~OnStack(t1)
                   /\ t1 # NULL /\ tables[t2][i2].huge => t1 \in DataFrames
<1>1. i4 \in Indices /\ i3 \in Indices /\ i2 \in Indices BY IndexType
<1>2. t3 = tables[r][i4].frame /\ t2 = tables[t3][i3].frame /\ t1 = tables[t2][i2].frame
  BY DEF Table3, Table2, Table1, EntryAt
<1>3. r \in TableFrames \ free /\ L[r] = 4 BY DEF Memory, Trees
<1>4. ~OnStack(r) BY DEF Trees, Stack, OnStack
<1>5. \A t \in TableFrames \ free, i \in Indices : tables[t][i].huge => L[t] = 2
  BY DEF Trees, Entries
<1>6. ASSUME t3 # NULL
      PROVE  /\ Branch(L, r, i4) /\ ~Visited(r, i4)
             /\ t3 \in TableFrames \ (free \cup roots) /\ L[t3] = 3 /\ ~OnStack(t3)
  <2>1. ~tables[r][i4].huge BY <1>1, <1>3, <1>5
  <2> QED BY <1>1, <1>2, <1>3, <1>4, <1>6, <2>1, OneDown
<1>7. ASSUME t3 # NULL, t2 # NULL
      PROVE  /\ Branch(L, t3, i3) /\ ~Visited(t3, i3)
             /\ t2 \in TableFrames \ (free \cup roots) /\ L[t2] = 2 /\ ~OnStack(t2)
  <2>1. t3 \in TableFrames \ free /\ L[t3] = 3 /\ ~OnStack(t3) BY <1>6, <1>7
  <2>2. ~tables[t3][i3].huge BY <1>1, <1>5, <2>1
  <2>3. tables[t3][i3].frame # NULL /\ L[t3] # 1 BY <1>2, <1>7, <2>1
  <2>4. /\ Branch(L, t3, i3) /\ ~Visited(t3, i3)
        /\ tables[t3][i3].frame \in TableFrames \ (free \cup roots)
        /\ L[tables[t3][i3].frame] = L[t3] - 1 /\ ~OnStack(tables[t3][i3].frame)
    BY <1>1, <2>1, <2>2, <2>3, OneDown
  <2>5. t2 = tables[t3][i3].frame BY <1>2
  <2>6. L[t2] = 2 BY <2>1, <2>4, <2>5
  <2> QED BY <2>4, <2>5, <2>6
<1>8. ASSUME t3 # NULL, t2 # NULL, t1 # NULL, ~tables[t2][i2].huge
      PROVE  /\ Branch(L, t2, i2) /\ ~Visited(t2, i2)
             /\ t1 \in TableFrames \ (free \cup roots) /\ L[t1] = 1 /\ ~OnStack(t1)
  <2>1. t2 \in TableFrames \ free /\ L[t2] = 2 /\ ~OnStack(t2) BY <1>7, <1>8
  <2>2. tables[t2][i2].frame # NULL BY <1>2, <1>8
  <2>3. /\ Branch(L, t2, i2) /\ ~Visited(t2, i2)
        /\ tables[t2][i2].frame \in TableFrames \ (free \cup roots)
        /\ L[tables[t2][i2].frame] = L[t2] - 1 /\ ~OnStack(tables[t2][i2].frame)
    BY <1>1, <1>8, <2>1, <2>2, OneDown
  <2>4. t1 = tables[t2][i2].frame BY <1>2
  <2>5. L[t1] = 1 BY <2>1, <2>3, <2>4
  <2> QED BY <2>3, <2>4, <2>5
<1>9. ASSUME t3 # NULL, t2 # NULL, t1 # NULL, tables[t2][i2].huge PROVE t1 \in DataFrames
  <2>1. ~Branch(L, t2, i2) BY <1>9 DEF Branch
  <2>2. t2 \in TableFrames \ free BY <1>7, <1>9
  <2>3. tables[t2][i2].frame # NULL BY <1>2, <1>9
  <2>4. tables[t2][i2].frame \in DataFrames BY <1>1, <2>1, <2>2, <2>3 DEF Trees, Entries
  <2> QED BY <1>2, <2>4
<1> QED BY <1>1, <1>2, <1>3, <1>4, <1>6, <1>7, <1>8, <1>9

\* A new table hangs in the entry that led nowhere, and every other entry is what
\* it was.
LEMMA GrowTables ==
  ASSUME IndInv, NEW t \in free, Grow(t), NEW w, w = walk.table,
         NEW x, x = index(walk.virtual, walk.level),
         NEW e, e = [frame |-> t, flags |-> walk.flags, huge |-> FALSE],
         NEW L \in Levels, Shape(L)
  PROVE  /\ w \in TableFrames \ free /\ x \in Indices /\ t \in TableFrames /\ t # w
         /\ L[w] \in 2 .. 4 /\ L[w] = walk.level
         /\ tables[w][x].frame = NULL /\ e.frame = t /\ ~e.huge
         /\ TableFrames \ free' = (TableFrames \ free) \cup {t}
         /\ Typed' /\ tables'[w][x] = e
         /\ \A u \in TableFrames \ free, i \in Indices :
              ~(u = w /\ i = x) => tables'[u][i] = tables[u][i]
         /\ \A i \in Indices : tables'[t][i] = NoEntry
<1>1. /\ pc = "walk" /\ walk.level > walk.last /\ tables[w][x].frame = NULL
      /\ free' = free \ {t}
      /\ tables' = [u \in DOMAIN tables \cup {t} |->
                      IF u = t THEN ZeroedTable
                      ELSE IF u = w THEN [tables[u] EXCEPT ![x] = e] ELSE tables[u]]
  BY DEF Grow, zeroed_pages, WalkEntry, EntryAt
<1>3. w \in TableFrames \ free /\ L[w] = walk.level BY <1>1, WalkInTable
<1>4. x \in Indices /\ walk.last \in {1, 2} /\ walk.flags \in Flags /\ walk.level \in 1 .. 4
  BY <1>1, WalkFacts
<1>5. L[w] \in 2 .. 4 BY <1>1, <1>3, <1>4
<1>7. /\ t \in TableFrames /\ TableFrames \ free' = (TableFrames \ free) \cup {t}
      /\ DOMAIN tables = TableFrames \ free /\ t # w
      /\ tables \in [TableFrames \ free -> [Indices -> Entry]]
  BY <1>1, <1>3 DEF IndInv, Memory
<1>8. e \in Entry /\ e.frame = t /\ ~e.huge BY <1>4, <1>7 DEF Entry
<1>9. ZeroedTable \in [Indices -> Entry] BY Empty DEF ZeroedTable
<1>10. /\ tables' \in [TableFrames \ free' -> [Indices -> Entry]]
       /\ tables'[w][x] = e
       /\ \A u \in TableFrames \ free, i \in Indices :
            ~(u = w /\ i = x) => tables'[u][i] = tables[u][i]
       /\ \A i \in Indices : tables'[t][i] = NoEntry
  <2>1. tables' = [u \in TableFrames \ free' |->
                     IF u = t THEN ZeroedTable
                     ELSE IF u = w THEN [tables[u] EXCEPT ![x] = e] ELSE tables[u]]
    BY <1>1, <1>7
  <2>2. [tables[w] EXCEPT ![x] = e] \in [Indices -> Entry] BY <1>3, <1>7, <1>8
  <2>3. tables' \in [TableFrames \ free' -> [Indices -> Entry]]
    BY <1>7, <1>9, <2>1, <2>2
  <2>4. tables'[t] = ZeroedTable BY <1>7, <2>1
  <2>5. tables'[w] = [tables[w] EXCEPT ![x] = e] BY <1>3, <1>7, <2>1
  <2>6. \A u \in TableFrames \ free : u # w => tables'[u] = tables[u] BY <1>7, <2>1
  <2>7. tables[w] \in [Indices -> Entry] BY <1>3, <1>7
  <2>8. /\ tables'[w][x] = e
        /\ \A i \in Indices : i # x => tables'[w][i] = tables[w][i]
    BY <1>4, <2>5, <2>7
  <2>9. \A i \in Indices : tables'[t][i] = NoEntry BY <2>4 DEF ZeroedTable
  <2> QED BY <2>3, <2>6, <2>8, <2>9
<1>11. Typed' BY <1>10 DEF Typed
<1> QED BY <1>1, <1>3, <1>4, <1>5, <1>7, <1>8, <1>10, <1>11

\* A new table hangs in the entry that led nowhere, one level below the table it
\* hangs in.
LEMMA GrowInd ==
  ASSUME IndInv, NEW t \in free, Grow(t) PROVE IndInv'
<1>a. PICK w : w = walk.table OBVIOUS
<1>b. PICK x : x = index(walk.virtual, walk.level) OBVIOUS
<1>c. PICK e : e = [frame |-> t, flags |-> walk.flags, huge |-> FALSE] OBVIOUS
<1>d. PICK l : l = walk.level OBVIOUS
<1>1. /\ pc = "walk" /\ walk.level > walk.last /\ tables[w][x].frame = NULL
      /\ free' = free \ {t}
      /\ walk' = [walk EXCEPT !.table = t, !.level = @ - 1]
      /\ UNCHANGED <<usable, roots, pc, region, copy, destroy, result>>
  BY <1>a, <1>b DEF Grow, zeroed_pages, WalkEntry, EntryAt
<1>2. PICK L \in Levels : Shape(L) BY DEF IndInv
<1>3. w \in TableFrames \ free /\ L[w] = l BY <1>1, <1>2, <1>a, <1>d, WalkInTable
<1>4. /\ x \in Indices /\ walk.last \in {1, 2} /\ walk.flags \in Flags /\ l \in 1 .. 4
      /\ destroy = None /\ destroy' = None /\ walk.virtual \in Nat /\ walk.p4 \in roots
  BY <1>1, <1>b, <1>d, WalkFacts
<1>5. l \in 2 .. 4 BY <1>1, <1>4, <1>d
<1>6. Memory BY DEF IndInv
<1>7. /\ t \in TableFrames /\ TableFrames \ free' = (TableFrames \ free) \cup {t}
      /\ DOMAIN tables = TableFrames \ free /\ t \notin roots /\ t # w
      /\ tables \in [TableFrames \ free -> [Indices -> Entry]]
  BY <1>1, <1>3, <1>6 DEF Memory
<1>8. e \in Entry /\ e.frame = t /\ ~e.huge BY <1>4, <1>7, <1>c DEF Entry
<1>10. /\ Typed' /\ tables'[w][x] = e
       /\ \A u \in TableFrames \ free, i \in Indices :
            ~(u = w /\ i = x) => tables'[u][i] = tables[u][i]
       /\ \A i \in Indices : tables'[t][i] = NoEntry
  BY <1>2, <1>a, <1>b, <1>c, GrowTables
<1>11. PICK M : M = [L EXCEPT ![t] = l - 1] OBVIOUS
<1>12. M \in Levels /\ M[t] = l - 1 /\ \A u \in TableFrames \ free : M[u] = L[u]
  BY <1>5, <1>7, <1>11 DEF Levels
<1>13. t # NULL BY <1>7, FramesAssumption
<1>14. /\ \A i \in Indices : ~Branch(M, t, i)'
       /\ Branch(M, w, x)' /\ ~Branch(L, w, x)
       /\ \A u \in TableFrames \ free, i \in Indices :
            ~(u = w /\ i = x) => (Branch(M, u, i)' <=> Branch(L, u, i))
  <2>1. \A i \in Indices : ~Branch(M, t, i)' BY <1>10, Empty DEF Branch
  <2>2. Branch(M, w, x)' /\ ~Branch(L, w, x)
    BY <1>1, <1>3, <1>5, <1>8, <1>10, <1>12, <1>13 DEF Branch
  <2>3. \A u \in TableFrames \ free, i \in Indices :
            ~(u = w /\ i = x) => (Branch(M, u, i)' <=> Branch(L, u, i))
    BY <1>10, <1>12 DEF Branch
  <2> QED BY <2>1, <2>2, <2>3
<1>15. Trees(L) BY <1>2 DEF Shape
<1>16. \A u \in TableFrames \ free, i \in Indices : Branch(L, u, i) =>
          /\ tables[u][i].frame \in TableFrames \ (free \cup roots)
          /\ L[tables[u][i].frame] = L[u] - 1
  BY <1>4, <1>15, Calm DEF Trees, Branches
<1>17. \A r \in roots' : M[r] = 4 BY <1>1, <1>6, <1>12, <1>15 DEF Trees, Memory
<1>18. Entries(M)'
  <2> SUFFICES ASSUME NEW u \in TableFrames \ free', NEW i \in Indices
               PROVE  /\ tables'[u][i].frame = NULL => tables'[u][i] = NoEntry
                      /\ tables'[u][i].huge => M[u] = 2
                      /\ tables'[u][i].frame # NULL /\ ~Branch(M, u, i)' => tables'[u][i].frame \in DataFrames
    BY DEF Entries
  <2>1. CASE u = t
    <3>1. tables'[u][i] = NoEntry BY <1>10, <2>1
    <3> QED BY <3>1, Empty
  <2>2. CASE u = w /\ i = x
    <3>1. tables'[u][i] = e /\ Branch(M, u, i)' BY <1>10, <1>14, <2>2
    <3> QED BY <1>8, <1>13, <3>1
  <2>3. CASE u # t /\ ~(u = w /\ i = x)
    <3>1. u \in TableFrames \ free BY <1>7, <2>3
    <3> QED BY <1>10, <1>12, <1>14, <1>15, <2>3, <3>1 DEF Trees, Entries
  <2> QED BY <2>1, <2>2, <2>3
<1>19. Branches(M)'
  <2> SUFFICES ASSUME NEW u \in TableFrames \ free', NEW i \in Indices, Branch(M, u, i)'
               PROVE  /\ tables'[u][i].frame \in TableFrames
                      /\ tables'[u][i].frame \notin free' \cup roots'
                      /\ M[tables'[u][i].frame] = M[u] - 1
    BY <1>4, CalmNext DEF Branches
  <2>1. u \in TableFrames \ free BY <1>7, <1>14
  <2>2. CASE u = w /\ i = x BY <1>1, <1>3, <1>7, <1>8, <1>10, <1>12, <2>2
  <2>3. CASE ~(u = w /\ i = x)
    <3>1. Branch(L, u, i) BY <1>14, <2>1, <2>3
    <3>2. tables'[u][i].frame = tables[u][i].frame BY <1>10, <2>1, <2>3
    <3> QED BY <1>1, <1>12, <1>16, <2>1, <3>1, <3>2
  <2> QED BY <2>2, <2>3
<1>20. Unshared(M)'
  <2> SUFFICES ASSUME NEW u1 \in TableFrames \ free', NEW u2 \in TableFrames \ free',
                      NEW i \in Indices, NEW j \in Indices,
                      Branch(M, u1, i)', Branch(M, u2, j)',
                      tables'[u1][i].frame = tables'[u2][j].frame
               PROVE  u1 = u2 /\ i = j
    BY DEF Unshared
  <2>1. u1 \in TableFrames \ free /\ u2 \in TableFrames \ free BY <1>7, <1>14
  <2>2. \A u \in TableFrames \ free, k \in Indices :
          Branch(M, u, k)' /\ ~(u = w /\ k = x) => /\ Branch(L, u, k)
                                                   /\ tables'[u][k].frame = tables[u][k].frame
                                                   /\ tables'[u][k].frame # t
    BY <1>10, <1>14, <1>16
  <2>3. tables'[w][x].frame = t BY <1>8, <1>10
  <2>4. CASE u1 = w /\ i = x BY <2>1, <2>2, <2>3, <2>4
  <2>5. CASE u2 = w /\ j = x BY <2>1, <2>2, <2>3, <2>5
  <2>6. CASE ~(u1 = w /\ i = x) /\ ~(u2 = w /\ j = x)
    <3>1. /\ Branch(L, u1, i) /\ Branch(L, u2, j)
          /\ tables[u1][i].frame = tables[u2][j].frame
      BY <2>1, <2>2, <2>6
    <3> QED BY <1>4, <1>15, <2>1, <3>1, Calm DEF Trees, Unshared
  <2> QED BY <2>4, <2>5, <2>6
<1>21. Attached(M)'
  <2> SUFFICES ASSUME NEW u \in TableFrames \ (free' \cup roots')
               PROVE  \E s \in TableFrames \ free', i \in Indices :
                        Branch(M, s, i)' /\ tables'[s][i].frame = u
    BY <1>4, CalmNext DEF Attached
  <2>1. CASE u = t BY <1>3, <1>4, <1>7, <1>8, <1>10, <1>14, <2>1
  <2>2. CASE u # t
    <3>1. u \in TableFrames \ (free \cup roots) BY <1>1, <1>7, <2>2
    <3>2. PICK s \in TableFrames \ free, i \in Indices : Branch(L, s, i) /\ tables[s][i].frame = u
      BY <1>4, <1>15, <3>1, Calm DEF Trees, Attached
    <3>3. ~(s = w /\ i = x) BY <1>14, <3>2
    <3>4. Branch(M, s, i)' /\ tables'[s][i].frame = u /\ s \in TableFrames \ free'
      BY <1>7, <1>10, <1>14, <3>2, <3>3
    <3> QED BY <3>4
  <2> QED BY <2>1, <2>2
<1>22. Trees(M)' BY <1>4, <1>17, <1>18, <1>19, <1>20, <1>21, CalmNext DEF Trees
<1>23. /\ Control'
       /\ walk'.p4 = walk.p4 /\ walk'.virtual = walk.virtual
       /\ walk'.table = t /\ walk'.level = l - 1
  BY <1>1, <1>7, <1>d, WalkDown
<1>24. Filled(M)'
  <2> SUFFICES ASSUME NEW u \in TableFrames \ free', M[u] = 1, u # t
               PROVE  \E i \in Indices : tables'[u][i].frame # NULL
    BY <1>1, <1>23 DEF Filled
  <2>1. u \in TableFrames \ free /\ L[u] = 1 /\ u # w BY <1>3, <1>5, <1>7, <1>12
  <2>2. PICK i \in Indices : tables[u][i].frame # NULL BY <1>2, <1>a, <2>1 DEF Shape, Filled
  <2> QED BY <1>10, <2>1, <2>2
<1>25. WalkOnPath'
  <2>a. PICK r : r = walk.p4 OBVIOUS
  <2>b. PICK v : v = walk.virtual OBVIOUS
  <2>c. PICK i4, i3, i2, t3, t2, t1 :
          /\ i4 = index(v, 4) /\ i3 = index(v, 3) /\ i2 = index(v, 2)
          /\ t3 = Table3(r, v) /\ t2 = Table2(r, v) /\ t1 = Table1(r, v)
    OBVIOUS
  <2>1. WalkOnPath BY <1>1, <1>2 DEF Shape, WalkAt
  <2>1a. w # NULL /\ r \in roots /\ v \in Nat BY <1>3, <1>4, <2>a, <2>b, FramesAssumption
  <2>2. /\ i4 \in Indices /\ i3 \in Indices /\ i2 \in Indices
        /\ t3 = tables[r][i4].frame /\ t2 = tables[t3][i3].frame /\ t1 = tables[t2][i2].frame
        /\ r \in TableFrames \ free /\ L[r] = 4
        /\ t3 # NULL => t3 \in TableFrames \ free /\ L[t3] = 3
    BY <1>6, <1>15, <2>1a, <2>c, Way
  <2>3. /\ Table3(r, v)' = tables'[r][i4].frame
        /\ Table2(r, v)' = tables'[Table3(r, v)'][i3].frame
        /\ Table1(r, v)' = tables'[Table2(r, v)'][i2].frame
    BY <2>c DEF Table3, Table2, Table1, EntryAt
  <2>4. CASE l = 4
    <3>1. w = r /\ x = i4 BY <1>a, <1>b, <1>d, <2>1, <2>4, <2>a, <2>b, <2>c DEF WalkOnPath
    <3>2. Table3(r, v)' = t BY <1>8, <1>10, <2>3, <3>1
    <3> QED BY <1>23, <2>4, <2>a, <2>b, <3>2 DEF WalkOnPath
  <2>5. CASE l = 3
    <3>1. w = t3 /\ x = i3 BY <1>a, <1>b, <1>d, <2>1, <2>5, <2>a, <2>b, <2>c DEF WalkOnPath
    <3>2. r # w BY <1>3, <2>2, <2>5
    <3>3. Table3(r, v)' = w BY <1>10, <2>2, <2>3, <3>1, <3>2
    <3>4. Table2(r, v)' = t BY <1>8, <1>10, <2>3, <3>1, <3>3
    <3> QED BY <1>23, <2>1a, <2>5, <2>a, <2>b, <3>3, <3>4 DEF WalkOnPath
  <2>6. CASE l = 2
    <3>1. w = t2 /\ x = i2 /\ t3 # NULL
      BY <1>a, <1>b, <1>d, <2>1, <2>6, <2>a, <2>b, <2>c DEF WalkOnPath
    <3>2. r # w /\ t3 # w BY <1>3, <2>2, <2>6, <3>1
    <3>3. Table3(r, v)' = t3 BY <1>10, <2>2, <2>3, <3>2
    <3>4. Table2(r, v)' = w BY <1>10, <2>2, <2>3, <3>1, <3>2, <3>3
    <3>5. Table1(r, v)' = t BY <1>8, <1>10, <2>3, <3>1, <3>4
    <3> QED BY <1>23, <2>1a, <2>6, <2>a, <2>b, <3>1, <3>3, <3>4, <3>5 DEF WalkOnPath
  <2> QED BY <1>5, <2>4, <2>5, <2>6
<1>26. WalkAt(M)' BY <1>1, <1>7, <1>12, <1>23, <1>25 DEF WalkAt
<1>27. Memory' BY <1>1, <1>6, <1>7, <1>10 DEF Memory, Typed
<1> QED BY <1>12, <1>22, <1>23, <1>24, <1>26, <1>27 DEF IndInv, Shape

-----------------------------------------------------------------------------
(* destroy_table *)

\* The root that is to be destroyed becomes the bottom of the stack.
LEMMA DestroyInd ==
  ASSUME IndInv, NEW p4 \in roots, destroy_table(p4, FALSE) PROVE IndInv'
<1>1. /\ pc = "idle" /\ pc' = "destroy"
      /\ destroy' = <<[table |-> p4, level |-> 4, next |-> 0, bootboot |-> FALSE]>>
      /\ roots' = roots \ {p4}
      /\ UNCHANGED <<free, usable, tables, walk, region, copy, result>>
  BY DEF destroy_table, StartDestroy
<1>2. PICK L \in Levels : Shape(L) BY DEF IndInv
<1>3. Memory /\ Trees(L) /\ destroy = None /\ region = None /\ copy = None
  BY <1>1, <1>2 DEF IndInv, Shape, Control
<1>4. p4 \in TableFrames \ free /\ L[p4] = 4 BY <1>3 DEF Memory, Trees
<1>5. /\ destroy' \in Seq(Frame) /\ Len(destroy') = 1
      /\ destroy'[1].table = p4 /\ destroy'[1].level = 4 /\ destroy'[1].next = 0
  BY <1>1, <1>4 DEF Frame
<1>6. \A u : OnStack(u)' <=> u = p4 BY <1>5 DEF OnStack
<1>7. \A t, i : i \in Indices => ~Visited(t, i)' BY <1>5 DEF Visited, Indices
<1>8. Memory' BY <1>1, <1>3 DEF Memory
<1>9. Control' BY <1>1, <1>3, <1>5 DEF Control
<1>10. \A t, i : Branch(L, t, i)' <=> Branch(L, t, i) BY <1>1 DEF Branch
<1>11. Entries(L)' BY <1>1, <1>3, <1>10 DEF Trees, Entries
<1>12. Branches(L)'
  <2> SUFFICES ASSUME NEW t \in TableFrames \ free, NEW i \in Indices, Branch(L, t, i)
               PROVE  /\ tables[t][i].frame \in TableFrames \ (free \cup roots')
                      /\ L[tables[t][i].frame] = L[t] - 1 /\ ~OnStack(tables[t][i].frame)'
    BY <1>1, <1>7, <1>10 DEF Branches
  <2>1. /\ tables[t][i].frame \in TableFrames \ (free \cup roots)
        /\ L[tables[t][i].frame] = L[t] - 1
    BY <1>3, Calm DEF Trees, Branches
  <2> QED BY <1>1, <1>6, <2>1
<1>13. Unshared(L)' BY <1>1, <1>3, <1>7, <1>10, Calm DEF Trees, Unshared
<1>14. Attached(L)'
  <2> SUFFICES ASSUME NEW u \in TableFrames \ (free \cup roots'), ~OnStack(u)'
               PROVE  \E t \in TableFrames \ free, i \in Indices :
                        Branch(L, t, i) /\ tables[t][i].frame = u
    BY <1>1, <1>7, <1>10 DEF Attached
  <2>1. u \in TableFrames \ (free \cup roots) BY <1>1, <1>6
  <2> QED BY <1>3, <2>1, Calm DEF Trees, Attached
<1>15. Stack(L)'
  <2>1. 1 .. Len(destroy') = {1} BY <1>5
  <2> QED BY <1>1, <1>4, <1>5, <2>1 DEF Stack
<1>16. \A r \in roots' : L[r] = 4 BY <1>1, <1>3 DEF Trees
<1>17. Trees(L)' BY <1>11, <1>12, <1>13, <1>14, <1>15, <1>16 DEF Trees
<1>18. Filled(L)' BY <1>1, <1>2, FilledSame
<1>19. WalkAt(L)' BY <1>1 DEF WalkAt
<1> QED BY <1>8, <1>9, <1>17, <1>18, <1>19 DEF IndInv, Shape

\* The facts about the innermost call of destroy_table_inner that its steps use
LEMMA TopFacts ==
  ASSUME IndInv, pc = "destroy", NEW L \in Levels, Shape(L),
         NEW n, n = Len(destroy), NEW s, s = Last(destroy).table
  PROVE  /\ destroy \in Seq(Frame) /\ n \in Nat \ {0} /\ Last(destroy) = destroy[n]
         /\ \A j \in 1 .. n : destroy[j] \in Frame
         /\ s \in TableFrames \ (free \cup roots)
         /\ L[s] = 5 - n /\ destroy[n].level = 5 - n /\ s = destroy[n].table /\ n \in 1 .. 4
         /\ \A j \in 1 .. n : destroy[j].table = s => j = n
<1>1. destroy \in Seq(Frame) /\ n \in Nat \ {0} BY DEF IndInv, Control
<1>2. Last(destroy) = destroy[n] BY DEF Last
<1>3. \A j \in 1 .. n : destroy[j] \in Frame BY <1>1
<1>4. \A j \in 1 .. n : /\ destroy[j].table \in TableFrames \ (free \cup roots)
                       /\ L[destroy[j].table] = 5 - j /\ destroy[j].level = 5 - j
  BY DEF Shape, Trees, Stack
<1>5. n \in 1 .. n BY <1>1
<1>6. L[s] \in 1 .. 4 BY <1>2, <1>4, <1>5 DEF Levels
<1>7. n \in 1 .. 4 BY <1>1, <1>2, <1>4, <1>5, <1>6
<1>8. ASSUME NEW j \in 1 .. n, destroy[j].table = s PROVE j = n
  <2>1. 5 - j = 5 - n BY <1>2, <1>4, <1>5, <1>8
  <2> QED BY <1>1, <2>1
<1> QED BY <1>1, <1>2, <1>3, <1>4, <1>5, <1>7, <1>8

\* An entry is looked at: if it leads to a table, that table goes on the stack.
LEMMA VisitInd ==
  ASSUME IndInv, Visit PROVE IndInv'
<1>a. PICK n : n = Len(destroy) OBVIOUS
<1>b. PICK s : s = Last(destroy).table OBVIOUS
<1>c. PICK k : k = Last(destroy).next OBVIOUS
<1>d. PICK e : e = tables[s][k] OBVIOUS
<1>e. PICK seen : seen = [destroy EXCEPT ![n].next = @ + 1] OBVIOUS
<1>f. PICK new : new = [table |-> e.frame, level |-> Last(destroy).level - 1,
                        next |-> 0, bootboot |-> Last(destroy).bootboot] OBVIOUS
<1>g. PICK New : New = IF e.frame = NULL \/ e.huge THEN {} ELSE {e.frame} OBVIOUS
<1>1. /\ pc = "destroy" /\ Last(destroy).level > 1 /\ k < EntryCount
      /\ \/ (e.frame = NULL \/ e.huge) /\ destroy' = seen
         \/ e.frame # NULL /\ ~e.huge /\ destroy' = Append(seen, new)
      /\ UNCHANGED <<free, usable, tables, roots, pc, walk, region, copy, result>>
  BY <1>a, <1>b, <1>c, <1>d, <1>e, <1>f DEF Visit
<1>2. PICK L \in Levels : Shape(L) BY DEF IndInv
<1>3. /\ destroy \in Seq(Frame) /\ n \in Nat \ {0} /\ Last(destroy) = destroy[n]
      /\ s \in TableFrames \ (free \cup roots)
      /\ L[s] = 5 - n /\ destroy[n].level = 5 - n /\ s = destroy[n].table /\ n \in 1 .. 4
      /\ \A j \in 1 .. n : destroy[j].table = s => j = n
      /\ \A j \in 1 .. n : destroy[j] \in Frame
  BY <1>1, <1>2, <1>a, <1>b, TopFacts
<1>4. k = destroy[n].next /\ k \in Nat BY <1>3, <1>c DEF Frame
<1>5. k \in Indices BY <1>1, <1>4, EntryCountAssumption DEF Indices
<1>6. Trees(L) BY <1>2 DEF Shape
<1>7. L[s] # 1 BY <1>1, <1>3
<1>8. Branch(L, s, k) <=> ~(e.frame = NULL \/ e.huge) BY <1>7, <1>d DEF Branch
<1>9. ~Visited(s, k) BY <1>3, <1>4, <1>a DEF Visited
<1>10. Branch(L, s, k) => /\ e.frame \in TableFrames \ (free \cup roots)
                          /\ L[e.frame] = L[s] - 1 /\ ~OnStack(e.frame)
  BY <1>3, <1>5, <1>6, <1>9, <1>d DEF Trees, Branches
<1>11. /\ seen \in Seq(Frame) /\ Len(seen) = n
       /\ \A j \in 1 .. n : seen[j].table = destroy[j].table /\ seen[j].level = destroy[j].level
       /\ \A j \in 1 .. n : j # n => seen[j].next = destroy[j].next
       /\ seen[n].next = k + 1
  <2>1. PICK f : f = [destroy[n] EXCEPT !.next = k + 1] OBVIOUS
  <2>2. destroy[n] \in Frame BY <1>3
  <2>3. f \in Frame /\ f.table = destroy[n].table /\ f.level = destroy[n].level /\ f.next = k + 1
    BY <1>4, <2>1, <2>2 DEF Frame
  <2>4. seen = [destroy EXCEPT ![n] = f] BY <1>4, <1>e, <2>1
  <2>5. n \in 1 .. Len(destroy) BY <1>3, <1>a
  <2>6. /\ seen \in Seq(Frame) /\ Len(seen) = n /\ seen[n] = f
        /\ \A j \in 1 .. n : j # n => seen[j] = destroy[j]
    BY <1>3, <1>a, <2>3, <2>4, <2>5, ExceptSeq
  <2> QED BY <2>3, <2>6
<1>12. /\ destroy' \in Seq(Frame) /\ Len(destroy') >= 1
       /\ \A u : OnStack(u)' <=> OnStack(u) \/ u \in New
       /\ \A t \in TableFrames, i \in Indices : Visited(t, i)' <=> Visited(t, i) \/ (t = s /\ i = k)
       /\ Stack(L)'
  <2>0. /\ \A u : OnStack(u) <=> \E j \in 1 .. n : seen[j].table = u
        /\ \A t \in TableFrames, i \in Indices :
             (\E j \in 1 .. n : seen[j].table = t /\ i < seen[j].next)
               <=> Visited(t, i) \/ (t = s /\ i = k)
        /\ \A j \in 1 .. n : /\ seen[j].table \in TableFrames \ (free \cup roots)
                             /\ L[seen[j].table] = 5 - j /\ seen[j].level = 5 - j
    <3>1. \A u : OnStack(u) <=> \E j \in 1 .. n : seen[j].table = u BY <1>11, <1>a DEF OnStack
    <3>2. ASSUME NEW t \in TableFrames, NEW i \in Indices
          PROVE  (\E j \in 1 .. n : seen[j].table = t /\ i < seen[j].next)
                   <=> Visited(t, i) \/ (t = s /\ i = k)
      <4>0. i \in Nat BY DEF Indices
      <4>1. ASSUME NEW j \in 1 .. n, seen[j].table = t, i < seen[j].next
            PROVE  Visited(t, i) \/ (t = s /\ i = k)
        <5>1. CASE j = n
          <6>1. i < k + 1 /\ t = s BY <1>3, <1>11, <4>1, <5>1
          <6>2. i < k \/ i = k BY <1>4, <4>0, <6>1
          <6> QED BY <1>3, <1>4, <1>a, <5>1, <6>1, <6>2 DEF Visited
        <5>2. CASE j # n BY <1>11, <1>a, <4>1, <5>2 DEF Visited
        <5> QED BY <5>1, <5>2
      <4>2. ASSUME Visited(t, i) PROVE \E j \in 1 .. n : seen[j].table = t /\ i < seen[j].next
        <5>1. PICK j \in 1 .. n : destroy[j].table = t /\ i < destroy[j].next
          BY <1>a, <4>2 DEF Visited
        <5>2. CASE j = n
          <6>1. i < k + 1 BY <1>4, <4>0, <5>1, <5>2
          <6> QED BY <1>11, <5>1, <5>2, <6>1
        <5>3. CASE j # n BY <1>11, <5>1, <5>3
        <5> QED BY <5>2, <5>3
      <4>3. ASSUME t = s, i = k PROVE \E j \in 1 .. n : seen[j].table = t /\ i < seen[j].next
        <5>1. n \in 1 .. n /\ k < k + 1 BY <1>3, <1>4
        <5> QED BY <1>3, <1>11, <4>3, <5>1
      <4> QED BY <4>1, <4>2, <4>3
    <3>3. \A j \in 1 .. n : /\ seen[j].table \in TableFrames \ (free \cup roots)
                            /\ L[seen[j].table] = 5 - j /\ seen[j].level = 5 - j
      BY <1>6, <1>11, <1>a DEF Trees, Stack
    <3> QED BY <3>1, <3>2, <3>3
  <2>1. CASE (e.frame = NULL \/ e.huge) /\ destroy' = seen
    <3>1. New = {} BY <1>g, <2>1
    <3>2. Len(destroy') = n BY <1>11, <2>1
    <3>3. \A u : OnStack(u)' <=> OnStack(u)
      <4>1. \A u : OnStack(u)' <=> \E j \in 1 .. n : seen[j].table = u BY <2>1, <3>2 DEF OnStack
      <4> QED BY <2>0, <4>1
    <3>4. \A t \in TableFrames, i \in Indices : Visited(t, i)' <=> Visited(t, i) \/ (t = s /\ i = k)
      BY <2>0, <2>1, <3>2 DEF Visited
    <3>5. Stack(L)' BY <1>1, <2>0, <2>1, <3>2 DEF Stack
    <3> QED BY <1>3, <1>11, <2>1, <3>1, <3>2, <3>3, <3>4, <3>5
  <2>2. CASE e.frame # NULL /\ ~e.huge /\ destroy' = Append(seen, new)
    <3>1. New = {e.frame} BY <1>g, <2>2
    <3>2. e.frame \in TableFrames \ (free \cup roots) /\ L[e.frame] = L[s] - 1 BY <1>8, <1>10, <2>2
    <3>3. new \in Frame /\ new.table = e.frame /\ new.level = (5 - n) - 1 /\ new.next = 0
      <4>1. Last(destroy).bootboot \in BOOLEAN BY <1>3 DEF Frame
      <4>2. (5 - n) - 1 \in 1 .. 4 BY <1>1, <1>3
      <4> QED BY <1>3, <1>f, <3>2, <4>1, <4>2 DEF Frame
    <3>4. /\ destroy' \in Seq(Frame) /\ Len(destroy') = n + 1
          /\ \A j \in 1 .. n : destroy'[j] = seen[j]
          /\ destroy'[n + 1] = new
      BY <1>11, <2>2, <3>3, AppendProperties
    <3>5. \A j \in 1 .. n + 1 : j \in 1 .. n \/ j = n + 1 BY <1>3
    <3>6. n + 1 \in 1 .. n + 1 /\ (\A j \in 1 .. n : j \in 1 .. n + 1) BY <1>3
    <3>7. \A u : OnStack(u)' <=> OnStack(u) \/ u = e.frame
      <4>1. \A u : OnStack(u)' <=> \E j \in 1 .. n + 1 : destroy'[j].table = u BY <3>4 DEF OnStack
      <4>2. \A u : OnStack(u)' <=> (\E j \in 1 .. n : seen[j].table = u) \/ new.table = u
        BY <3>4, <3>5, <3>6, <4>1
      <4> QED BY <2>0, <3>3, <4>2
    <3>8. \A t \in TableFrames, i \in Indices : Visited(t, i)' <=> Visited(t, i) \/ (t = s /\ i = k)
      <4>1. \A i \in Indices : ~(i < new.next) BY <3>3 DEF Indices
      <4> QED BY <2>0, <3>4, <3>5, <3>6, <4>1 DEF Visited
    <3>9. Stack(L)'
      <4>1. L[new.table] = 5 - (n + 1) /\ new.level = 5 - (n + 1) BY <1>3, <3>2, <3>3
      <4> QED BY <1>1, <2>0, <3>2, <3>3, <3>4, <3>5, <4>1 DEF Stack
    <3> QED BY <1>3, <3>1, <3>4, <3>7, <3>8, <3>9
  <2> QED BY <1>1, <2>1, <2>2
<1>13. \A t, i : Branch(L, t, i)' <=> Branch(L, t, i) BY <1>1 DEF Branch
<1>14. Entries(L)' BY <1>1, <1>6, <1>13 DEF Trees, Entries
<1>15. New # {} => Branch(L, s, k) /\ New = {e.frame} BY <1>8, <1>g
<1>16. Branches(L)'
  <2> SUFFICES ASSUME NEW t \in TableFrames \ free, NEW i \in Indices, Branch(L, t, i),
                      NEW u, u = tables[t][i].frame
               PROVE  /\ u \in TableFrames
                      /\ ~Visited(t, i)' => u \notin free \cup roots /\ L[u] = L[t] - 1 /\ ~OnStack(u)'
                      /\ Visited(t, i)' => u \in free \/ OnStack(u)'
    BY <1>1, <1>13 DEF Branches
  <2>1. /\ u \in TableFrames
        /\ ~Visited(t, i) => u \notin free \cup roots /\ L[u] = L[t] - 1 /\ ~OnStack(u)
        /\ Visited(t, i) => u \in free \/ OnStack(u)
    BY <1>6 DEF Trees, Branches
  <2>2. ASSUME ~Visited(t, i)' PROVE u \notin New
    <3>1. ~Visited(t, i) /\ ~(t = s /\ i = k) BY <1>12, <2>2
    <3> QED BY <1>3, <1>5, <1>6, <1>9, <1>15, <1>d, <3>1 DEF Trees, Unshared
  <2>3. ASSUME t = s, i = k PROVE OnStack(u)'
    <3>1. New = {u} BY <1>8, <1>d, <1>g, <2>3
    <3> QED BY <1>12, <3>1
  <2> QED BY <1>12, <2>1, <2>2, <2>3
<1>17. Unshared(L)' BY <1>1, <1>6, <1>12, <1>13 DEF Trees, Unshared
<1>18. Attached(L)'
  <2> SUFFICES ASSUME NEW u \in TableFrames \ (free \cup roots), ~OnStack(u)'
               PROVE  \E t \in TableFrames \ free, i \in Indices :
                        Branch(L, t, i) /\ ~Visited(t, i)' /\ tables[t][i].frame = u
    BY <1>1, <1>13 DEF Attached
  <2>1. ~OnStack(u) /\ u \notin New BY <1>12
  <2>2. PICK t \in TableFrames \ free, i \in Indices :
          Branch(L, t, i) /\ ~Visited(t, i) /\ tables[t][i].frame = u
    BY <1>6, <2>1 DEF Trees, Attached
  <2>3. ~(t = s /\ i = k) BY <1>8, <1>d, <1>g, <2>1, <2>2
  <2> QED BY <1>12, <2>2, <2>3
<1>19. Trees(L)' BY <1>1, <1>6, <1>12, <1>14, <1>16, <1>17, <1>18 DEF Trees
<1>20. Filled(L)' BY <1>1, <1>2, FilledSame
<1>21. WalkAt(L)' BY <1>1 DEF WalkAt
<1>22. Memory' BY <1>1 DEF IndInv, Memory
<1>23. Control' BY <1>1, <1>12 DEF IndInv, Control
<1> QED BY <1>19, <1>20, <1>21, <1>22, <1>23 DEF IndInv, Shape

\* A table is released when every table that hung below it has been: nothing is
\* lost with it, and nothing that stays leads to it.
LEMMA ReleaseInd ==
  ASSUME IndInv, Release PROVE IndInv'
<1>a. PICK n : n = Len(destroy) OBVIOUS
<1>b. PICK s : s = Last(destroy).table OBVIOUS
<1>1. /\ pc = "destroy"
      /\ Last(destroy).level = 1 \/ Last(destroy).next = EntryCount
      /\ free' = free \cup {s}
      /\ usable' = IF Last(destroy).bootboot THEN usable \cup {s} ELSE usable
      /\ tables' = [u \in DOMAIN tables \ {s} |-> tables[u]]
      /\ \/ n > 1 /\ destroy' = Front(destroy) /\ UNCHANGED <<pc, walk, region, copy, result>>
         \/ n = 1 /\ Finish(TRUE)
      /\ UNCHANGED roots
  BY <1>a, <1>b DEF Release
<1>2. PICK L \in Levels : Shape(L) BY DEF IndInv
<1>3. /\ destroy \in Seq(Frame) /\ n \in Nat \ {0} /\ Last(destroy) = destroy[n]
      /\ s \in TableFrames \ (free \cup roots)
      /\ L[s] = 5 - n /\ destroy[n].level = 5 - n /\ s = destroy[n].table /\ n \in 1 .. 4
      /\ \A j \in 1 .. n : destroy[j].table = s => j = n
      /\ \A j \in 1 .. n : destroy[j] \in Frame
  BY <1>1, <1>2, <1>a, <1>b, TopFacts
<1>4. Trees(L) /\ Memory BY <1>2 DEF IndInv, Shape
<1>5. /\ destroy' \in Seq(Frame) /\ Len(destroy') = n - 1
      /\ \A j \in 1 .. n - 1 : destroy'[j] = destroy[j]
  <2>1. CASE n > 1 /\ destroy' = Front(destroy)
    <3>1. 1 \in 1 .. n + 1 /\ n - 1 \in 1 - 1 .. n BY <1>3, <2>1
    <3>2. destroy' = SubSeq(destroy, 1, n - 1) BY <1>a, <2>1 DEF Front
    <3>3. /\ destroy' \in Seq(Frame)
          /\ Len(destroy') = (IF 1 <= n - 1 THEN (n - 1) - 1 + 1 ELSE 0)
          /\ \A j \in 1 .. (n - 1) - 1 + 1 : destroy'[j] = destroy[1 + j - 1]
      BY <1>3, <1>a, <3>1, <3>2, SubSeqProperties
    <3>4. (n - 1) - 1 + 1 = n - 1 /\ 1 <= n - 1 BY <1>3, <2>1
    <3>5. \A j \in 1 .. n - 1 : 1 + j - 1 = j OBVIOUS
    <3> QED BY <3>3, <3>4, <3>5
  <2>2. CASE n = 1 /\ Finish(TRUE)
    <3>1. destroy' = <<>> BY <2>2 DEF Finish, None
    <3> QED BY <2>2, <3>1
  <2> QED BY <1>1, <2>1, <2>2
<1>6. \A j \in 1 .. n : j \in 1 .. n - 1 \/ j = n BY <1>3
<1>7. \A j \in 1 .. n - 1 : j \in 1 .. n /\ j # n BY <1>3
<1>8. \A u : OnStack(u)' <=> OnStack(u) /\ u # s
  <2>1. \A u : OnStack(u)' <=> \E j \in 1 .. n - 1 : destroy[j].table = u BY <1>5 DEF OnStack
  <2>2. \A u : OnStack(u) <=> \E j \in 1 .. n : destroy[j].table = u BY <1>a DEF OnStack
  <2> QED BY <1>3, <1>6, <1>7, <2>1, <2>2
<1>9. \A t, i : t # s => (Visited(t, i)' <=> Visited(t, i))
  <2>1. \A t, i : Visited(t, i)' <=>
          \E j \in 1 .. n - 1 : destroy[j].table = t /\ i < destroy[j].next
    BY <1>5 DEF Visited
  <2>2. \A t, i : Visited(t, i) <=>
          \E j \in 1 .. n : destroy[j].table = t /\ i < destroy[j].next
    BY <1>a DEF Visited
  <2> QED BY <1>3, <1>6, <1>7, <2>1, <2>2
<1>10. \A i \in Indices : Branch(L, s, i) => Visited(s, i)
  <2>1. CASE Last(destroy).level = 1
    <3>1. L[s] = 1 BY <1>3, <2>1
    <3> QED BY <3>1 DEF Branch
  <2>2. CASE Last(destroy).next = EntryCount
    <3>1. \A i \in Indices : i < EntryCount BY EntryCountAssumption DEF Indices
    <3>2. n \in 1 .. n BY <1>3
    <3> QED BY <1>3, <1>a, <2>2, <3>1, <3>2 DEF Visited
  <2> QED BY <1>1, <2>1, <2>2
<1>11. /\ TableFrames \ free' = (TableFrames \ free) \ {s}
       /\ tables' \in [TableFrames \ free' -> [Indices -> Entry]]
       /\ \A u \in TableFrames \ free' : tables'[u] = tables[u]
       /\ usable' = TableFrames
  <2>1. TableFrames \ free' = (TableFrames \ free) \ {s} BY <1>1
  <2>2. tables \in [TableFrames \ free -> [Indices -> Entry]] /\ usable = TableFrames
    BY <1>4 DEF Memory
  <2>3. usable' = TableFrames
    <3>1. usable \cup {s} = TableFrames BY <1>3, <2>2
    <3> QED BY <1>1, <2>2, <3>1
  <2>4. tables' = [u \in TableFrames \ free' |-> tables[u]] BY <1>1, <2>1, <2>2
  <2> QED BY <2>1, <2>2, <2>3, <2>4
<1>12. \A t \in TableFrames \ free', i \in Indices : Branch(L, t, i)' <=> Branch(L, t, i)
  BY <1>11 DEF Branch
<1>13. Entries(L)'
  <2> SUFFICES ASSUME NEW u \in TableFrames \ free', NEW i \in Indices
               PROVE  /\ tables'[u][i].frame = NULL => tables'[u][i] = NoEntry
                      /\ tables'[u][i].huge => L[u] = 2
                      /\ tables'[u][i].frame # NULL /\ ~Branch(L, u, i)' => tables'[u][i].frame \in DataFrames
    BY DEF Entries
  <2>1. u \in TableFrames \ free BY <1>11
  <2> QED BY <1>4, <1>11, <1>12, <2>1 DEF Trees, Entries
<1>14. Branches(L)'
  <2> SUFFICES ASSUME NEW t \in TableFrames \ free', NEW i \in Indices, Branch(L, t, i)',
                      NEW u, u = tables'[t][i].frame
               PROVE  /\ u \in TableFrames
                      /\ ~Visited(t, i)' => u \notin free' \cup roots' /\ L[u] = L[t] - 1 /\ ~OnStack(u)'
                      /\ Visited(t, i)' => u \in free' \/ OnStack(u)'
    BY DEF Branches
  <2>1. t \in TableFrames \ free /\ t # s /\ Branch(L, t, i) /\ u = tables[t][i].frame
    BY <1>11, <1>12
  <2>2. /\ u \in TableFrames
        /\ ~Visited(t, i) => u \notin free \cup roots /\ L[u] = L[t] - 1 /\ ~OnStack(u)
        /\ Visited(t, i) => u \in free \/ OnStack(u)
    BY <1>4, <2>1 DEF Trees, Branches
  <2>3. OnStack(s) BY <1>3, <1>a DEF OnStack
  <2>5. Visited(t, i)' <=> Visited(t, i) BY <1>9, <2>1
  <2>6. ASSUME ~Visited(t, i) PROVE u \notin free' \cup roots' /\ L[u] = L[t] - 1 /\ ~OnStack(u)'
    BY <1>1, <1>8, <2>2, <2>3, <2>6
  <2>7. ASSUME Visited(t, i) PROVE u \in free' \/ OnStack(u)' BY <1>1, <1>8, <2>2, <2>7
  <2> QED BY <2>2, <2>5, <2>6, <2>7
<1>15. Unshared(L)'
  <2> SUFFICES ASSUME NEW u1 \in TableFrames \ free', NEW u2 \in TableFrames \ free',
                      NEW i \in Indices, NEW j \in Indices,
                      Branch(L, u1, i)', ~Visited(u1, i)', Branch(L, u2, j)', ~Visited(u2, j)',
                      tables'[u1][i].frame = tables'[u2][j].frame
               PROVE  u1 = u2 /\ i = j
    BY DEF Unshared
  <2>1. /\ u1 \in TableFrames \ free /\ u2 \in TableFrames \ free /\ u1 # s /\ u2 # s
        /\ Branch(L, u1, i) /\ Branch(L, u2, j)
        /\ tables[u1][i].frame = tables[u2][j].frame
    BY <1>11, <1>12
  <2>2. ~Visited(u1, i) /\ ~Visited(u2, j) BY <1>9, <2>1
  <2> QED BY <1>4, <2>1, <2>2 DEF Trees, Unshared
<1>16. Attached(L)'
  <2> SUFFICES ASSUME NEW u \in TableFrames \ (free' \cup roots'), ~OnStack(u)'
               PROVE  \E t \in TableFrames \ free', i \in Indices :
                        Branch(L, t, i)' /\ ~Visited(t, i)' /\ tables'[t][i].frame = u
    BY DEF Attached
  <2>1. u \in TableFrames \ (free \cup roots) /\ u # s BY <1>1
  <2>2. ~OnStack(u) BY <1>8, <2>1
  <2>3. PICK t \in TableFrames \ free, i \in Indices :
          Branch(L, t, i) /\ ~Visited(t, i) /\ tables[t][i].frame = u
    BY <1>4, <2>1, <2>2 DEF Trees, Attached
  <2>4. t # s BY <1>10, <2>3
  <2>5. t \in TableFrames \ free' BY <1>11, <2>4
  <2>6. Branch(L, t, i)' /\ ~Visited(t, i)' /\ tables'[t][i].frame = u
    BY <1>9, <1>11, <1>12, <2>3, <2>4, <2>5
  <2> QED BY <2>5, <2>6
<1>17. Stack(L)'
  <2> SUFFICES ASSUME NEW j \in 1 .. n - 1
               PROVE  /\ destroy'[j].table \in TableFrames \ (free' \cup roots')
                      /\ L[destroy'[j].table] = 5 - j /\ destroy'[j].level = 5 - j
    BY <1>5 DEF Stack
  <2>1. j \in 1 .. n /\ j # n BY <1>7
  <2>2. /\ destroy[j].table \in TableFrames \ (free \cup roots)
        /\ L[destroy[j].table] = 5 - j /\ destroy[j].level = 5 - j
    BY <1>4, <1>a, <2>1 DEF Trees, Stack
  <2>3. destroy[j].table # s BY <1>3, <2>1
  <2> QED BY <1>1, <1>5, <2>2, <2>3
<1>18. Trees(L)'
  BY <1>1, <1>4, <1>13, <1>14, <1>15, <1>16, <1>17 DEF Trees
<1>19. Filled(L)'
  <2> SUFFICES ASSUME NEW t \in TableFrames \ free', L[t] = 1
               PROVE  \E i \in Indices : tables'[t][i].frame # NULL
    BY DEF Filled
  <2>1. t \in TableFrames \ free BY <1>11
  <2> QED BY <1>1, <1>2, <1>11, <2>1 DEF Shape, Filled
<1>20. Control' /\ WalkAt(L)' /\ result' \in BOOLEAN
  <2>1. CASE n = 1 /\ Finish(TRUE) BY <2>1, FinishControl
  <2>2. CASE n > 1 /\ UNCHANGED <<pc, walk, region, copy, result>>
    <3>1. Len(destroy') >= 1 BY <1>3, <1>5, <2>2
    <3> QED BY <1>1, <1>5, <2>2, <3>1 DEF IndInv, Control, Memory, WalkAt
  <2> QED BY <1>1, <2>1, <2>2
<1>21. Memory' BY <1>1, <1>4, <1>3, <1>11, <1>20 DEF Memory
<1> QED BY <1>18, <1>19, <1>20, <1>21 DEF IndInv, Shape

-----------------------------------------------------------------------------
(* The invariant holds throughout *)

\* Nothing happens.
LEMMA StutterInd ==
  ASSUME IndInv, UNCHANGED vars PROVE IndInv'
<1>1. UNCHANGED <<free, usable, tables, roots, pc, walk, region, copy, destroy, result>>
  BY DEF vars, locals
<1>2. PICK L \in Levels : Shape(L) BY DEF IndInv
<1>3. Trees(L)' BY <1>1, <1>2, TreesSame DEF Shape
<1>4. Filled(L)' BY <1>1, <1>2 DEF Shape, Filled
<1>5. WalkAt(L)'
  BY <1>1, <1>2 DEF Shape, WalkAt, WalkOnPath, Table3, Table2, Table1, EntryAt
<1>6. Memory' BY <1>1 DEF IndInv, Memory
<1>7. RegionOK => RegionOK' BY <1>1 DEF RegionOK
<1>8. WalkOK => WalkOK' BY <1>1, <1>7 DEF WalkOK, MappedPages
<1>9. Control' BY <1>1, <1>7, <1>8 DEF IndInv, Control
<1> QED BY <1>3, <1>4, <1>5, <1>6, <1>9 DEF IndInv, Shape

\* Every step of a call and every new call keeps the trees in shape.
LEMMA NextInd == IndInv /\ [Next]_vars => IndInv'
<1> SUFFICES ASSUME IndInv, [Next]_vars PROVE IndInv' OBVIOUS
<1>1. ASSUME NEW t \in free, NewTable(t) PROVE IndInv' BY <1>1, NewTableInd
<1>2. ASSUME NEW v \in Virtuals, NEW k \in DataFrames \cup {NULL}, NEW n \in {1, _2MB}, Reject(v, k, n)
      PROVE  IndInv'
  BY <1>2, RejectInd
<1>3. ASSUME NEW p4 \in roots, NEW v \in Virtuals, NEW k \in DataFrames, NEW f \in Flags,
             map_page(p4, v, k, f) \/ map_2MB_page(p4, v, k, f)
      PROVE  IndInv'
  BY <1>3, MapPageInd
<1>4. ASSUME NEW p4 \in roots, NEW v \in Virtuals, NEW k \in DataFrames, NEW n \in Counts,
             NEW f \in Flags, k .. k + n - 1 \subseteq DataFrames, map_region(p4, v, k, n, f)
      PROVE  IndInv'
  BY <1>4, MapRegionInd
<1>5. ASSUME NEW p4 \in roots, destroy_table(p4, FALSE) PROVE IndInv' BY <1>5, DestroyInd
<1>6. CASE Call BY <1>1, <1>2, <1>3, <1>4, <1>5, <1>6 DEF Call
<1>7. CASE Mapping
  BY <1>7, DescendInd, GiveUpInd, SetLeafInd, StrayLeafInd, NextPageInd, RegionDoneInd, GrowInd
  DEF Mapping
<1>8. CASE Destroying BY <1>8, VisitInd, ReleaseInd DEF Destroying
<1>9. CASE UNCHANGED vars BY <1>9, StutterInd
<1> QED BY <1>6, <1>7, <1>8, <1>9 DEF Next

\* The trees keep their shape (page_tables.c): the inductive invariant.
THEOREM Invariant == Spec => []IndInv
<1>1. Init => IndInv BY InitInd
<1>2. IndInv /\ [Next]_vars => IndInv' BY NextInd
<1> QED BY <1>1, <1>2, PTL DEF Spec

\* Every frame of the allocator is either free or a table, and what is released is
\* usable: no failure of map_page half-way loses a frame, and destroy_table gives
\* none back twice.
THEOREM FramesAreAccounted == Spec => []FramesAccounted
<1>1. IndInv => FramesAccounted BY DEF IndInv, Memory, FramesAccounted
<1> QED BY <1>1, Invariant, PTL

\* Links to a table are branches that destroy_table has not yet been at, unless the
\* table is on its stack.
LEMMA LinksAreBranches ==
  ASSUME IndInv, NEW L \in Levels, Shape(L), NEW u \in DOMAIN tables, NEW l \in Links(u)
  PROVE  /\ l[1] \in TableFrames \ free /\ l[2] \in Indices /\ l = <<l[1], l[2]>>
         /\ tables[l[1]][l[2]].frame = u /\ Branch(L, l[1], l[2])
         /\ ~Visited(l[1], l[2]) => u \notin roots /\ ~OnStack(u)
         /\ Visited(l[1], l[2]) => OnStack(u)
<1>1. DOMAIN tables = TableFrames \ free BY DEF IndInv, Memory
<1>2. /\ l[1] \in TableFrames \ free /\ l[2] \in Indices /\ l = <<l[1], l[2]>>
      /\ tables[l[1]][l[2]].frame = u
  BY <1>1 DEF Links
<1>3. u \in TableFrames /\ u \notin free /\ u # NULL /\ u \notin DataFrames BY <1>1, FramesAssumption
<1>4. Branch(L, l[1], l[2]) BY <1>2, <1>3 DEF Shape, Trees, Entries
<1> QED BY <1>2, <1>3, <1>4 DEF Shape, Trees, Branches

\* The tables form trees, also after calls that failed half-way and during
\* destroy_table: a root hangs nowhere, every other table in exactly one entry or, once
\* destroy_table has entered it, once on its stack.
THEOREM TablesFormTrees == Spec => []TreeShaped
<1>1. ASSUME IndInv PROVE TreeShaped
  <2>1. PICK L \in Levels : Shape(L) BY <1>1 DEF IndInv
  <2>2. Trees(L) /\ Memory BY <1>1, <2>1 DEF IndInv, Shape
  <2>3. DOMAIN tables = TableFrames \ free BY <2>2 DEF Memory
  <2>4. TypeOK BY <1>1, <2>2, <2>3 DEF IndInv, Memory, Control, TypeOK
  <2>5. Len(destroy) \in Nat
    <3>1. CASE pc = "destroy" BY <1>1, <3>1 DEF IndInv, Control
    <3>2. CASE pc # "destroy" BY <1>1, <3>2 DEF IndInv, Control, None
    <3> QED BY <3>1, <3>2
  <2>6. \A j \in 1 .. Len(destroy) : /\ destroy[j].table \in TableFrames \ (free \cup roots)
                                     /\ L[destroy[j].table] = 5 - j
    BY <2>2 DEF Trees, Stack
  <2>7. ASSUME NEW u \in DOMAIN tables, u \in roots
        PROVE  Links(u) = {} /\ \A i \in 1 .. Len(destroy) : destroy[i].table # u
    <3>1. \A i \in 1 .. Len(destroy) : destroy[i].table # u BY <2>6, <2>7
    <3>2. ~OnStack(u) BY <3>1 DEF OnStack
    <3>3. ASSUME NEW l \in Links(u) PROVE FALSE BY <1>1, <2>1, <2>7, <3>2, LinksAreBranches
    <3> QED BY <3>1, <3>3
  <2>8. ASSUME NEW u \in DOMAIN tables, NEW j \in 1 .. Len(destroy), destroy[j].table = u
        PROVE  /\ Cardinality({i \in 1 .. Len(destroy) : destroy[i].table = u}) = 1
               /\ \A i \in 1 .. Len(destroy) : Links(u) \cap ToVisit(i) = {}
    <3>1. ASSUME NEW i \in 1 .. Len(destroy), destroy[i].table = u PROVE i = j
      <4>1. 5 - i = 5 - j BY <2>6, <2>8, <3>1
      <4> QED BY <2>5, <4>1
    <3>2. {i \in 1 .. Len(destroy) : destroy[i].table = u} = {j} BY <2>8, <3>1
    <3>3. Cardinality({j}) = 1 BY FS_Singleton
    <3>4. ASSUME NEW i \in 1 .. Len(destroy), NEW l \in Links(u), l \in ToVisit(i) PROVE FALSE
      <4>1. OnStack(u) BY <2>8 DEF OnStack
      <4>2. Visited(l[1], l[2]) BY <1>1, <2>1, <3>4, <4>1, LinksAreBranches
      <4>3. PICK h \in 1 .. Len(destroy) : destroy[h].table = l[1] /\ l[2] < destroy[h].next
        BY <4>2 DEF Visited
      <4>4. l[1] = destroy[i].table /\ l[2] \in destroy[i].next .. EntryCount - 1
        BY <3>4 DEF ToVisit
      <4>5. h = i
        <5>1. 5 - h = 5 - i BY <2>6, <4>3, <4>4
        <5> QED BY <2>5, <5>1
      <4>6. pc = "destroy"
        <5>1. CASE pc # "destroy"
          <6>1. Len(destroy) = 0 BY <1>1, <5>1 DEF IndInv, Control, None
          <6> QED BY <6>1
        <5> QED BY <5>1
      <4>7. destroy \in Seq(Frame) BY <1>1, <4>6 DEF IndInv, Control
      <4>8. destroy[i].next \in Nat
        <5>1. destroy[i] \in Frame BY <4>7
        <5> QED BY <5>1 DEF Frame
      <4> QED BY <4>3, <4>4, <4>5, <4>8, EntryCountAssumption
    <3> QED BY <3>2, <3>3, <3>4
  <2>9. ASSUME NEW u \in DOMAIN tables, u \notin roots,
               ~\E i \in 1 .. Len(destroy) : destroy[i].table = u
        PROVE  Cardinality(Links(u)) = 1
    <3>1. ~OnStack(u) BY <2>9 DEF OnStack
    <3>2. PICK t \in TableFrames \ free, i \in Indices :
            Branch(L, t, i) /\ ~Visited(t, i) /\ tables[t][i].frame = u
      BY <2>2, <2>3, <2>9, <3>1 DEF Trees, Attached
    <3>3. <<t, i>> \in Links(u) BY <2>3, <3>2 DEF Links
    <3>4. ASSUME NEW l \in Links(u) PROVE l = <<t, i>>
      <4>1. /\ l[1] \in TableFrames \ free /\ l[2] \in Indices /\ l = <<l[1], l[2]>>
            /\ tables[l[1]][l[2]].frame = u /\ Branch(L, l[1], l[2])
            /\ ~Visited(l[1], l[2])
        BY <1>1, <2>1, <3>1, <3>4, LinksAreBranches
      <4>2. l[1] = t /\ l[2] = i BY <2>2, <3>2, <4>1 DEF Trees, Unshared
      <4> QED BY <4>1, <4>2
    <3>5. Links(u) = {<<t, i>>} BY <3>3, <3>4
    <3> QED BY <3>5, FS_Singleton
  <2>10. \A u \in DOMAIN tables : u \in roots => \A i \in 1 .. Len(destroy) : destroy[i].table # u
    BY <2>7
  <2> QED BY <2>3, <2>4, <2>6, <2>7, <2>8, <2>9, <2>10 DEF TreeShaped
<1> QED BY <1>1, Invariant, PTL

-----------------------------------------------------------------------------
(* What the indices of a page tell *)

\* Quotients compare like the multiples they belong to.
LEMMA Multiples ==
  ASSUME NEW a \in Nat \ {0}, NEW j \in Nat, NEW k \in Nat, j < k
  PROVE  a * j + a <= a * k /\ a * j \in Nat /\ a * k \in Nat
<1>1. PICK d \in Nat : k = j + 1 + d BY SMT
<1>2. a * k = a * j + a + a * d BY <1>1, SMT
<1>3. a * d \in Nat BY SMT
<1>4. a * j \in Nat BY SMT
<1> QED BY <1>2, <1>3, <1>4

\* A number is split into quotient and remainder in one way only.
LEMMA Unique ==
  ASSUME NEW a \in Nat \ {0}, NEW q \in Nat, NEW r \in 0 .. a - 1, NEW v, v = a * q + r
  PROVE  v \div a = q /\ v % a = r
<1>1. a * q \in Nat BY SMT
<1>2. v \in Nat BY <1>1
<1>3. PICK p, s : p = v \div a /\ s = v % a OBVIOUS
<1>4. p \in Nat /\ s \in Nat /\ v = a * p + s /\ s < a BY <1>2, <1>3, Division
<1>5. a * p \in Nat BY <1>4, SMT
<1>6. ~(p < q)
  <2> SUFFICES ASSUME p < q PROVE FALSE OBVIOUS
  <2>1. a * p + a <= a * q BY <1>4, Multiples
  <2> QED BY <1>1, <1>4, <1>5, <2>1
<1>7. ~(q < p)
  <2> SUFFICES ASSUME q < p PROVE FALSE OBVIOUS
  <2>1. a * q + a <= a * p BY <1>4, Multiples
  <2> QED BY <1>1, <1>4, <1>5, <2>1
<1>8. p = q BY <1>4, <1>6, <1>7
<1>9. s = r BY <1>1, <1>4, <1>8
<1> QED BY <1>3, <1>8, <1>9

\* A number below a multiple has a quotient below the factor.
LEMMA QuotientBelow ==
  ASSUME NEW a \in Nat \ {0}, NEW c \in Nat, NEW v \in Nat, v < a * c
  PROVE  v \div a < c
<1>1. PICK p, s : p = v \div a /\ s = v % a OBVIOUS
<1>2. p \in Nat /\ s \in Nat /\ v = a * p + s /\ s < a BY <1>1, Division
<1>3. a * p \in Nat /\ a * c \in Nat BY <1>2, SMT
<1>4. ~(c < p)
  <2> SUFFICES ASSUME c < p PROVE FALSE OBVIOUS
  <2>1. a * c + a <= a * p BY <1>2, Multiples
  <2> QED BY <1>2, <1>3, <2>1
<1>5. c # p BY <1>2, <1>3
<1> QED BY <1>1, <1>2, <1>4, <1>5

\* The four indices, as page_table_indices computes them
LEMMA IndexDef ==
  ASSUME NEW v \in Nat
  PROVE  \E p2, p3, p4 \in Nat :
           /\ p2 = v \div EntryCount /\ p3 = p2 \div EntryCount /\ p4 = p3 \div EntryCount
           /\ index(v, 1) = v % EntryCount /\ index(v, 2) = p2 % EntryCount
           /\ index(v, 3) = p3 % EntryCount /\ index(v, 4) = p4 % EntryCount
           /\ v \in VPages => p4 < EntryCount
<1>1. PICK p2 : p2 = v \div EntryCount OBVIOUS
<1>2. PICK p3 : p3 = p2 \div EntryCount OBVIOUS
<1>3. PICK p4 : p4 = p3 \div EntryCount OBVIOUS
<1>4. p2 \in Nat BY <1>1, EntryCountAssumption, Division
<1>5. p3 \in Nat BY <1>2, <1>4, EntryCountAssumption, Division
<1>6. p4 \in Nat BY <1>3, <1>5, EntryCountAssumption, Division
<1>7. shifted(v) = <<v, p2, p3, p4>> BY <1>1, <1>2, <1>3 DEF shifted
<1>8. /\ index(v, 1) = v % EntryCount /\ index(v, 2) = p2 % EntryCount
      /\ index(v, 3) = p3 % EntryCount /\ index(v, 4) = p4 % EntryCount
  BY <1>7 DEF index
<1>9. ASSUME v \in VPages PROVE p4 < EntryCount
  <2>1. PICK a : a = EntryCount * EntryCount OBVIOUS
  <2>2. PICK b : b = EntryCount * a OBVIOUS
  <2>3. a \in Nat BY <2>1, EntryCountAssumption, SMT
  <2>4. b \in Nat BY <2>2, <2>3, EntryCountAssumption, SMT
  <2>5. EntryCount * b \in Nat BY <2>4, EntryCountAssumption, SMT
  <2>6. v < EntryCount * b BY <1>9, <2>1, <2>2, <2>5 DEF VPages, VPageCount
  <2>7. p2 < b BY <1>1, <2>4, <2>6, EntryCountAssumption, QuotientBelow
  <2>8. p3 < a BY <1>2, <1>4, <2>2, <2>3, <2>7, EntryCountAssumption, QuotientBelow
  <2> QED BY <1>3, <1>5, <2>1, <2>8, EntryCountAssumption, QuotientBelow
<1> QED BY <1>1, <1>2, <1>3, <1>4, <1>5, <1>6, <1>8, <1>9

\* Two numbers with the same quotient and remainder are the same.
LEMMA SameParts ==
  ASSUME NEW v \in Nat, NEW w \in Nat, v \div EntryCount = w \div EntryCount,
         v % EntryCount = w % EntryCount
  PROVE  v = w
<1>1. EntryCount \in Nat \ {0} BY EntryCountAssumption
<1>2. /\ v = EntryCount * (v \div EntryCount) + (v % EntryCount)
      /\ w = EntryCount * (w \div EntryCount) + (w % EntryCount)
  BY <1>1, Division
<1> QED BY <1>2

\* The upper three indices tell the 2MB page, the last one the place in it.
LEMMA SameIndices ==
  ASSUME NEW v \in VPages, NEW w \in VPages
  PROVE  /\ index(v, 2) = index(w, 2) /\ index(v, 3) = index(w, 3) /\ index(v, 4) = index(w, 4)
              <=> v \div EntryCount = w \div EntryCount
         /\ v \div EntryCount = w \div EntryCount /\ index(v, 1) = index(w, 1) <=> v = w
<1>0. v \in Nat /\ w \in Nat BY DEF VPages
<1>1. PICK p2, p3, p4 \in Nat :
        /\ p2 = v \div EntryCount /\ p3 = p2 \div EntryCount /\ p4 = p3 \div EntryCount
        /\ index(v, 1) = v % EntryCount /\ index(v, 2) = p2 % EntryCount
        /\ index(v, 3) = p3 % EntryCount /\ index(v, 4) = p4 % EntryCount
        /\ v \in VPages => p4 < EntryCount
  BY <1>0, IndexDef
<1>2. PICK q2, q3, q4 \in Nat :
        /\ q2 = w \div EntryCount /\ q3 = q2 \div EntryCount /\ q4 = q3 \div EntryCount
        /\ index(w, 1) = w % EntryCount /\ index(w, 2) = q2 % EntryCount
        /\ index(w, 3) = q3 % EntryCount /\ index(w, 4) = q4 % EntryCount
        /\ w \in VPages => q4 < EntryCount
  BY <1>0, IndexDef
<1>3. ASSUME p2 % EntryCount = q2 % EntryCount, p3 % EntryCount = q3 % EntryCount,
             p4 % EntryCount = q4 % EntryCount
      PROVE  p2 = q2
  <2>1. \A n \in Nat : n < EntryCount => n % EntryCount = n
    <3> SUFFICES ASSUME NEW n \in Nat, n < EntryCount PROVE n % EntryCount = n OBVIOUS
    <3>1. EntryCount \in Nat \ {0} /\ n \in 0 .. EntryCount - 1 BY EntryCountAssumption
    <3>2. n = EntryCount * 0 + n BY <3>1
    <3> QED BY <3>1, <3>2, Unique
  <2>2. p4 = q4 BY <1>1, <1>2, <1>3, <2>1
  <2>3. p3 = q3 BY <1>1, <1>2, <1>3, <2>2, SameParts
  <2> QED BY <1>1, <1>2, <1>3, <2>3, SameParts
<1>4. ASSUME p2 = q2 PROVE index(v, 2) = index(w, 2) /\ index(v, 3) = index(w, 3) /\ index(v, 4) = index(w, 4)
  BY <1>1, <1>2, <1>4
<1>5. ASSUME p2 = q2, index(v, 1) = index(w, 1) PROVE v = w
  BY <1>0, <1>1, <1>2, <1>5, SameParts
<1> QED BY <1>1, <1>2, <1>3, <1>4, <1>5

\* The pages of an aligned block are those that share its quotient.
LEMMA BlockPages ==
  ASSUME NEW v \in VPages, is_aligned(v, EntryCount), NEW w \in Nat
  PROVE  /\ w \in v .. v + EntryCount - 1 <=> w \div EntryCount = v \div EntryCount
         /\ w \in v .. v + EntryCount - 1 => w \in VPages /\ w % EntryCount = w - v
<1>0. v \in Nat /\ EntryCount \in Nat \ {0} BY EntryCountAssumption DEF VPages
<1>1. PICK q : q = v \div EntryCount OBVIOUS
<1>2. q \in Nat /\ v = EntryCount * q + (v % EntryCount) BY <1>0, <1>1, Division
<1>3. v = EntryCount * q /\ EntryCount * q \in Nat
  <2>1. v % EntryCount = 0 BY DEF is_aligned
  <2>2. EntryCount * q \in Nat BY <1>0, <1>2, SMT
  <2> QED BY <1>2, <2>1, <2>2
<1>4. ASSUME w \in v .. v + EntryCount - 1
      PROVE  w \div EntryCount = q /\ w % EntryCount = w - v /\ w \in VPages
  <2>1. PICK r : r = w - v OBVIOUS
  <2>2. r \in 0 .. EntryCount - 1 BY <1>0, <1>4, <2>1
  <2>3. w \div EntryCount = q /\ w % EntryCount = w - v
    <3>1. w = EntryCount * q + r BY <1>0, <1>3, <2>1
    <3>2. w \div EntryCount = q /\ w % EntryCount = r BY <1>0, <1>2, <2>2, <3>1, Unique
    <3> QED BY <2>1, <3>2
  <2>4. w \in VPages
    <3>1. PICK b : b = EntryCount * (EntryCount * EntryCount) OBVIOUS
    <3>2. b \in Nat
      <4>1. EntryCount * EntryCount \in Nat BY <1>0, SMT
      <4> QED BY <1>0, <3>1, <4>1, SMT
    <3>3. EntryCount * b \in Nat /\ VPageCount = EntryCount * b BY <1>0, <3>1, <3>2, SMT DEF VPageCount
    <3>4. v < EntryCount * b BY <1>0, <3>3 DEF VPages
    <3>5. q < b BY <1>0, <1>1, <3>2, <3>4, QuotientBelow
    <3>6. EntryCount * q + EntryCount <= EntryCount * b BY <1>0, <1>2, <3>2, <3>5, Multiples
    <3>7. w < EntryCount * b BY <1>0, <1>3, <1>4, <3>3, <3>6
    <3> QED BY <3>3, <3>7 DEF VPages
  <2> QED BY <2>3, <2>4
<1>5. ASSUME w \div EntryCount = q PROVE w \in v .. v + EntryCount - 1
  <2>1. w = EntryCount * q + (w % EntryCount) /\ w % EntryCount \in Nat /\ w % EntryCount < EntryCount
    BY <1>0, <1>5, Division
  <2> QED BY <1>0, <1>3, <2>1
<1> QED BY <1>1, <1>4, <1>5

-----------------------------------------------------------------------------
(* What translate sees *)

\* translate, in terms of the tables on the way
LEMMA TranslateDef ==
  ASSUME NEW r, NEW v, NEW i1, NEW i2, i1 = index(v, 1), i2 = index(v, 2),
         NEW t3, NEW t2, NEW t1, t3 = Table3(r, v), t2 = Table2(r, v), t1 = Table1(r, v)
  PROVE  /\ t3 = NULL \/ t2 = NULL \/ t1 = NULL => translate(r, v) = NULL
         /\ t3 # NULL /\ t2 # NULL /\ t1 # NULL =>
              /\ tables[t2][i2].huge => translate(r, v) = t1 + i1
              /\ ~tables[t2][i2].huge => translate(r, v) = tables[t1][i1].frame
  BY DEF translate, Table3, Table2, Table1, EntryAt

\* The same after a step
LEMMA TranslateNext ==
  ASSUME NEW r, NEW v, NEW i1, NEW i2, i1 = index(v, 1), i2 = index(v, 2),
         NEW t3, NEW t2, NEW t1, t3 = Table3(r, v)', t2 = Table2(r, v)', t1 = Table1(r, v)'
  PROVE  /\ t3 = NULL \/ t2 = NULL \/ t1 = NULL => translate(r, v)' = NULL
         /\ t3 # NULL /\ t2 # NULL /\ t1 # NULL =>
              /\ tables'[t2][i2].huge => translate(r, v)' = t1 + i1
              /\ ~tables'[t2][i2].huge => translate(r, v)' = tables'[t1][i1].frame
  BY DEF translate, Table3, Table2, Table1, EntryAt

\* What translate finds depends only on the entries on the way.
LEMMA TranslateSame ==
  ASSUME NEW r, NEW v, NEW i1, NEW i2, NEW i3, NEW i4, NEW t3, NEW t2, NEW t1,
         i1 = index(v, 1), i2 = index(v, 2), i3 = index(v, 3), i4 = index(v, 4),
         t3 = Table3(r, v), t2 = Table2(r, v), t1 = Table1(r, v),
         tables'[r][i4] = tables[r][i4],
         t3 # NULL => tables'[t3][i3] = tables[t3][i3],
         t3 # NULL /\ t2 # NULL => tables'[t2][i2] = tables[t2][i2],
         t3 # NULL /\ t2 # NULL /\ t1 # NULL /\ ~tables[t2][i2].huge => tables'[t1][i1] = tables[t1][i1]
  PROVE  translate(r, v)' = translate(r, v)
<1>1. PICK u3, u2, u1 : u3 = Table3(r, v)' /\ u2 = Table2(r, v)' /\ u1 = Table1(r, v)' OBVIOUS
<1>2. /\ t3 = tables[r][i4].frame /\ t2 = tables[t3][i3].frame /\ t1 = tables[t2][i2].frame
      /\ u3 = tables'[r][i4].frame /\ u2 = tables'[u3][i3].frame /\ u1 = tables'[u2][i2].frame
  BY <1>1 DEF Table3, Table2, Table1, EntryAt
<1>3. /\ t3 = NULL \/ t2 = NULL \/ t1 = NULL => translate(r, v) = NULL
      /\ t3 # NULL /\ t2 # NULL /\ t1 # NULL =>
           /\ tables[t2][i2].huge => translate(r, v) = t1 + i1
           /\ ~tables[t2][i2].huge => translate(r, v) = tables[t1][i1].frame
  BY TranslateDef
<1>4. /\ u3 = NULL \/ u2 = NULL \/ u1 = NULL => translate(r, v)' = NULL
      /\ u3 # NULL /\ u2 # NULL /\ u1 # NULL =>
           /\ tables'[u2][i2].huge => translate(r, v)' = u1 + i1
           /\ ~tables'[u2][i2].huge => translate(r, v)' = tables'[u1][i1].frame
  BY <1>1, TranslateNext
<1>5. u3 = t3 BY <1>2
<1>6. CASE t3 = NULL BY <1>3, <1>4, <1>5, <1>6
<1>7. CASE t3 # NULL
  <2>1. u2 = t2 BY <1>2, <1>5, <1>7
  <2>2. CASE t2 = NULL BY <1>3, <1>4, <2>1, <2>2
  <2>3. CASE t2 # NULL
    <3>1. u1 = t1 /\ tables'[u2][i2] = tables[t2][i2] BY <1>2, <1>7, <2>1, <2>3
    <3>2. CASE t1 = NULL BY <1>3, <1>4, <3>1, <3>2
    <3>3. CASE t1 # NULL BY <1>3, <1>4, <1>5, <1>7, <2>1, <2>3, <3>1, <3>3
    <3> QED BY <3>2, <3>3
  <2> QED BY <2>2, <2>3
<1> QED BY <1>6, <1>7

\* A step that leaves the tables that are not being destroyed alone leaves alone what
\* translate sees from the roots.
LEMMA SpaceSame ==
  ASSUME IndInv, \A u \in TableFrames \ free : ~OnStack(u) => tables'[u] = tables[u]
  PROVE  \A r \in roots, v \in VPages : translate(r, v)' = translate(r, v)
<1> SUFFICES ASSUME NEW r \in roots, NEW v \in VPages PROVE translate(r, v)' = translate(r, v)
  OBVIOUS
<1>1. PICK L \in Levels : Shape(L) BY DEF IndInv
<1>2. Memory /\ Trees(L) /\ v \in Nat BY <1>1 DEF IndInv, Shape, VPages
<1>3. PICK i1, i2, i3, i4, t3, t2, t1 :
        /\ i1 = index(v, 1) /\ i2 = index(v, 2) /\ i3 = index(v, 3) /\ i4 = index(v, 4)
        /\ t3 = Table3(r, v) /\ t2 = Table2(r, v) /\ t1 = Table1(r, v)
  OBVIOUS
<1>4. /\ r \in TableFrames \ free /\ ~OnStack(r)
      /\ t3 # NULL => t3 \in TableFrames \ free /\ ~OnStack(t3)
      /\ t3 # NULL /\ t2 # NULL => t2 \in TableFrames \ free /\ ~OnStack(t2)
      /\ t3 # NULL /\ t2 # NULL /\ t1 # NULL /\ ~tables[t2][i2].huge =>
           t1 \in TableFrames \ free /\ ~OnStack(t1)
  BY <1>2, <1>3, Way
<1>5. /\ tables'[r][i4] = tables[r][i4]
      /\ t3 # NULL => tables'[t3][i3] = tables[t3][i3]
      /\ t3 # NULL /\ t2 # NULL => tables'[t2][i2] = tables[t2][i2]
      /\ t3 # NULL /\ t2 # NULL /\ t1 # NULL /\ ~tables[t2][i2].huge =>
           tables'[t1][i1] = tables[t1][i1]
  BY <1>4
<1> QED BY <1>3, <1>5, TranslateSame

\* A new table holds nothing yet, so that translate finds as little behind the entry
\* it hangs in as before.
LEMMA GrowSpace ==
  ASSUME IndInv, NEW t \in free, Grow(t)
  PROVE  \A r \in roots, v \in VPages : translate(r, v)' = translate(r, v)
<1> SUFFICES ASSUME NEW r \in roots, NEW v \in VPages PROVE translate(r, v)' = translate(r, v)
  OBVIOUS
<1>1. PICK L \in Levels : Shape(L) BY DEF IndInv
<1>2. Memory /\ Trees(L) /\ v \in Nat BY <1>1 DEF IndInv, Shape, VPages
<1>3. PICK w, x, e : /\ w = walk.table /\ x = index(walk.virtual, walk.level)
                     /\ e = [frame |-> t, flags |-> walk.flags, huge |-> FALSE]
  OBVIOUS
<1>4. /\ L[w] \in 2 .. 4 /\ tables[w][x].frame = NULL /\ e.frame = t /\ ~e.huge
      /\ tables'[w][x] = e
      /\ \A u \in TableFrames \ free, i \in Indices :
           ~(u = w /\ i = x) => tables'[u][i] = tables[u][i]
      /\ \A i \in Indices : tables'[t][i] = NoEntry
      /\ t \in TableFrames
  BY <1>1, <1>3, GrowTables
<1>5. PICK i1, i2, i3, i4, t3, t2, t1 :
        /\ i1 = index(v, 1) /\ i2 = index(v, 2) /\ i3 = index(v, 3) /\ i4 = index(v, 4)
        /\ t3 = Table3(r, v) /\ t2 = Table2(r, v) /\ t1 = Table1(r, v)
  OBVIOUS
<1>6. /\ i4 \in Indices /\ i3 \in Indices /\ i2 \in Indices
      /\ t3 = tables[r][i4].frame /\ t2 = tables[t3][i3].frame /\ t1 = tables[t2][i2].frame
      /\ r \in TableFrames \ free
      /\ t3 # NULL => t3 \in TableFrames \ free
      /\ t3 # NULL /\ t2 # NULL => t2 \in TableFrames \ free
      /\ t3 # NULL /\ t2 # NULL /\ t1 # NULL /\ ~tables[t2][i2].huge =>
           t1 \in TableFrames \ free /\ L[t1] = 1
  BY <1>2, <1>5, Way
<1>7. i1 \in Indices /\ t # NULL BY <1>2, <1>4, <1>5, IndexType, FramesAssumption
<1>8. PICK u3, u2, u1 : u3 = Table3(r, v)' /\ u2 = Table2(r, v)' /\ u1 = Table1(r, v)' OBVIOUS
<1>9. u3 = tables'[r][i4].frame /\ u2 = tables'[u3][i3].frame /\ u1 = tables'[u2][i2].frame
  BY <1>5, <1>8 DEF Table3, Table2, Table1, EntryAt
<1>10. t3 = NULL \/ t2 = NULL \/ t1 = NULL => translate(r, v) = NULL BY <1>5, TranslateDef
<1>11. /\ u3 = NULL \/ u2 = NULL \/ u1 = NULL => translate(r, v)' = NULL
       /\ u3 # NULL /\ u2 # NULL /\ u1 # NULL /\ ~tables'[u2][i2].huge =>
            translate(r, v)' = tables'[u1][i1].frame
  BY <1>5, <1>8, TranslateNext
<1>12. \A i \in Indices : tables'[t][i].frame = NULL BY <1>4, Empty
<1>13. CASE r = w /\ i4 = x
  <2>1. t3 = NULL /\ u3 = t BY <1>4, <1>6, <1>9, <1>13
  <2>2. u2 = NULL BY <1>6, <1>9, <1>12, <2>1
  <2> QED BY <1>10, <1>11, <2>1, <2>2
<1>14. CASE ~(r = w /\ i4 = x) /\ t3 # NULL /\ t3 = w /\ i3 = x
  <2>1. u3 = t3 BY <1>4, <1>6, <1>9, <1>14
  <2>2. t2 = NULL /\ u2 = t BY <1>4, <1>6, <1>9, <1>14, <2>1
  <2>3. u1 = NULL BY <1>6, <1>9, <1>12, <2>2
  <2> QED BY <1>10, <1>11, <2>2, <2>3
<1>15. CASE /\ ~(r = w /\ i4 = x) /\ t3 # NULL /\ ~(t3 = w /\ i3 = x)
            /\ t2 # NULL /\ t2 = w /\ i2 = x
  <2>1. u3 = t3 BY <1>4, <1>6, <1>9, <1>15
  <2>2. u2 = t2
    <3>1. tables'[t3][i3] = tables[t3][i3] BY <1>4, <1>6, <1>15
    <3> QED BY <1>6, <1>9, <2>1, <3>1
  <2>3. t1 = NULL /\ u1 = t /\ tables'[u2][i2] = e BY <1>4, <1>6, <1>9, <1>15, <2>2
  <2>4. tables'[u1][i1].frame = NULL BY <1>7, <1>12, <2>3
  <2> QED BY <1>4, <1>7, <1>10, <1>11, <1>15, <2>1, <2>2, <2>3, <2>4
<1>16. CASE /\ ~(r = w /\ i4 = x)
            /\ t3 # NULL => ~(t3 = w /\ i3 = x)
            /\ t3 # NULL /\ t2 # NULL => ~(t2 = w /\ i2 = x)
  <2>1. /\ tables'[r][i4] = tables[r][i4]
        /\ t3 # NULL => tables'[t3][i3] = tables[t3][i3]
        /\ t3 # NULL /\ t2 # NULL => tables'[t2][i2] = tables[t2][i2]
    BY <1>4, <1>6, <1>16
  <2>2. ASSUME t3 # NULL, t2 # NULL, t1 # NULL, ~tables[t2][i2].huge
        PROVE  tables'[t1][i1] = tables[t1][i1]
    <3>0. t1 \in TableFrames \ free /\ L[t1] = 1 BY <1>6, <2>2
    <3>1. t1 \in TableFrames \ free /\ t1 # w BY <1>4, <3>0
    <3> QED BY <1>4, <1>7, <3>1
  <2> QED BY <1>5, <2>1, <2>2, TranslateSame
<1> QED BY <1>13, <1>14, <1>15, <1>16

\* Two ways down that meet in a table of level 2 have come the same way, and so have
\* two that meet in one of level 1.
LEMMA SameWay ==
  ASSUME Memory, NEW L \in Levels, Trees(L),
         NEW r \in roots, NEW v \in Nat, NEW q \in roots, NEW y \in Nat,
         Table3(r, v) # NULL, Table2(r, v) # NULL, Table3(q, y) # NULL, Table2(q, y) # NULL
  PROVE  /\ Table2(r, v) = Table2(q, y) =>
              r = q /\ index(v, 4) = index(y, 4) /\ index(v, 3) = index(y, 3)
         /\ /\ Table1(r, v) = Table1(q, y) /\ Table1(r, v) # NULL
            /\ ~EntryAt(Table2(r, v), v, 2).huge /\ ~EntryAt(Table2(q, y), y, 2).huge
            => Table2(r, v) = Table2(q, y) /\ index(v, 2) = index(y, 2)
<1>1. PICK i2, i3, i4, t3, t2, t1 :
        /\ i2 = index(v, 2) /\ i3 = index(v, 3) /\ i4 = index(v, 4)
        /\ t3 = Table3(r, v) /\ t2 = Table2(r, v) /\ t1 = Table1(r, v)
  OBVIOUS
<1>2. PICK j2, j3, j4, u3, u2, u1 :
        /\ j2 = index(y, 2) /\ j3 = index(y, 3) /\ j4 = index(y, 4)
        /\ u3 = Table3(q, y) /\ u2 = Table2(q, y) /\ u1 = Table1(q, y)
  OBVIOUS
<1>3. /\ i4 \in Indices /\ i3 \in Indices /\ i2 \in Indices
      /\ t3 = tables[r][i4].frame /\ t2 = tables[t3][i3].frame /\ t1 = tables[t2][i2].frame
      /\ r \in TableFrames \ free /\ Branch(L, r, i4) /\ ~Visited(r, i4)
      /\ t3 \in TableFrames \ free /\ Branch(L, t3, i3) /\ ~Visited(t3, i3)
      /\ t2 \in TableFrames \ free
      /\ t1 # NULL /\ ~tables[t2][i2].huge => Branch(L, t2, i2) /\ ~Visited(t2, i2)
  BY <1>1, Way
<1>4. /\ j4 \in Indices /\ j3 \in Indices /\ j2 \in Indices
      /\ u3 = tables[q][j4].frame /\ u2 = tables[u3][j3].frame /\ u1 = tables[u2][j2].frame
      /\ q \in TableFrames \ free /\ Branch(L, q, j4) /\ ~Visited(q, j4)
      /\ u3 \in TableFrames \ free /\ Branch(L, u3, j3) /\ ~Visited(u3, j3)
      /\ u2 \in TableFrames \ free
      /\ u1 # NULL /\ ~tables[u2][j2].huge => Branch(L, u2, j2) /\ ~Visited(u2, j2)
  BY <1>2, Way
<1>5. \A t, u \in TableFrames \ free, i, j \in Indices :
        /\ Branch(L, t, i) /\ ~Visited(t, i) /\ Branch(L, u, j) /\ ~Visited(u, j)
        /\ tables[t][i].frame = tables[u][j].frame
        => t = u /\ i = j
  BY DEF Trees, Unshared
<1>6. ASSUME t2 = u2 PROVE r = q /\ i4 = j4 /\ i3 = j3
  <2>1. /\ Branch(L, t3, i3) /\ ~Visited(t3, i3) /\ Branch(L, u3, j3) /\ ~Visited(u3, j3)
        /\ t3 \in TableFrames \ free /\ u3 \in TableFrames \ free /\ i3 \in Indices /\ j3 \in Indices
        /\ tables[t3][i3].frame = tables[u3][j3].frame
    BY <1>3, <1>4, <1>6
  <2>2. t3 = u3 /\ i3 = j3 BY <1>5, <2>1
  <2>3. /\ Branch(L, r, i4) /\ ~Visited(r, i4) /\ Branch(L, q, j4) /\ ~Visited(q, j4)
        /\ r \in TableFrames \ free /\ q \in TableFrames \ free /\ i4 \in Indices /\ j4 \in Indices
        /\ tables[r][i4].frame = tables[q][j4].frame
    BY <1>3, <1>4, <2>2
  <2>4. r = q /\ i4 = j4 BY <1>5, <2>3
  <2> QED BY <2>2, <2>4
<1>7. ASSUME t1 = u1, t1 # NULL, ~tables[t2][i2].huge, ~tables[u2][j2].huge
      PROVE  t2 = u2 /\ i2 = j2
  <2>1. /\ Branch(L, t2, i2) /\ ~Visited(t2, i2) /\ Branch(L, u2, j2) /\ ~Visited(u2, j2)
        /\ t2 \in TableFrames \ free /\ u2 \in TableFrames \ free /\ i2 \in Indices /\ j2 \in Indices
        /\ tables[t2][i2].frame = tables[u2][j2].frame
    BY <1>3, <1>4, <1>7
  <2> QED BY <1>5, <2>1
<1> QED BY <1>1, <1>2, <1>6, <1>7 DEF EntryAt

\* map_2MB_page gives the frames of one large page to a block of pages that had none,
\* and disturbs no other page of any table.
LEMMA SetLargeSpace ==
  ASSUME IndInv, SetLeaf, walk.last = 2, NEW p, p = walk.p4, NEW v, v = walk.virtual,
         NEW k, k = walk.kernel, NEW r \in roots, NEW y \in VPages
  PROVE  /\ r = p /\ y \in v .. v + EntryCount - 1 =>
              translate(r, y) = NULL /\ translate(r, y)' = k + (y - v)
         /\ ~(r = p /\ y \in v .. v + EntryCount - 1) => translate(r, y)' = translate(r, y)
<1>1. PICK L \in Levels : Shape(L) BY DEF IndInv
<1>2. Memory /\ Trees(L) /\ y \in Nat BY <1>1 DEF IndInv, Shape, VPages
<1>3. PICK w, x, e : /\ w = walk.table /\ x = index(walk.virtual, walk.level)
                     /\ e = [frame |-> walk.kernel, flags |-> walk.flags, huge |-> walk.last = 2]
  OBVIOUS
<1>4. /\ w \in TableFrames \ free /\ x \in Indices /\ L[w] = 2
      /\ tables[w][x] = NoEntry
      /\ e.frame = k /\ e.huge /\ tables'[w][x] = e
      /\ \A u \in TableFrames \ free, i \in Indices :
           ~(u = w /\ i = x) => tables'[u][i] = tables[u][i]
  BY <1>1, <1>3, SetLeafTables
<1>5. pc = "walk" /\ walk.level = 2 BY DEF SetLeaf
<1>6. /\ WalkOK /\ p \in roots /\ v \in VPages /\ v \in Nat /\ k \in DataFrames /\ k # NULL
  BY <1>5, WalkFacts, FramesAssumption
<1>7. is_aligned(v, EntryCount) BY <1>6 DEF WalkOK, MappedPages, _2MB
<1>8. x = index(v, 2) /\ w = Table2(p, v) /\ Table3(p, v) # NULL /\ w # NULL
  <2>1. WalkOnPath BY <1>1, <1>5 DEF Shape, WalkAt
  <2>2. Table3(p, v) # NULL /\ w = Table2(p, v) BY <1>3, <1>5, <2>1 DEF WalkOnPath
  <2> QED BY <1>3, <1>4, <1>5, <2>2, FramesAssumption
<1>9. PICK i1, i2, i3, i4, t3, t2, t1 :
        /\ i1 = index(y, 1) /\ i2 = index(y, 2) /\ i3 = index(y, 3) /\ i4 = index(y, 4)
        /\ t3 = Table3(r, y) /\ t2 = Table2(r, y) /\ t1 = Table1(r, y)
  OBVIOUS
<1>10. /\ i4 \in Indices /\ i3 \in Indices /\ i2 \in Indices
       /\ t3 = tables[r][i4].frame /\ t2 = tables[t3][i3].frame /\ t1 = tables[t2][i2].frame
       /\ r \in TableFrames \ free /\ L[r] = 4
       /\ t3 # NULL => t3 \in TableFrames \ free /\ L[t3] = 3
       /\ t3 # NULL /\ t2 # NULL => t2 \in TableFrames \ free /\ L[t2] = 2
       /\ t3 # NULL /\ t2 # NULL /\ t1 # NULL /\ ~tables[t2][i2].huge =>
            t1 \in TableFrames \ free /\ L[t1] = 1
  BY <1>2, <1>9, Way
<1>11. i1 \in Indices BY <1>2, <1>9, IndexType
<1>12. /\ tables'[r][i4] = tables[r][i4]
       /\ t3 # NULL => tables'[t3][i3] = tables[t3][i3]
  <2>0. L[w] # 4 /\ L[w] # 3 BY <1>4
  <2>1. r # w BY <1>10, <2>0
  <2>2. t3 # NULL => t3 # w BY <1>10, <2>0
  <2> QED BY <1>4, <1>10, <2>1, <2>2
<1>13. CASE t3 # NULL /\ t2 = w /\ i2 = x
  <2>1. r = p /\ i4 = index(v, 4) /\ i3 = index(v, 3)
    <3>1. Table3(r, y) # NULL /\ Table2(r, y) # NULL /\ Table3(p, v) # NULL /\ Table2(p, v) # NULL
          /\ Table2(r, y) = Table2(p, v)
      BY <1>8, <1>9, <1>13
    <3>2. r = p /\ index(y, 4) = index(v, 4) /\ index(y, 3) = index(v, 3)
      BY <1>2, <1>6, <3>1, SameWay
    <3> QED BY <1>9, <3>2
  <2>2. y \div EntryCount = v \div EntryCount
    <3>1. index(y, 2) = index(v, 2) /\ index(y, 3) = index(v, 3) /\ index(y, 4) = index(v, 4)
      BY <1>8, <1>9, <1>13, <2>1
    <3> QED BY <1>6, <3>1, SameIndices
  <2>3. y \in v .. v + EntryCount - 1 /\ y % EntryCount = y - v
    BY <1>2, <1>6, <1>7, <2>2, BlockPages
  <2>4. i1 = y - v
    <3>1. index(y, 1) = y % EntryCount BY <1>2, IndexDef
    <3> QED BY <1>9, <2>3, <3>1
  <2>5. translate(r, y) = NULL
    <3>1. t1 = NULL BY <1>4, <1>10, <1>13, Empty
    <3> QED BY <1>9, <3>1, TranslateDef
  <2>6. translate(r, y)' = k + i1
    <3>1. PICK u3, u2, u1 : u3 = Table3(r, y)' /\ u2 = Table2(r, y)' /\ u1 = Table1(r, y)' OBVIOUS
    <3>2. u3 = tables'[r][i4].frame /\ u2 = tables'[u3][i3].frame /\ u1 = tables'[u2][i2].frame
      BY <1>9, <3>1 DEF Table3, Table2, Table1, EntryAt
    <3>3. u3 = t3 /\ u2 = t2 BY <1>10, <1>12, <1>13, <3>2
    <3>4. u1 = k /\ tables'[u2][i2].huge BY <1>4, <1>13, <3>2, <3>3
    <3>5. u3 # NULL /\ u2 # NULL /\ u1 # NULL BY <1>6, <1>8, <1>13, <3>3, <3>4
    <3>6. u3 # NULL /\ u2 # NULL /\ u1 # NULL =>
            (tables'[u2][i2].huge => translate(r, y)' = u1 + i1)
      BY <1>9, <3>1, TranslateNext
    <3> QED BY <3>4, <3>5, <3>6
  <2> QED BY <2>1, <2>3, <2>4, <2>5, <2>6
<1>14. CASE ~(t3 # NULL /\ t2 = w /\ i2 = x)
  <2>1. ASSUME r = p, y \in v .. v + EntryCount - 1 PROVE FALSE
    <3>1. y \div EntryCount = v \div EntryCount BY <1>2, <1>6, <1>7, <2>1, BlockPages
    <3>2. index(y, 2) = index(v, 2) /\ index(y, 3) = index(v, 3) /\ index(y, 4) = index(v, 4)
      BY <1>6, <3>1, SameIndices
    <3>3. t3 = Table3(p, v) /\ t2 = Table2(p, v)
      BY <1>9, <2>1, <3>2 DEF Table3, Table2, EntryAt
    <3> QED BY <1>8, <1>9, <1>14, <3>2, <3>3
  <2>2. t3 # NULL /\ t2 # NULL => tables'[t2][i2] = tables[t2][i2] BY <1>4, <1>10, <1>14
  <2>3. ASSUME t3 # NULL, t2 # NULL, t1 # NULL, ~tables[t2][i2].huge
        PROVE  tables'[t1][i1] = tables[t1][i1]
    <3>1. t1 \in TableFrames \ free /\ L[t1] = 1 BY <1>10, <2>3
    <3>2. t1 # w BY <1>4, <3>1
    <3> QED BY <1>4, <1>11, <3>1, <3>2
  <2>4. translate(r, y)' = translate(r, y) BY <1>9, <1>12, <2>2, <2>3, TranslateSame
  <2> QED BY <2>1, <2>4
<1> QED BY <1>13, <1>14

\* map_page gives its frame to a page that had none, and disturbs no other page of any
\* table.
LEMMA SetSmallSpace ==
  ASSUME IndInv, SetLeaf, walk.last = 1, NEW p, p = walk.p4, NEW v, v = walk.virtual,
         NEW k, k = walk.kernel, NEW r \in roots, NEW y \in VPages
  PROVE  /\ r = p /\ y = v => translate(r, y) = NULL /\ translate(r, y)' = k
         /\ ~(r = p /\ y = v) => translate(r, y)' = translate(r, y)
<1>1. PICK L \in Levels : Shape(L) BY DEF IndInv
<1>2. Memory /\ Trees(L) /\ y \in Nat BY <1>1 DEF IndInv, Shape, VPages
<1>3. PICK w, x, e : /\ w = walk.table /\ x = index(walk.virtual, walk.level)
                     /\ e = [frame |-> walk.kernel, flags |-> walk.flags, huge |-> walk.last = 2]
  OBVIOUS
<1>4. /\ w \in TableFrames \ free /\ x \in Indices /\ L[w] = 1
      /\ tables[w][x] = NoEntry
      /\ e.frame = k /\ tables'[w][x] = e
      /\ \A u \in TableFrames \ free, i \in Indices :
           ~(u = w /\ i = x) => tables'[u][i] = tables[u][i]
  BY <1>1, <1>3, SetLeafTables
<1>5. pc = "walk" /\ walk.level = 1 BY DEF SetLeaf
<1>6. p \in roots /\ v \in VPages /\ v \in Nat BY <1>5, WalkFacts
<1>7. w # NULL /\ w \notin DataFrames BY <1>4, FramesAssumption
<1>8. /\ x = index(v, 1) /\ w = Table1(p, v) /\ Table3(p, v) # NULL /\ Table2(p, v) # NULL
      /\ ~EntryAt(Table2(p, v), v, 2).huge
  <2>1. WalkOnPath BY <1>1, <1>5 DEF Shape, WalkAt
  <2>2. Table3(p, v) # NULL /\ Table2(p, v) # NULL /\ w = Table1(p, v)
    BY <1>3, <1>5, <2>1 DEF WalkOnPath
  <2>3. PICK j4, j3, j2, s3, s2, s1 :
          /\ j4 = index(v, 4) /\ j3 = index(v, 3) /\ j2 = index(v, 2)
          /\ s3 = Table3(p, v) /\ s2 = Table2(p, v) /\ s1 = Table1(p, v)
    OBVIOUS
  <2>4. ~tables[s2][j2].huge BY <1>2, <1>6, <1>7, <2>2, <2>3, Way
  <2> QED BY <1>3, <1>5, <2>2, <2>3, <2>4 DEF EntryAt
<1>9. PICK i1, i2, i3, i4, t3, t2, t1 :
        /\ i1 = index(y, 1) /\ i2 = index(y, 2) /\ i3 = index(y, 3) /\ i4 = index(y, 4)
        /\ t3 = Table3(r, y) /\ t2 = Table2(r, y) /\ t1 = Table1(r, y)
  OBVIOUS
<1>10. /\ i4 \in Indices /\ i3 \in Indices /\ i2 \in Indices
       /\ t3 = tables[r][i4].frame /\ t2 = tables[t3][i3].frame /\ t1 = tables[t2][i2].frame
       /\ r \in TableFrames \ free /\ L[r] = 4
       /\ t3 # NULL => t3 \in TableFrames \ free /\ L[t3] = 3
       /\ t3 # NULL /\ t2 # NULL => t2 \in TableFrames \ free /\ L[t2] = 2
       /\ t3 # NULL /\ t2 # NULL /\ t1 # NULL /\ ~tables[t2][i2].huge =>
            t1 \in TableFrames \ free /\ L[t1] = 1
  BY <1>2, <1>9, Way
<1>11. i1 \in Indices BY <1>2, <1>9, IndexType
<1>12. /\ tables'[r][i4] = tables[r][i4]
       /\ t3 # NULL => tables'[t3][i3] = tables[t3][i3]
       /\ t3 # NULL /\ t2 # NULL => tables'[t2][i2] = tables[t2][i2]
  <2>0. L[w] # 4 /\ L[w] # 3 /\ L[w] # 2 BY <1>4
  <2>1. r # w BY <1>10, <2>0
  <2>2. t3 # NULL => t3 # w BY <1>10, <2>0
  <2>3. t3 # NULL /\ t2 # NULL => t2 # w BY <1>10, <2>0
  <2> QED BY <1>4, <1>10, <2>1, <2>2, <2>3
<1>13. CASE t3 # NULL /\ t2 # NULL /\ ~tables[t2][i2].huge /\ t1 = w /\ i1 = x
  <2>1. ~EntryAt(Table2(r, y), y, 2).huge BY <1>9, <1>13 DEF EntryAt
  <2>2. /\ Table3(r, y) # NULL /\ Table2(r, y) # NULL /\ Table1(r, y) = Table1(p, v)
        /\ Table1(r, y) # NULL
    BY <1>7, <1>8, <1>9, <1>13
  <2>3. Table2(r, y) = Table2(p, v) /\ index(y, 2) = index(v, 2)
    BY <1>2, <1>6, <1>8, <2>1, <2>2, SameWay
  <2>4. r = p /\ index(y, 4) = index(v, 4) /\ index(y, 3) = index(v, 3)
    BY <1>2, <1>6, <1>8, <2>2, <2>3, SameWay
  <2>5. y = v
    <3>1. y \div EntryCount = v \div EntryCount BY <1>6, <2>3, <2>4, SameIndices
    <3>2. index(y, 1) = index(v, 1) BY <1>8, <1>9, <1>13
    <3> QED BY <1>6, <3>1, <3>2, SameIndices
  <2>6. translate(r, y) = NULL
    <3>1. tables[t1][i1].frame = NULL /\ t1 # NULL BY <1>4, <1>7, <1>13, Empty
    <3>2. t3 # NULL /\ t2 # NULL /\ t1 # NULL =>
            (~tables[t2][i2].huge => translate(r, y) = tables[t1][i1].frame)
      BY <1>9, TranslateDef
    <3> QED BY <1>13, <3>1, <3>2
  <2>7. translate(r, y)' = k
    <3>1. PICK u3, u2, u1 : u3 = Table3(r, y)' /\ u2 = Table2(r, y)' /\ u1 = Table1(r, y)' OBVIOUS
    <3>2. u3 = tables'[r][i4].frame /\ u2 = tables'[u3][i3].frame /\ u1 = tables'[u2][i2].frame
      BY <1>9, <3>1 DEF Table3, Table2, Table1, EntryAt
    <3>3. u3 = t3 BY <1>10, <1>12, <3>2
    <3>4. u2 = t2 BY <1>10, <1>12, <1>13, <3>2, <3>3
    <3>5. u1 = t1 /\ tables'[u2][i2] = tables[t2][i2] BY <1>10, <1>12, <1>13, <3>2, <3>4
    <3>6. u3 # NULL /\ u2 # NULL /\ u1 # NULL /\ ~tables'[u2][i2].huge
      BY <1>7, <1>13, <3>3, <3>4, <3>5
    <3>7. translate(r, y)' = tables'[u1][i1].frame BY <1>9, <3>1, <3>6, TranslateNext
    <3> QED BY <1>4, <1>13, <3>5, <3>7
  <2> QED BY <2>4, <2>5, <2>6, <2>7
<1>14. CASE ~(t3 # NULL /\ t2 # NULL /\ ~tables[t2][i2].huge /\ t1 = w /\ i1 = x)
  <2>1. ~(r = p /\ y = v)
    <3> SUFFICES ASSUME r = p, y = v PROVE FALSE OBVIOUS
    <3>1. t3 = Table3(p, v) /\ t2 = Table2(p, v) /\ t1 = Table1(p, v) /\ i1 = x BY <1>8, <1>9
    <3>2. ~tables[t2][i2].huge BY <1>8, <1>9, <3>1 DEF EntryAt
    <3> QED BY <1>8, <1>14, <3>1, <3>2
  <2>2. ASSUME t3 # NULL, t2 # NULL, t1 # NULL, ~tables[t2][i2].huge
        PROVE  tables'[t1][i1] = tables[t1][i1]
    <3>1. t1 \in TableFrames \ free /\ ~(t1 = w /\ i1 = x) BY <1>10, <1>14, <2>2
    <3> QED BY <1>4, <1>11, <3>1
  <2>3. translate(r, y)' = translate(r, y) BY <1>9, <1>12, <2>2, TranslateSame
  <2> QED BY <2>1, <2>3
<1> QED BY <1>13, <1>14

-----------------------------------------------------------------------------
(* The page tables implement address spaces *)

\* When translate finds what it found, the address spaces are the same.
LEMMA Unmoved ==
  ASSUME roots' = roots, \A r \in roots, v \in VPages : translate(r, v)' = translate(r, v)
  PROVE  Space' = Space
  BY DEF Space

\* A step that leaves all tables alone, and the roots, leaves the address spaces alone.
LEMMA SameTables ==
  ASSUME IndInv, UNCHANGED <<tables, roots>> PROVE Space' = Space
  BY SpaceSame, Unmoved

\* A new table is an empty address space.
LEMMA NewTableSpace ==
  ASSUME IndInv, NEW t \in free, NewTable(t) PROVE Abstract!Create(t)
<1>1. /\ tables' = [u \in DOMAIN tables \cup {t} |-> IF u = t THEN ZeroedTable ELSE tables[u]]
      /\ roots' = roots \cup {t}
  BY DEF NewTable
<1>2. DOMAIN tables = TableFrames \ free /\ roots \subseteq TableFrames \ free BY DEF IndInv, Memory
<1>3. \A u \in TableFrames \ free : tables'[u] = tables[u] BY <1>1, <1>2
<1>4. \A r \in roots, v \in VPages : translate(r, v)' = translate(r, v) BY <1>3, SpaceSame
<1>5. ASSUME NEW v \in VPages PROVE translate(t, v)' = NULL
  <2>1. v \in Nat BY <1>5 DEF VPages
  <2>2. tables'[t] = ZeroedTable BY <1>1
  <2>3. PICK i1, i2, i3, i4, u3, u2, u1 :
          /\ i1 = index(v, 1) /\ i2 = index(v, 2) /\ i3 = index(v, 3) /\ i4 = index(v, 4)
          /\ u3 = Table3(t, v)' /\ u2 = Table2(t, v)' /\ u1 = Table1(t, v)'
    OBVIOUS
  <2>4. i4 \in Indices BY <2>1, <2>3, IndexType
  <2>5. tables'[t][i4] = NoEntry BY <2>2, <2>4 DEF ZeroedTable
  <2>6. u3 = tables'[t][i4].frame BY <2>3 DEF Table3, EntryAt
  <2>7. u3 = NULL BY <2>5, <2>6, Empty
  <2> QED BY <2>3, <2>7, TranslateNext
<1>6. t \notin roots BY <1>2
<1>7. DOMAIN Space = roots BY DEF Space
<1>8. Space' = [u \in roots \cup {t} |-> [v \in VPages |-> translate(u, v)']] BY <1>1 DEF Space
<1>9. \A u \in roots : Space[u] = [v \in VPages |-> translate(u, v)] BY DEF Space
<1>10. \A u \in roots : [v \in VPages |-> translate(u, v)'] = Space[u] BY <1>4, <1>9
<1>11. [v \in VPages |-> translate(t, v)'] = [v \in VPages |-> NULL] BY <1>5
<1>12. Space' = [u \in roots \cup {t} |-> IF u = t THEN [v \in VPages |-> NULL] ELSE Space[u]]
  BY <1>8, <1>10, <1>11
<1> QED BY <1>6, <1>7, <1>12 DEF Abstract!Create

\* An entry that is written is a mapping of its pages in its address space.
LEMMA SetLeafSpace ==
  ASSUME IndInv, SetLeaf
  PROVE  \E t \in DOMAIN Space, v \in VPages, k \in DataFrames, n \in {1, _2MB} : Abstract!Map(t, v, k, n)
<1>1. PICK p, v, k, n : p = walk.p4 /\ v = walk.virtual /\ k = walk.kernel /\ n = MappedPages OBVIOUS
<1>2. pc = "walk" /\ roots' = roots BY DEF SetLeaf
<1>3. /\ WalkOK /\ p \in roots /\ v \in VPages /\ v \in Nat /\ k \in DataFrames /\ k \in Nat
      /\ walk.last \in {1, 2}
  BY <1>1, <1>2, WalkFacts, FramesAssumption
<1>4. n \in {1, _2MB} /\ v % n = 0 /\ k % n = 0
  BY <1>1, <1>3 DEF WalkOK, MappedPages, is_aligned
<1>5. n \in Nat /\ n >= 1 BY <1>4, EntryCountAssumption DEF _2MB
<1>6. ASSUME NEW r \in roots, NEW y \in VPages
      PROVE  /\ r = p /\ y \in v .. v + n - 1 =>
                  translate(r, y) = NULL /\ translate(r, y)' = k + (y - v)
             /\ ~(r = p /\ y \in v .. v + n - 1) => translate(r, y)' = translate(r, y)
  <2>1. CASE walk.last = 2
    <3>1. n = EntryCount BY <1>1, <2>1 DEF MappedPages, _2MB
    <3> QED BY <1>1, <1>6, <2>1, <3>1, SetLargeSpace
  <2>2. CASE walk.last = 1
    <3>1. n = 1 BY <1>1, <2>2 DEF MappedPages
    <3>2. y \in v .. v + n - 1 <=> y = v BY <1>3, <1>6, <3>1 DEF VPages
    <3>3. k + (v - v) = k BY <1>3
    <3>4. /\ r = p /\ y = v => translate(r, y) = NULL /\ translate(r, y)' = k
          /\ ~(r = p /\ y = v) => translate(r, y)' = translate(r, y)
      BY <1>1, <1>6, <2>2, SetSmallSpace
    <3> QED BY <3>2, <3>3, <3>4
  <2> QED BY <1>3, <2>1, <2>2
<1>7. v .. v + n - 1 \subseteq VPages
  <2>1. CASE walk.last = 2
    <3>1. n = EntryCount BY <1>1, <2>1 DEF MappedPages, _2MB
    <3>2. is_aligned(v, EntryCount) BY <1>4, <3>1 DEF is_aligned
    <3>3. \A y \in v .. v + EntryCount - 1 : y \in Nat BY <1>3, EntryCountAssumption
    <3> QED BY <1>3, <3>1, <3>2, <3>3, BlockPages
  <2>2. CASE walk.last = 1
    <3>1. n = 1 BY <1>1, <2>2 DEF MappedPages
    <3>2. v .. v + n - 1 = {v} BY <1>3, <3>1
    <3> QED BY <1>3, <3>2
  <2> QED BY <1>3, <2>1, <2>2
<1>8. DOMAIN Space = roots /\ DOMAIN Space' = roots BY <1>2 DEF Space
<1>9. \A r \in roots : Space[r] = [y \in VPages |-> translate(r, y)] BY DEF Space
<1>10. \A r \in roots : Space'[r] = [y \in VPages |-> translate(r, y)'] BY <1>2 DEF Space
<1>11. \A y \in v .. v + n - 1 : Space[p][y] = NULL BY <1>3, <1>6, <1>7, <1>9
<1>12. Space'[p][v] = k
  <2>1. v \in v .. v + n - 1 /\ k + (v - v) = k BY <1>3, <1>5
  <2>2. translate(p, v)' = k BY <1>3, <1>6, <2>1
  <2> QED BY <1>3, <1>10, <2>2
<1>13. Space' = [Space EXCEPT ![p] =
                   [y \in VPages |-> IF y \in v .. v + n - 1 THEN k + (y - v) ELSE Space[p][y]]]
  <2>1. Space' = [r \in roots |-> [y \in VPages |-> translate(r, y)']] BY <1>2 DEF Space
  <2>2. \A r \in roots : r # p => [y \in VPages |-> translate(r, y)'] = Space[r] BY <1>6, <1>9
  <2>3. [y \in VPages |-> translate(p, y)'] =
          [y \in VPages |-> IF y \in v .. v + n - 1 THEN k + (y - v) ELSE Space[p][y]]
    <3>1. ASSUME NEW y \in VPages
          PROVE  translate(p, y)' = IF y \in v .. v + n - 1 THEN k + (y - v) ELSE Space[p][y]
      <4>1. CASE y \in v .. v + n - 1 BY <1>3, <1>6, <3>1, <4>1
      <4>2. CASE y \notin v .. v + n - 1
        <5>1. translate(p, y)' = translate(p, y) BY <1>3, <1>6, <3>1, <4>2
        <5>2. Space[p][y] = translate(p, y) BY <1>3, <1>9, <3>1
        <5> QED BY <4>2, <5>1, <5>2
      <4> QED BY <4>1, <4>2
    <3> QED BY <3>1
  <2>4. Space = [r \in roots |-> Space[r]] BY DEF Space
  <2> QED BY <1>3, <1>8, <2>1, <2>2, <2>3, <2>4
<1>14. Abstract!Map(p, v, k, n) BY <1>4, <1>11, <1>12, <1>13 DEF Abstract!Map
<1> QED BY <1>3, <1>4, <1>8, <1>14

\* destroy_table ends an address space at once, before it has released a single frame.
LEMMA DestroySpace ==
  ASSUME IndInv, NEW p \in roots, destroy_table(p, FALSE) PROVE Abstract!Destroy(p)
<1>1. tables' = tables /\ roots' = roots \ {p} BY DEF destroy_table, StartDestroy
<1>2. \A r \in roots, v \in VPages : translate(r, v)' = translate(r, v) BY <1>1, SpaceSame
<1>3. DOMAIN Space = roots BY DEF Space
<1>4. Space' = [r \in roots \ {p} |-> [v \in VPages |-> translate(r, v)']] BY <1>1 DEF Space
<1>5. \A r \in roots : Space[r] = [v \in VPages |-> translate(r, v)'] BY <1>2 DEF Space
<1>6. Space' = [r \in roots \ {p} |-> Space[r]] BY <1>4, <1>5
<1> QED BY <1>3, <1>6 DEF Abstract!Destroy

\* What destroy_table releases no root leads to.
LEMMA ReleaseSpace ==
  ASSUME IndInv, Release PROVE Space' = Space
<1>1. PICK s : s = Last(destroy).table OBVIOUS
<1>2. /\ pc = "destroy" /\ roots' = roots
      /\ tables' = [u \in DOMAIN tables \ {s} |-> tables[u]]
  BY <1>1 DEF Release
<1>3. DOMAIN tables = TableFrames \ free BY DEF IndInv, Memory
<1>4. OnStack(s)
  <2>1. destroy \in Seq(Frame) /\ Len(destroy) >= 1 BY <1>2 DEF IndInv, Control
  <2>2. Len(destroy) \in 1 .. Len(destroy) BY <2>1
  <2> QED BY <1>1, <2>2 DEF OnStack, Last
<1>5. \A u \in TableFrames \ free : ~OnStack(u) => tables'[u] = tables[u]
  <2> SUFFICES ASSUME NEW u \in TableFrames \ free, ~OnStack(u) PROVE tables'[u] = tables[u] OBVIOUS
  <2>1. u # s BY <1>4
  <2> QED BY <1>2, <1>3, <2>1
<1> QED BY <1>2, <1>5, SpaceSame, Unmoved

\* What page_tables.c does to the tables is, for who looks through translate, what
\* AddressSpace allows: a page gets a frame only if it had none, a call that fails half-way
\* has mapped whole pages or nothing, tables that are hung or released are not seen,
\* and no table's mappings are touched by what is done to another.
THEOREM ImplementsSpace == Spec => RefinesSpace
<1>1. Init => Abstract!Init
  <2> SUFFICES ASSUME Init PROVE Abstract!Init OBVIOUS
  <2>1. Space = [r \in {} |-> [v \in VPages |-> translate(r, v)]] BY DEF Init, Space
  <2> QED BY <2>1 DEF Abstract!Init
<1>2. IndInv /\ [Next]_vars => [Abstract!Next]_Space
  <2> SUFFICES ASSUME IndInv, [Next]_vars PROVE Abstract!Next \/ Space' = Space OBVIOUS
  <2>1. ASSUME NEW t \in free, NewTable(t) PROVE Abstract!Next
    <3>1. Abstract!Create(t) BY <2>1, NewTableSpace
    <3>2. t \in TableFrames BY <2>1 DEF IndInv, Memory
    <3> QED BY <3>1, <3>2 DEF Abstract!Next
  <2>2. ASSUME SetLeaf PROVE Abstract!Next
    BY <2>2, SetLeafSpace DEF Abstract!Next
  <2>3. ASSUME NEW p4 \in roots, destroy_table(p4, FALSE) PROVE Abstract!Next
    <3>1. Abstract!Destroy(p4) BY <2>3, DestroySpace
    <3>2. p4 \in DOMAIN Space BY <2>3 DEF Space
    <3> QED BY <3>1, <3>2 DEF Abstract!Next
  <2>4. ASSUME NEW t \in free, Grow(t) PROVE Space' = Space
    <3>1. roots' = roots BY <2>4 DEF Grow
    <3> QED BY <2>4, <3>1, GrowSpace, Unmoved
  <2>5. ASSUME NEW v, NEW k, NEW n, Reject(v, k, n) PROVE Space' = Space
    BY <2>5, SameTables DEF Reject
  <2>6. ASSUME NEW p4, NEW v, NEW k, NEW f, map_page(p4, v, k, f) \/ map_2MB_page(p4, v, k, f)
        PROVE  Space' = Space
    BY <2>6, SameTables DEF map_page, map_2MB_page
  <2>7. ASSUME NEW p4, NEW v, NEW k, NEW n, NEW f, map_region(p4, v, k, n, f) PROVE Space' = Space
    BY <2>7, SameTables DEF map_region
  <2>8. CASE Call BY <2>1, <2>3, <2>5, <2>6, <2>7, <2>8 DEF Call
  <2>9. ASSUME Descend \/ GrowFails \/ LeafTaken \/ StrayLeaf \/ NextPage \/ RegionDone
        PROVE  Space' = Space
    <3>1. UNCHANGED <<tables, roots>>
      BY <2>9 DEF Descend, GrowFails, LeafTaken, StrayLeaf, NextPage, RegionDone
    <3> QED BY <3>1, SameTables
  <2>10. CASE Mapping BY <2>2, <2>4, <2>9, <2>10 DEF Mapping
  <2>11. ASSUME Visit PROVE Space' = Space
    <3>1. UNCHANGED <<tables, roots>> BY <2>11 DEF Visit
    <3> QED BY <3>1, SameTables
  <2>12. CASE Destroying BY <2>11, <2>12, ReleaseSpace DEF Destroying
  <2>13. CASE UNCHANGED vars
    <3>1. UNCHANGED <<tables, roots>> BY <2>13 DEF vars
    <3> QED BY <3>1, SameTables
  <2> QED BY <2>8, <2>10, <2>12, <2>13 DEF Next
<1> QED BY <1>1, <1>2, Invariant, PTL DEF Spec, RefinesSpace, Abstract!Spec

-----------------------------------------------------------------------------
(* Why a mapping is refused *)

\* What a walk in its last table has behind it
LEMMA LastTable ==
  ASSUME IndInv, pc = "walk", NEW L \in Levels, Shape(L), NEW p, NEW v, NEW w,
         p = walk.p4, v = walk.virtual, w = walk.table
  PROVE  /\ Memory /\ Trees(L) /\ p \in roots /\ v \in VPages /\ v \in Nat /\ w # NULL
         /\ walk.level <= 2 => Table3(p, v) # NULL
         /\ walk.level = 2 => w = Table2(p, v)
         /\ walk.level = 1 => Table2(p, v) # NULL /\ w = Table1(p, v)
<1>1. WalkOnPath /\ Memory /\ Trees(L) BY DEF IndInv, Shape, WalkAt
<1>2. p \in roots /\ v \in VPages /\ v \in Nat /\ w # NULL BY WalkFacts
<1> QED BY <1>1, <1>2 DEF WalkOnPath

\* map_page refuses a page whose entry is taken: the page is mapped.
LEMMA RefusedSmall ==
  ASSUME IndInv, LeafTaken, walk.last = 1 PROVE translate(walk.p4, walk.virtual) # NULL
<1>1. PICK L \in Levels : Shape(L) BY DEF IndInv
<1>2. PICK p, v, w, x : /\ p = walk.p4 /\ v = walk.virtual /\ w = walk.table
                        /\ x = index(walk.virtual, walk.level)
  OBVIOUS
<1>3. pc = "walk" /\ walk.level = 1 /\ tables[w][x] # NoEntry
  BY <1>2 DEF LeafTaken, WalkEntry, EntryAt
<1>4. w \in TableFrames \ free BY <1>1, <1>2, <1>3, WalkInTable DEF LeafTaken
<1>5. x = index(v, 1) /\ x \in Indices BY <1>2, <1>3, WalkFacts
<1>6. PICK i4, i3, i2, t3, t2, t1 :
        /\ i4 = index(v, 4) /\ i3 = index(v, 3) /\ i2 = index(v, 2)
        /\ t3 = Table3(p, v) /\ t2 = Table2(p, v) /\ t1 = Table1(p, v)
  OBVIOUS
<1>7. /\ Memory /\ Trees(L) /\ p \in roots /\ v \in Nat
      /\ t3 # NULL /\ t2 # NULL /\ t1 = w /\ t1 # NULL
  <2>1. walk.level <= 2 BY <1>3
  <2> QED BY <1>1, <1>2, <1>3, <1>6, <2>1, LastTable
<1>8. ~tables[t2][i2].huge
  <2>1. t1 \notin DataFrames BY <1>4, <1>7, FramesAssumption
  <2>0. Memory /\ Trees(L) /\ p \in roots /\ v \in Nat BY <1>7
  <2>2. t3 # NULL /\ t2 # NULL /\ t1 # NULL /\ tables[t2][i2].huge => t1 \in DataFrames
    BY <1>6, <2>0, Way
  <2> QED BY <1>7, <2>1, <2>2
<1>9. t3 # NULL /\ t2 # NULL /\ t1 # NULL =>
        (~tables[t2][i2].huge => translate(p, v) = tables[t1][x].frame)
  BY <1>5, <1>6, TranslateDef
<1>10. tables[w][x].frame # NULL BY <1>3, <1>4, <1>5, <1>7 DEF Trees, Entries
<1> QED BY <1>2, <1>7, <1>8, <1>9, <1>10

\* map_2MB_page refuses a block whose entry is taken: by another large page, or by a
\* table that is never empty.
LEMMA RefusedLarge ==
  ASSUME IndInv, LeafTaken, walk.last = 2
  PROVE  \E i \in 0 .. EntryCount - 1 : translate(walk.p4, walk.virtual + i) # NULL
<1>1. PICK L \in Levels : Shape(L) BY DEF IndInv
<1>2. PICK p, v, w, x : /\ p = walk.p4 /\ v = walk.virtual /\ w = walk.table
                        /\ x = index(walk.virtual, walk.level)
  OBVIOUS
<1>3. pc = "walk" /\ walk.level = 2 /\ tables[w][x] # NoEntry
  BY <1>2 DEF LeafTaken, WalkEntry, EntryAt
<1>4. w \in TableFrames \ free /\ L[w] = 2 BY <1>1, <1>2, <1>3, WalkInTable DEF LeafTaken
<1>5. x = index(v, 2) /\ x \in Indices /\ WalkOK BY <1>2, <1>3, WalkFacts
<1>6. PICK i4, i3, t3, t1 :
        /\ i4 = index(v, 4) /\ i3 = index(v, 3) /\ t3 = Table3(p, v) /\ t1 = Table1(p, v)
  OBVIOUS
<1>7. /\ Memory /\ Trees(L) /\ p \in roots /\ v \in VPages /\ v \in Nat
      /\ t3 # NULL /\ w = Table2(p, v) /\ w # NULL
  <2>1. walk.level <= 2 BY <1>3
  <2> QED BY <1>1, <1>2, <1>3, <1>6, <2>1, LastTable
<1>8. /\ t1 = tables[w][x].frame
      /\ t1 # NULL /\ ~tables[w][x].huge => t1 \in TableFrames \ free /\ L[t1] = 1
      /\ t1 # NULL /\ tables[w][x].huge => t1 \in DataFrames
  BY <1>5, <1>6, <1>7, Way
<1>9. t1 # NULL BY <1>3, <1>4, <1>5, <1>7, <1>8 DEF Trees, Entries
<1>10. CASE tables[w][x].huge
  <2>1. PICK i1 : i1 = index(v, 1) OBVIOUS
  <2>2. i1 \in Nat BY <1>7, <2>1, IndexType, EntryCountAssumption DEF Indices
  <2>3. t3 # NULL /\ w # NULL /\ t1 # NULL =>
          (tables[w][x].huge => translate(p, v) = t1 + i1)
    BY <1>5, <1>6, <1>7, <2>1, TranslateDef
  <2>4. t1 + i1 \in Nat
    <3>1. t1 \in DataFrames BY <1>8, <1>9, <1>10
    <3>2. t1 \in Nat BY <3>1, FramesAssumption
    <3> QED BY <2>2, <3>2
  <2>5. translate(p, v) # NULL BY <1>7, <1>9, <1>10, <2>3, <2>4, FramesAssumption
  <2>6. 0 \in 0 .. EntryCount - 1 /\ v + 0 = v BY <1>7, EntryCountAssumption
  <2> QED BY <1>2, <2>5, <2>6
<1>11. CASE ~tables[w][x].huge
  <2>1. t1 \in TableFrames \ free /\ L[t1] = 1 BY <1>8, <1>9, <1>11
  <2>2. t1 # w BY <1>4, <2>1
  <2>3. PICK i \in Indices : tables[t1][i].frame # NULL
    BY <1>1, <1>2, <2>1, <2>2 DEF Shape, Filled
  <2>4. PICK y : y = v + i OBVIOUS
  <2>5. i \in 0 .. EntryCount - 1 /\ y \in Nat /\ y \in v .. v + EntryCount - 1 /\ y - v = i
    BY <1>7, <2>3, <2>4, EntryCountAssumption DEF Indices
  <2>6. is_aligned(v, EntryCount) BY <1>2, <1>5 DEF WalkOK, MappedPages, _2MB
  <2>7. y \div EntryCount = v \div EntryCount /\ y \in VPages /\ y % EntryCount = i
    BY <1>7, <2>5, <2>6, BlockPages
  <2>8. index(y, 2) = x /\ index(y, 3) = i3 /\ index(y, 4) = i4
    BY <1>5, <1>6, <1>7, <2>7, SameIndices
  <2>9. index(y, 1) = i
    <3>1. index(y, 1) = y % EntryCount BY <2>5, IndexDef
    <3> QED BY <2>7, <3>1
  <2>10. Table3(p, y) = t3 /\ Table2(p, y) = w /\ Table1(p, y) = t1
    BY <1>5, <1>6, <1>7, <2>8 DEF Table3, Table2, Table1, EntryAt
  <2>11. t3 # NULL /\ w # NULL /\ t1 # NULL =>
           (~tables[w][x].huge => translate(p, y) = tables[t1][i].frame)
    BY <2>8, <2>9, <2>10, TranslateDef
  <2>12. translate(p, y) # NULL BY <1>7, <1>9, <1>11, <2>3, <2>11
  <2> QED BY <1>2, <2>4, <2>5, <2>12
<1> QED BY <1>10, <1>11

\* When map_page finds itself in a page of data, its page is mapped by a large one.
LEMMA StrayMapped ==
  ASSUME IndInv, StrayLeaf PROVE walk.last = 1 /\ translate(walk.p4, walk.virtual) # NULL
<1>1. PICK L \in Levels : Shape(L) BY DEF IndInv
<1>2. PICK p, v, w : p = walk.p4 /\ v = walk.virtual /\ w = walk.table OBVIOUS
<1>3. pc = "walk" /\ w \notin DOMAIN tables BY <1>2 DEF StrayLeaf
<1>4. DOMAIN tables = TableFrames \ free BY DEF IndInv, Memory
<1>5. w \notin TableFrames /\ walk.level = 1 BY <1>1, <1>2, <1>3, <1>4 DEF Shape, WalkAt
<1>6. walk.last = 1 BY <1>3, <1>5, WalkFacts
<1>7. PICK i4, i3, i2, i1, t3, t2, t1 :
        /\ i4 = index(v, 4) /\ i3 = index(v, 3) /\ i2 = index(v, 2) /\ i1 = index(v, 1)
        /\ t3 = Table3(p, v) /\ t2 = Table2(p, v) /\ t1 = Table1(p, v)
  OBVIOUS
<1>8. /\ Memory /\ Trees(L) /\ p \in roots /\ v \in Nat
      /\ t3 # NULL /\ t2 # NULL /\ t1 = w /\ t1 # NULL
  <2>1. walk.level <= 2 BY <1>5
  <2> QED BY <1>1, <1>2, <1>3, <1>5, <1>7, <2>1, LastTable
<1>9. tables[t2][i2].huge /\ t1 \in DataFrames
  <2>0. Memory /\ Trees(L) /\ p \in roots /\ v \in Nat BY <1>8
  <2>1. /\ t3 # NULL /\ t2 # NULL /\ t1 # NULL /\ ~tables[t2][i2].huge => t1 \in TableFrames \ free
        /\ t3 # NULL /\ t2 # NULL /\ t1 # NULL /\ tables[t2][i2].huge => t1 \in DataFrames
    BY <1>7, <2>0, Way
  <2> QED BY <1>5, <1>8, <2>1
<1>10. i1 \in Nat BY <1>7, <1>8, IndexType, EntryCountAssumption DEF Indices
<1>11. t3 # NULL /\ t2 # NULL /\ t1 # NULL => (tables[t2][i2].huge => translate(p, v) = t1 + i1)
  BY <1>7, TranslateDef
<1>12. t1 + i1 \in Nat
  <2>1. t1 \in Nat BY <1>9, FramesAssumption
  <2> QED BY <1>10, <2>1
<1> QED BY <1>2, <1>6, <1>8, <1>9, <1>11, <1>12, FramesAssumption

\* map_page and map_2MB_page refuse a page only because memory has run out or because
\* one of the pages asked for is mapped already: no call leaves an empty table where a later
\* map_2MB_page would trip over it.
THEOREM FailuresAreJustified == Spec => FailureJustified
<1> DEFINE Reason == \/ free = {} /\ walk.level > walk.last
                     \/ \E i \in 0 .. MappedPages - 1 : translate(walk.p4, walk.virtual + i) # NULL
<1>1. ASSUME IndInv, [Next]_vars, pc = "walk", pc' = "idle", ~result' PROVE Reason
  <2>1. walk.last \in {1, 2} /\ walk.virtual \in Nat BY <1>1, WalkFacts
  <2>2. ASSUME walk.last = 1, translate(walk.p4, walk.virtual) # NULL PROVE Reason
    <3>1. MappedPages = 1 BY <2>2 DEF MappedPages
    <3>2. 0 \in 0 .. MappedPages - 1 /\ walk.virtual + 0 = walk.virtual BY <2>1, <3>1
    <3>3. \E i \in 0 .. MappedPages - 1 : translate(walk.p4, walk.virtual + i) # NULL
      BY <2>2, <3>2
    <3> QED BY <3>3
  <2>3. CASE GrowFails BY <2>3 DEF GrowFails
  <2>4. CASE LeafTaken
    <3>1. CASE walk.last = 1 BY <1>1, <2>2, <2>4, <3>1, RefusedSmall
    <3>2. CASE walk.last = 2
      <4>1. MappedPages = EntryCount BY <3>2 DEF MappedPages, _2MB
      <4> QED BY <1>1, <2>4, <3>2, <4>1, RefusedLarge
    <3> QED BY <2>1, <3>1, <3>2
  <2>5. CASE StrayLeaf BY <1>1, <2>2, <2>5, StrayMapped
  <2>6. ~SetLeaf BY <1>1 DEF SetLeaf, WalkDone, Finish
  <2>7. ~Descend /\ ~(\E t \in free : Grow(t)) BY <1>1 DEF Descend, Grow
  <2>8. ~NextPage /\ ~RegionDone /\ ~Destroying
    BY <1>1 DEF NextPage, RegionDone, Destroying, Visit, Release
  <2>9. ~Call BY <1>1 DEF Call, NewTable, Reject, map_page, map_2MB_page, map_region, destroy_table
  <2>10. ~UNCHANGED vars BY <1>1 DEF vars, locals
  <2> QED BY <1>1, <2>3, <2>4, <2>5, <2>6, <2>7, <2>8, <2>9, <2>10 DEF Next, Mapping
<1>2. IndInv /\ [Next]_vars =>
        [pc = "walk" /\ pc' = "idle" /\ ~result' =>
           \/ free = {} /\ walk.level > walk.last
           \/ \E i \in 0 .. MappedPages - 1 : translate(walk.p4, walk.virtual + i) # NULL]_vars
  BY <1>1
<1> QED BY <1>2, Invariant, PTL DEF Spec, FailureJustified
=============================================================================
