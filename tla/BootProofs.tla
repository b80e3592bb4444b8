----------------------------- MODULE BootProofs -----------------------------
(***************************************************************************)
(* Proofs about BumpAlloc, for any number of cores, any capacity, any      *)
(* sizes and alignments and any number of calls, and about the boot on top *)
(* of it, on any machine: from _start to exit it uses InitAlloc as         *)
(* BumpAlloc says, its descriptor tables fit together, every core finds    *)
(* its own worker, and it crashes only for known reasons.                  *)
(***************************************************************************)
EXTENDS Boot, NaturalsInduction, WellFoundedInduction, FiniteSetTheorems, TLAPS

-----------------------------------------------------------------------------
(* Numbers *)

\* The order of the natural numbers as a relation
Below == OpToRel(<, Nat)

\* Every non-empty set of natural numbers has a least element.
LEMMA Least ==
  ASSUME NEW T \in SUBSET Nat, T # {}
  PROVE  \E x \in T : \A y \in T : x <= y
<1>1. IsWellFoundedOn(Below, Nat) BY NatLessThanWellFounded DEF Below
<1>2. \A x, y \in Nat : x < y => <<x, y>> \in Below BY DEF Below, OpToRel
<1>3. PICK x \in T : \A y \in T : <<y, x>> \notin Below BY <1>1, WFMin
<1>4. ASSUME NEW y \in T PROVE x <= y
  <2>1. x \in Nat /\ y \in Nat OBVIOUS
  <2>2. ~(y < x) BY <1>2, <1>3, <2>1
  <2> QED BY <2>1, <2>2
<1> QED BY <1>4

\* What % and \div mean for the prover.
LEMMA Division ==
  ASSUME NEW v \in Nat, NEW a \in Nat \ {0}
  PROVE  /\ v \div a \in Nat /\ v % a \in Nat
         /\ v = a * (v \div a) + (v % a) /\ v % a < a
  BY SMT

\* Quotients compare like the multiples they belong to.
LEMMA Multiples ==
  ASSUME NEW a \in Nat \ {0}, NEW j \in Nat, NEW k \in Nat, j < k
  PROVE  a * j + a <= a * k /\ a * j \in Nat
<1>1. PICK d \in Nat : k = j + 1 + d BY SMT
<1>2. a * k = a * j + a + a * d BY <1>1, SMT
<1>3. a * d \in Nat BY SMT
<1>4. a * j \in Nat BY SMT
<1> QED BY <1>2, <1>3, <1>4

-----------------------------------------------------------------------------
(* The bump allocator *)

\* align_up never goes down, and by less than the alignment up (basics.h,
\* Bump__bump_impl relies on it to stay past the regions already handed out).
LEMMA AlignUp ==
  ASSUME NEW v \in Nat, NEW a \in Nat \ {0}
  PROVE  align_up(v, a) \in Nat /\ align_up(v, a) >= v /\ align_up(v, a) < v + a
  BY Division DEF align_up

\* align_up yields a multiple of the alignment.
LEMMA AlignUpMultiple ==
  ASSUME NEW v \in Nat, NEW a \in Nat \ {0}
  PROVE  \E k \in Nat : align_up(v, a) = a * k
<1>1. CASE v % a = 0
  <2>1. align_up(v, a) = a * (v \div a) BY <1>1, Division DEF align_up
  <2> QED BY <2>1, Division
<1>2. CASE v % a # 0
  <2>1. align_up(v, a) = a * (v \div a) + a BY <1>2, Division DEF align_up
  <2> DEFINE k == (v \div a) + 1
  <2>2. k \in Nat BY Division
  <2>3. v \div a \in Nat BY Division
  <2> HIDE DEF k
  <2>4. a * k = a * (v \div a) + a BY <2>3, SMT DEF k
  <2> QED BY <2>1, <2>2, <2>4
<1> QED BY <1>1, <1>2

\* align_up is monotonic: a later index never aligns to an earlier address.
LEMMA AlignUpMonotonic ==
  ASSUME NEW v \in Nat, NEW w \in Nat, v <= w, NEW a \in Nat \ {0}
  PROVE  align_up(v, a) <= align_up(w, a)
<1> SUFFICES ASSUME align_up(w, a) < align_up(v, a) PROVE FALSE
  BY AlignUp
<1>1. PICK j \in Nat : align_up(w, a) = a * j BY AlignUpMultiple
<1>2. PICK k \in Nat : align_up(v, a) = a * k BY AlignUpMultiple
<1>3. a * j + a <= a * k
  <2>1. j < k BY <1>1, <1>2, SMT
  <2> QED BY <2>1, Multiples
<1>4. align_up(w, a) + a <= align_up(v, a) BY <1>1, <1>2, <1>3
<1> QED BY <1>4, AlignUp

\* A fresh allocator (Bump__new) satisfies the invariant.
LEMMA InitInd == Init => IndInv
  BY CapacityAssumption DEF Init, IndInv, TypeOK, Disjoint, InBounds

\* The region a core is about to take lies at or above the index it has read.
LEMMA NewRegion ==
  ASSUME IndInv, NEW c \in Cores, pc[c] = "try"
  PROVE  /\ aligned_index(c) \in Nat /\ end_index(c) \in Nat
         /\ bump_index[c] <= aligned_index(c)
         /\ aligned_index(c) < end_index(c)
<1>1. bump_index[c] \in Nat /\ align[c] \in Nat \ {0} BY DEF IndInv, TypeOK
<1>2. size[c] \in Nat \ {0} BY SizesAssumption DEF IndInv
<1>3. aligned_index(c) \in Nat /\ bump_index[c] <= aligned_index(c)
  BY <1>1, AlignUp DEF aligned_index
<1> QED BY <1>2, <1>3 DEF end_index

\* Every step of Bump__bump_impl on any core keeps the invariant.
LEMMA NextInd == IndInv /\ [Next]_vars => IndInv'
<1> SUFFICES ASSUME IndInv, [Next]_vars PROVE IndInv'
  OBVIOUS
<1> USE DEF IndInv, TypeOK
<1>1. ASSUME NEW c \in Cores, NEW s \in Sizes, NEW a \in Aligns, Bump(c, s, a)
      PROVE  IndInv'
  <2>1. s \in Nat /\ a \in Nat \ {0} BY SizesAssumption, AlignsAssumption
  <2>2. TypeOK' BY <1>1, <2>1 DEF Bump
  <2>3. (Disjoint /\ InBounds)' BY <1>1 DEF Bump, Disjoint, InBounds
  <2>4. (\A d \in Cores : pc[d] = "try" => bump_index[d] <= index)' BY <1>1 DEF Bump
  <2>5. (\A d \in Cores : pc[d] # "idle" => size[d] \in Sizes)' BY <1>1 DEF Bump
  <2> QED BY <2>2, <2>3, <2>4, <2>5
<1>2. ASSUME NEW c \in Cores, Load(c) PROVE IndInv'
  BY <1>2 DEF Load, args, Disjoint, InBounds
<1>3. ASSUME NEW c \in Cores, TooLarge(c) PROVE IndInv'
  BY <1>3 DEF TooLarge, args, Disjoint, InBounds
<1>4. ASSUME NEW c \in Cores, Exchange(c) PROVE IndInv'
  <2>1. pc[c] = "try" BY <1>4 DEF Exchange
  <2> DEFINE b == aligned_index(c)
             e == end_index(c)
  <2>2. b \in Nat /\ e \in Nat /\ index <= b /\ b < e BY <1>4, <2>1, NewRegion DEF Exchange
  <2>3. /\ index' = e /\ e <= Capacity /\ regions' = regions \cup {<<b, e, c>>}
        /\ pc' = [pc EXCEPT ![c] = "idle"]
        /\ bump_index' = bump_index /\ size' = size /\ align' = align /\ allocs' = allocs
    BY <1>4 DEF Exchange, args
  <2> HIDE DEF b, e
  <2>4. TypeOK' BY <2>2, <2>3
  <2>5. InBounds' BY <2>2, <2>3, CapacityAssumption DEF InBounds
  <2>6. Disjoint' BY <2>2, <2>3 DEF InBounds, Disjoint
  <2>7. (\A d \in Cores : pc[d] = "try" => bump_index[d] <= index)' BY <2>2, <2>3
  <2>8. (\A d \in Cores : pc[d] # "idle" => size[d] \in Sizes)' BY <2>3
  <2> QED BY <2>4, <2>5, <2>6, <2>7, <2>8
<1>5. ASSUME NEW c \in Cores, Retry(c) PROVE IndInv'
  BY <1>5 DEF Retry, args, Disjoint, InBounds
<1>6. CASE Rest \/ UNCHANGED vars
  BY <1>6 DEF Rest, vars, args, Disjoint, InBounds
<1> QED BY <1>1, <1>2, <1>3, <1>4, <1>5, <1>6 DEF Next, Step

\* IndInv holds in every reachable state.
THEOREM Inductive == Spec => []IndInv
  BY InitInd, NextInd, PTL DEF Spec

\* No two callers of Bump__bump_impl are given overlapping memory.
THEOREM NoOverlap == Spec => []Disjoint
<1>1. IndInv => Disjoint BY DEF IndInv
<1> QED BY <1>1, Inductive, PTL

\* Every region lies between the beginning of the Bump and its index, and the
\* index never passes Bump.count.
THEOREM StaysInBounds == Spec => []InBounds
<1>1. IndInv => InBounds BY DEF IndInv
<1> QED BY <1>1, Inductive, PTL

\* A caller that gets NULL would get it from the present index too: the index
\* it used is not above the present one and align_up is monotonic.
THEOREM NullOnlyWhenFull == Spec => NullJustified
<1> DEFINE A == \A c \in Cores : pc[c] = "try" /\ pc'[c] = "idle" /\ regions' = regions
                  => align_up(index, align[c]) + size[c] > Capacity
<1>1. IndInv /\ [Next]_vars => [A]_vars
  <2> SUFFICES ASSUME IndInv, Next, NEW c \in Cores, pc[c] = "try", pc'[c] = "idle",
                      regions' = regions
               PROVE  align_up(index, align[c]) + size[c] > Capacity
    OBVIOUS
  <2> USE DEF IndInv, TypeOK
  <2>1. TooLarge(c) \/ Exchange(c)
    BY DEF Next, Step, Bump, Load, TooLarge, Exchange, Retry, Rest, vars, args
  <2>2. CASE TooLarge(c)
    <3>1. /\ bump_index[c] \in Nat /\ index \in Nat /\ align[c] \in Nat \ {0}
          /\ size[c] \in Nat /\ bump_index[c] <= index
      OBVIOUS
    <3>2. align_up(bump_index[c], align[c]) + size[c] > Capacity
      BY <2>2 DEF TooLarge, end_index, aligned_index
    <3>3. align_up(bump_index[c], align[c]) <= align_up(index, align[c])
      BY <3>1, AlignUpMonotonic
    <3>4. align_up(bump_index[c], align[c]) \in Nat /\ align_up(index, align[c]) \in Nat
      BY <3>1, AlignUp
    <3> QED BY <3>1, <3>2, <3>3, <3>4, CapacityAssumption
  <2>3. CASE Exchange(c)
    \* The region taken would have to be one that was handed out before, but
    \* it ends above index.
    <3>1. <<aligned_index(c), end_index(c), c>> \in regions BY <2>3 DEF Exchange
    <3>2. end_index(c) <= index BY <3>1 DEF InBounds
    <3> QED BY <2>3, <3>2, NewRegion DEF Exchange
  <2> QED BY <2>1, <2>2, <2>3
<1>2. Spec => [][A]_vars BY <1>1, Inductive, PTL DEF Spec
<1> QED BY <1>2 DEF NullJustified

-----------------------------------------------------------------------------
(* The boot uses it *)

\* A step of a core inside the allocator is one of BumpAlloc's.
LEMMA AllocStepIsNext ==
  ASSUME NEW c \in Cores, AllocStep(c)
  PROVE  Next /\ machine' = machine
  BY DEF AllocStep, Next, Step

\* Those steps of a core that have no part in an allocation
OtherStep(c) ==
  \/ CheckApic(c) \/ MemoryInit(c) \/ NewGdt(c) \/ NewTss(c) \/ AddCode(c) \/ AddTss(c)
  \/ LoadGdt(c) \/ NewWorkers(c) \/ Claim(c) \/ Store(c) \/ Lookup(c, "lookup", "new idt")
  \/ LoadIdt(c) \/ Ltr(c) \/ Lookup(c, "main", "scan") \/ Scan(c) \/ ScanEnds(c) \/ End(c)
  \/ Lock(c) \/ Unlock(c) \/ Handler(c) \/ Exit(c) \/ Start(c) \/ AddTask(c) \/ Fault(c)

\* They leave the allocator alone.
LEMMA OtherSteps ==
  ASSUME NEW c \in Cores, OtherStep(c)
  PROVE  vars' = vars /\ machine' = machine
<1>1. CASE CheckApic(c) \/ MemoryInit(c) \/ NewGdt(c) \/ NewTss(c)
  BY <1>1 DEF CheckApic, MemoryInit, NewGdt, NewTss
<1>2. CASE AddCode(c) \/ AddTss(c) \/ LoadGdt(c) \/ NewWorkers(c)
  BY <1>2 DEF AddCode, AddTss, LoadGdt, NewWorkers
<1>3. CASE Claim(c) \/ Store(c) \/ Lookup(c, "lookup", "new idt") \/ Lookup(c, "main", "scan")
  BY <1>3 DEF Claim, Store, Lookup
<1>4. CASE LoadIdt(c) \/ Ltr(c) \/ Start(c) \/ Fault(c)
  BY <1>4 DEF LoadIdt, Ltr, Start, Fault
<1>5. CASE AddTask(c)
  BY <1>5 DEF AddTask
<1>6. CASE Scan(c)
  BY <1>6 DEF Scan
<1>7. CASE ScanEnds(c) \/ End(c) \/ Lock(c) \/ Unlock(c) \/ Handler(c) \/ Exit(c)
  BY <1>7 DEF ScanEnds, End, Lock, Unlock, Handler, Exit
<1> QED BY <1>1, <1>2, <1>3, <1>4, <1>5, <1>6, <1>7 DEF OtherStep

\* Every step of the boot is a step of BumpAlloc or leaves it alone.
LEMMA BootStep ==
  ASSUME machine \in Machines, [BootNext]_bootVars
  PROVE  [Next]_vars /\ machine' \in Machines
<1>1. ASSUME NEW c \in Cores, CoreStep(c) PROVE [Next]_vars /\ machine' \in Machines
  <2>1. {sizeof_Gdt, sizeof_Tss, sizeof_Idt, sizeof_WorkerState * machine.numcores} \subseteq Sizes /\ {1, 4, 8} \subseteq Aligns
    BY SizesUsed, AlignsUsed
  <2>2. CASE Alloc(c, "new gdt", sizeof_Gdt, 8, "gdt")
    <3>1. Bump(c, sizeof_Gdt, 8) /\ machine' = machine BY <2>2 DEF Alloc
    <3> QED BY <2>1, <3>1 DEF Next
  <2>3. CASE Alloc(c, "new tss", sizeof_Tss, 1, "tss")
    <3>1. Bump(c, sizeof_Tss, 1) /\ machine' = machine BY <2>3 DEF Alloc
    <3> QED BY <2>1, <3>1 DEF Next
  <2>4. CASE Alloc(c, "new workers", sizeof_WorkerState * machine.numcores, 8, "workers")
    <3>1. Bump(c, sizeof_WorkerState * machine.numcores, 8) /\ machine' = machine BY <2>4 DEF Alloc
    <3> QED BY <2>1, <3>1 DEF Next
  <2>5. CASE Alloc(c, "new idt", sizeof_Idt, 4, "idt")
    <3>1. Bump(c, sizeof_Idt, 4) /\ machine' = machine BY <2>5 DEF Alloc
    <3> QED BY <2>1, <3>1 DEF Next
  <2>6. CASE AllocStep(c) BY <2>6, AllocStepIsNext
  <2>7. CASE OtherStep(c) BY <2>7, OtherSteps
  <2> QED BY <1>1, <2>2, <2>3, <2>4, <2>5, <2>6, <2>7 DEF CoreStep, OtherStep
<1>2. ASSUME NEW c \in Cores, Start(c) \/ AddTask(c) \/ Fault(c)
      PROVE  [Next]_vars /\ machine' \in Machines
  BY <1>2, OtherSteps DEF OtherStep
<1>3. CASE Over \/ UNCHANGED bootVars
  BY <1>3 DEF Over, bootVars
<1> QED BY <1>1, <1>2, <1>3 DEF BootNext

\* The boot is a behaviour of BumpAlloc: GDT, TSS, workers and IDTs are cut from
\* InitAlloc by Bump__bump_impl alone, on whichever core.
THEOREM BootUsesBump == BootSpec => Spec
<1>1. BootInit => Init /\ machine \in Machines BY DEF BootInit
<1>2. machine \in Machines /\ [BootNext]_bootVars => (machine \in Machines)' BY BootStep
<1>3. machine \in Machines /\ [BootNext]_bootVars => [Next]_vars BY BootStep
<1> QED BY <1>1, <1>2, <1>3, PTL DEF BootSpec, Spec

\* The descriptor tables, the workers and the IDTs never overlap, on any machine
\* and however many of its cores are let on.
THEOREM TablesApart == BootSpec => []Disjoint
  BY BootUsesBump, NoOverlap, PTL

\* A table is refused for lack of room only when it does not fit.
THEOREM RefusedOnlyWhenFull == BootSpec => NullJustified
  BY BootUsesBump, NullOnlyWhenFull

-----------------------------------------------------------------------------
(* Tables, workers and exceptions: the inductive invariant *)

\* The step a core has reached, the lines it logs on the way left out
place == [c \in Cores |-> IF at[c] \in {"lock", "logging"} THEN cont[c] ELSE at[c]]

\* The steps up to the workers, which the boot core takes alone, those of every
\* core in task_begin, those of the boot core after them, and those of the handler
Before == {"start", "memory", "new gdt", "gdt", "new tss", "tss", "code", "add tss", "load gdt",
           "new workers", "workers"}
Joining == {"claim", "store", "lookup", "new idt", "idt"}
After == {"ltr", "main", "scan", "end"}
Handling == {"handler", "frame", "stack", "panic"}
Unclaimed == Before \cup {"parked", "claim"}
Indexed == {"new idt", "idt"} \cup After
Stored == {"lookup"} \cup Indexed
Claiming == {"store"} \cup Stored
Allocating == {"gdt", "tss", "workers", "idt"}
Steps == Before \cup Joining \cup After \cup Handling \cup {"parked", "followed", "exit"}

Types ==
  /\ machine \in Machines /\ room \in Nat
  /\ at \in [Cores -> Steps \cup {"lock", "logging"}] /\ cont \in [Cores -> Steps \cup {None}]
  /\ place \in [Cores -> Steps]
  /\ ptr \in [Cores -> Nat \cup {None}]
  /\ gdtr \in [Cores -> Nat \cup {None}] /\ cs \in [Cores -> Nat \cup {None}]
  /\ tr \in [Cores -> Nat \cup {None}] /\ DOMAIN idtr = Cores
  /\ DOMAIN workers \in {{}, 0 .. machine.numcores - 1} /\ DOMAIN rings \subseteq DOMAIN workers
  /\ init_count \in Nat /\ scanned \in [Cores -> Nat]
  /\ mine \in [Cores -> Nat \cup {None}] /\ self \in [Cores -> Nat \cup {None}]

\* Who is where: the boot core works alone until there are workers, and comes to
\* nothing but the handler and exit after an exception.
Cast ==
  LET b == machine.bsp IN
  /\ place[b] \notin {"parked", "followed"}
  /\ \A c \in Cores \ {b} : place[c] \in Joining \cup {"parked", "followed", "exit"}
  /\ \A c \in Cores \ machine.started : place[c] = "parked"
  /\ place[b] \in Before => DOMAIN workers = {}
  /\ DOMAIN workers = {} => \A c \in Cores \ {b} : place[c] = "parked"
  /\ \A c \in Cores : place[c] \in Joining \cup After => DOMAIN workers # {}
  /\ struck # {} => halted # "no" \/ place[b] \in Handling \cup {"exit"}

\* The TSS has an address and a stack, or the lack of one; the GDT leads to it and
\* to the code segment.
TssMade == tss.addr = [n \in 0 .. 7 |-> tss.addr[n]] /\ DOMAIN tss.ist = {1}
GdtMade ==
  /\ gdt.index = 4 /\ DOMAIN gdt.table = 0 .. 3
  /\ gdt.table[1] = GDT__KERNEL_CODE
  /\ gdt.table[2] = TssLow(tss.addr) /\ gdt.table[3] = TssHigh(tss.addr)

Gate == IdtEntry__set_handler("Idt__double_fault", 8)

\* How far the tables have come at each step of the boot core
Descriptors ==
  LET b == machine.bsp IN
  /\ \A c \in Cores \ {b} : tr[c] = None
  /\ place[b] \in {"new tss", "tss", "code"} => gdt = Gdt__init
  /\ place[b] \in {"code", "add tss"} => TssMade
  /\ place[b] = "add tss" =>
       /\ gdt.index = 2 /\ DOMAIN gdt.table = 0 .. 1 /\ gdt.table[1] = GDT__KERNEL_CODE
       /\ segment = 8
  /\ place[b] = "load gdt" => GdtMade /\ TssMade /\ segment = 8
  /\ place[b] \in {"new workers", "workers"} \cup Joining \cup After =>
       GdtMade /\ TssMade /\ gdtr[b] = 31 /\ cs[b] = 8
  /\ place[b] \in After => idtr[b] = Gate
  /\ place[b] \in Before \cup Joining \cup {"ltr"} => tr[b] = None
  /\ place[b] \in Handling => tr[b] # None
  /\ tr[b] # None => GdtMade /\ TssMade /\ gdtr[b] = 31 /\ tr[b] = 16 /\ idtr[b] = Gate

\* How much of InitAlloc is used at each step of the boot core up to the workers
Budget ==
  LET b == machine.bsp IN
  /\ \A c \in Cores : place[c] \notin Allocating => pc[c] = "idle"
  /\ place[b] \in {"start", "memory", "new gdt"} => index = 0
  /\ place[b] = "gdt" => IF pc[b] = "idle" THEN ptr[b] # None => index = sizeof_Gdt
                         ELSE index = 0 /\ size[b] = sizeof_Gdt /\ align[b] = 8
  /\ place[b] = "new tss" => index = sizeof_Gdt
  /\ place[b] = "tss" => IF pc[b] = "idle" THEN ptr[b] # None => index = sizeof_Gdt + sizeof_Tss
                         ELSE index = sizeof_Gdt /\ size[b] = sizeof_Tss /\ align[b] = 1
  /\ place[b] \in {"code", "add tss", "load gdt", "new workers"} => index = sizeof_Gdt + sizeof_Tss
  /\ place[b] = "workers" =>
       IF pc[b] = "idle" THEN ptr[b] = None => index + sizeof_WorkerState * machine.numcores > Capacity
       ELSE /\ index = sizeof_Gdt + sizeof_Tss /\ align[b] = 8
            /\ size[b] = sizeof_WorkerState * machine.numcores

\* init_count has counted the cores that have claimed a worker; each has one of
\* its own, stores its id there, and finds it again.
Claims ==
  LET claimed == {c \in Cores : mine[c] # None} IN
  /\ init_count = Cardinality(claimed)
  /\ \A c \in Cores : place[c] \in Unclaimed => mine[c] = None
  /\ \A c \in Cores : place[c] \in Claiming => mine[c] # None
  /\ \A c \in claimed : mine[c] < init_count
  /\ \A c, d \in claimed : mine[c] = mine[d] => c = d
  /\ \A w \in DOMAIN workers : workers[w] # 0 => workers[w] \in claimed /\ mine[workers[w]] = w
  /\ \A c \in Cores : place[c] \in Stored => workers[mine[c]] = c
  /\ \A c \in Cores : place[c] \in Indexed => self[c] # None
  /\ \A c \in Cores : self[c] # None => c \in claimed /\ (self[c] = mine[c] \/ (c = 0 /\ machine.started # {0}))

BootInv == Types /\ Cast /\ Descriptors /\ Budget /\ Claims /\ CrashJustified /\ FaultsHandled

-----------------------------------------------------------------------------
(* What a step does to the place of a core *)

Moves(c, s) ==
  /\ at' \in [Cores -> Steps \cup {"lock", "logging"}] /\ cont' \in [Cores -> Steps \cup {None}]
  /\ place' = [place EXCEPT ![c] = s]

\* A core that goes on, with or without a line logged first, is at the next step.
LEMMA MovesOn ==
  ASSUME Types, NEW c \in Cores, NEW s \in Steps, Goto(c, s) \/ Say(c, s)
  PROVE  Moves(c, s) /\ UNCHANGED <<ptr, halted, struck>>
<1>1. "lock" \notin Steps /\ "logging" \notin Steps
  BY DEF Steps, Before, Joining, After, Handling
<1>2. CASE Goto(c, s)
  <2>1. at' = [at EXCEPT ![c] = s] /\ cont' = cont BY <1>2 DEF Goto
  <2>2. at' \in [Cores -> Steps \cup {"lock", "logging"}] /\ cont' \in [Cores -> Steps \cup {None}]
    BY <2>1 DEF Types
  <2>3. place' = [place EXCEPT ![c] = s] BY <1>1, <2>1 DEF Types, place
  <2> QED BY <1>2, <2>2, <2>3 DEF Goto, Moves
<1>3. CASE Say(c, s)
  <2>1. at' = [at EXCEPT ![c] = "lock"] /\ cont' = [cont EXCEPT ![c] = s] BY <1>3 DEF Say
  <2>2. at' \in [Cores -> Steps \cup {"lock", "logging"}] /\ cont' \in [Cores -> Steps \cup {None}]
    BY <2>1 DEF Types
  <2>3. place' = [place EXCEPT ![c] = s] BY <1>1, <2>1 DEF Types, place
  <2> QED BY <1>3, <2>2, <2>3 DEF Say, Moves
<1> QED BY <1>2, <1>3

\* A core that takes a step of its own is at the place of that step.
LEMMA Here ==
  ASSUME NEW c \in Cores, NEW s, at[c] = s, s \notin {"lock", "logging"}
  PROVE  place[c] = s
  BY DEF place

\* A double fault is delivered exactly on a boot core whose task register is
\* loaded, if its TSS has a stack.
LEMMA Delivery ==
  ASSUME Types, Descriptors, NEW c \in Cores
  PROVE  /\ Deliverable(c) => c = machine.bsp /\ tr[c] # None
         /\ tr[c] # None /\ tss.ist[1] = "stack" => Deliverable(c)
<1>1. Deliverable(c) => tr[c] # None BY DEF Deliverable, Selects
<1>2. tr[c] # None => c = machine.bsp BY DEF Descriptors
<1>3. ASSUME tr[c] # None, tss.ist[1] = "stack" PROVE Deliverable(c)
  <2>1. GdtMade /\ TssMade /\ gdtr[c] = 31 /\ tr[c] = 16 /\ idtr[c] = Gate
    BY <1>2, <1>3 DEF Descriptors
  <2>2. idtr[c] # None BY <2>1, NoneAssumption DEF Gate
  <2>3. idtr[c].present /\ idtr[c].gdt_selector = 8 /\ idtr[c].ist = 1
    BY <2>1 DEF Gate, IdtEntry__set_handler
  <2>4. IdtEntry__handler_addr(idtr[c]) = Address("Idt__double_fault")
    BY <2>1 DEF Gate, IdtEntry__set_handler, IdtEntry__handler_addr, Address
  <2>5. None # 31 /\ None # 8 /\ None # 16 /\ None # 24 BY NoneAssumption
  <2>6. Selects(c, 8) /\ Selects(c, 16) /\ Selects(c, 24)
    BY <2>1, <2>5 DEF Selects, GdtMade
  <2>7. gdt.table[8 \div 8] = GDT__KERNEL_CODE BY <2>1 DEF GdtMade
  <2>8. SegmentBase(TssLow(tss.addr), TssHigh(tss.addr)) = tss.addr
    BY <2>1 DEF SegmentBase, TssLow, TssHigh, TssMade
  <2>9. SegmentBase(gdt.table[16 \div 8], gdt.table[(16 \div 8) + 1]) = tss.addr
    BY <2>1, <2>8 DEF GdtMade
  <2>10. 1 \in DOMAIN tss.ist BY <2>1 DEF TssMade
  <2> QED BY <1>3, <2>1, <2>2, <2>3, <2>4, <2>6, <2>7, <2>9, <2>10 DEF Deliverable
<1> QED BY <1>1, <1>2, <1>3

\* The steps that lead nowhere new: on the spot, to exit, along the handler, and
\* the plain steps of the boot core
Path(c, s) ==
  \/ s = place[c]
  \/ s = "exit" /\ place[c] \notin {"parked", "followed"} /\ pc[c] = "idle"
  \/ place[c] \in Handling /\ s \in Handling
  \/ <<place[c], s>> \in {<<"start", "memory">>, <<"memory", "new gdt">>, <<"scan", "end">>}

\* Registers, tables, allocator and workers stay as they are.
Quiet ==
  /\ UNCHANGED <<vars, machine, gdt, tss, segment, gdtr, cs, tr, idtr>>
  /\ UNCHANGED <<workers, DOMAIN rings, init_count, mine, self>>
  /\ room' \in Nat /\ scanned' \in [Cores -> Nat]

\* The workers stay as they are, as long as no core comes to steps of another kind.
LEMMA ClaimsKept ==
  ASSUME Claims, UNCHANGED <<machine, workers, init_count, mine, self>>,
         \A c \in Cores : /\ place'[c] \in Unclaimed => place[c] \in Unclaimed
                          /\ place'[c] \in Claiming => place[c] \in Claiming
                          /\ place'[c] \in Stored => place[c] \in Stored
                          /\ place'[c] \in Indexed => place[c] \in Indexed
  PROVE  Claims'
  BY DEF Claims

\* A quiet step along such a path keeps the invariant.
LEMMA QuietStep ==
  ASSUME BootInv, NEW c \in Cores, NEW s \in Steps, Path(c, s), Moves(c, s), Quiet,
         UNCHANGED <<ptr, halted, struck>>
  PROVE  BootInv'
<1> USE DEF BootInv
<1>1. place' = [place EXCEPT ![c] = s] /\ place \in [Cores -> Steps] BY DEF Moves, Types
<1>2. machine' = machine /\ machine.bsp \in Cores BY MachinesAssumption DEF Quiet, Types
<1>3. Types' BY <1>1 DEF Quiet, Moves, Types
<1>4. Cast'
  <2>1. place[c] = "start" \/ place[c] = "memory" \/ place[c] = "scan" => c = machine.bsp
    BY DEF Cast, Joining
  <2> QED BY <1>1, <1>2, <2>1 DEF Quiet, Cast, Path, Before, Joining, After, Handling
<1>5. Descriptors'
  <2>1. (GdtMade' <=> GdtMade) /\ (TssMade' <=> TssMade) BY DEF Quiet, GdtMade, TssMade
  <2> QED BY <1>1, <1>2, <2>1 DEF Quiet, Descriptors, Path, Before, Joining, After, Handling
<1>6. Budget'
  <2>1. UNCHANGED <<index, pc, size, align, ptr>> BY DEF Quiet, vars, args
  <2>2. \A d \in Cores : place'[d] \notin Allocating => place[d] \notin Allocating \/ pc[d] = "idle"
    BY <1>1 DEF Path, Allocating, Handling
  <2> QED BY <1>1, <1>2, <2>1, <2>2 DEF Budget, Path, Handling
<1>7. Claims'
  <2>1. \A d \in Cores : /\ place'[d] \in Unclaimed => place[d] \in Unclaimed
                         /\ place'[d] \in Claiming => place[d] \in Claiming
                         /\ place'[d] \in Stored => place[d] \in Stored
                         /\ place'[d] \in Indexed => place[d] \in Indexed
    BY <1>1 DEF Path, Unclaimed, Claiming, Stored, Indexed, Before, After, Handling
  <2> QED BY <2>1, ClaimsKept DEF Quiet
<1>8. CrashJustified' /\ FaultsHandled' BY DEF Quiet, vars, CrashJustified, FaultsHandled
<1> QED BY <1>3, <1>4, <1>5, <1>6, <1>7, <1>8

\* An exception of the program where CrashJustified allows one
Justified(c) ==
  /\ c = machine.bsp
  /\ \/ at[c] = "workers" /\ index + sizeof_WorkerState * machine.numcores > Capacity
     \/ at[c] \in {"main", "scan"} /\ DOMAIN rings # DOMAIN workers
     \/ at[c] = "ltr" /\ machine.started # {machine.bsp} /\ self[machine.bsp] # 0

\* An exception keeps the invariant: it is delivered to the handler or resets the
\* machine, and the latter only before the task register is loaded or without a
\* stack.
LEMMA ExceptStep ==
  ASSUME BootInv, NEW c \in Cores, NEW cause,
         Except(c, cause), cause = "program" => Justified(c),
         UNCHANGED <<vars, machine, room, tables, taskGlobals>>
  PROVE  BootInv'
<1> USE DEF BootInv
<1> DEFINE new == [cause |-> cause, step |-> at[c], locked |-> owner = c, ready |-> tr[c] # None]
<1>1. struck' = struck \cup {new} /\ ptr' = ptr /\ cont' = cont BY DEF Except
<1>2. machine' = machine /\ machine.bsp \in Cores BY MachinesAssumption DEF Types
<1>3. \/ /\ c = machine.bsp /\ tr[c] # None /\ halted' = halted
         /\ at' = [at EXCEPT ![c] = "handler"] /\ place' = [place EXCEPT ![c] = "handler"]
      \/ /\ halted' = "reset" /\ at' = at /\ place' = place
         /\ ~new.ready \/ tss.ist[1] # "stack"
  <2>1. CASE Deliverable(c)
    <3>1. at' = [at EXCEPT ![c] = "handler"] /\ halted' = halted BY <2>1 DEF Except
    <3>2. place' = [place EXCEPT ![c] = "handler"] BY <1>1, <3>1 DEF place, Types
    <3> QED BY <2>1, <3>1, <3>2, Delivery
  <2>2. CASE ~Deliverable(c)
    <3>1. at' = at /\ halted' = "reset" BY <2>2 DEF Except
    <3>2. place' = place BY <1>1, <3>1 DEF place
    <3>3. ~new.ready \/ tss.ist[1] # "stack" BY <2>2, Delivery
    <3> QED BY <3>1, <3>2, <3>3
  <2> QED BY <2>1, <2>2
<1>4. place \in [Cores -> Steps] /\ "handler" \in Steps BY DEF Types, Steps, Handling
<1> HIDE DEF new
<1>5. Types'
  <2>1. at' \in [Cores -> Steps \cup {"lock", "logging"}]
    <3>1. at \in [Cores -> Steps \cup {"lock", "logging"}] BY DEF Types
    <3>2. at' = at \/ at' = [at EXCEPT ![c] = "handler"] BY <1>3
    <3> QED BY <1>4, <3>1, <3>2
  <2>2. place' \in [Cores -> Steps] BY <1>3, <1>4
  <2> QED BY <1>1, <2>1, <2>2 DEF Types, tables, taskGlobals
<1>6. Cast'
  <2>1. /\ \A d \in Cores \ {machine.bsp} : place'[d] = place[d]
        /\ \/ halted' # "no" /\ place'[machine.bsp] = place[machine.bsp]
           \/ place'[machine.bsp] = "handler"
    BY <1>2, <1>3, <1>4
  <2>2. machine.bsp \in machine.started BY MachinesAssumption DEF Types
  <2> QED BY <1>2, <2>1, <2>2 DEF taskGlobals, Cast, Before, Joining, After, Handling
<1>7. Descriptors'
  <2>1. (GdtMade' <=> GdtMade) /\ (TssMade' <=> TssMade) BY DEF tables, GdtMade, TssMade
  <2> QED BY <1>2, <1>3, <1>4, <2>1 DEF tables, taskGlobals, Descriptors, Before, Joining, After, Handling
<1>8. Budget'
  <2>1. c = machine.bsp /\ tr[c] # None => place[c] \notin Before \cup Joining BY DEF Descriptors
  <2>2. \A d \in Cores : place'[d] = place[d] \/ (place'[d] = "handler" /\ place[d] \notin Allocating)
    BY <1>3, <1>4, <2>1 DEF Before, Joining, Allocating
  <2>3. UNCHANGED <<index, pc, size, align, ptr>> BY <1>1 DEF vars, args
  <2> QED BY <1>2, <2>2, <2>3 DEF Budget
<1>9. Claims'
  <2>1. \A d \in Cores : place'[d] = place[d] \/ place'[d] = "handler" BY <1>3, <1>4
  <2>2. "handler" \notin Unclaimed \cup Claiming \cup Stored \cup Indexed
    BY DEF Unclaimed, Claiming, Stored, Indexed, Before, After
  <2> QED BY <2>1, <2>2, ClaimsKept DEF taskGlobals
<1>10. CrashJustified'
  <2>1. new.cause = cause /\ new.step = at[c] BY DEF new
  <2>2. UNCHANGED <<index, machine, rings, workers, self>> BY DEF vars, taskGlobals
  <2> QED BY <1>1, <2>1, <2>2 DEF CrashJustified, Justified
<1>11. FaultsHandled'
  <2>1. CASE halted' = halted BY <1>1, <2>1 DEF FaultsHandled, tables
  <2>2. CASE ~new.ready \/ tss.ist[1] # "stack" BY <1>1, <2>2 DEF FaultsHandled, tables
  <2> QED BY <1>3, <2>1, <2>2
<1> QED BY <1>5, <1>6, <1>7, <1>8, <1>9, <1>10, <1>11

-----------------------------------------------------------------------------
(* The steps that are quiet, or cause an exception *)

\* A failed assertion, or the end: exit comes next.
LEMMA PanicStep ==
  ASSUME BootInv, NEW c \in Cores, place[c] \notin {"parked", "followed"}, pc[c] = "idle",
         Panic(c), Quiet
  PROVE  BootInv'
<1>1. "exit" \in Steps BY DEF Steps
<1>2. Moves(c, "exit") /\ UNCHANGED <<ptr, halted, struck>>
  BY <1>1, MovesOn DEF Panic, BootInv
<1>3. Path(c, "exit") BY DEF Path
<1> QED BY <1>1, <1>2, <1>3, QuietStep

\* Logging, the first steps and the last ones, the handler, exit and Start change
\* nothing but the place of a core.
LEMMA PlainSteps ==
  ASSUME BootInv, NEW c \in Cores,
         CheckApic(c) \/ MemoryInit(c) \/ Handler(c) \/ ScanEnds(c) \/ End(c)
  PROVE  BootInv'
<1> USE DEF BootInv
<1>0. room \in Nat /\ scanned \in [Cores -> Nat] BY DEF Types
<1>1. {"memory", "new gdt", "frame", "stack", "panic", "exit", "end"} \subseteq Steps
  BY DEF Steps, Before, Handling, After
<1>2. CASE CheckApic(c)
  <2>1. place[c] = "start" BY <1>2, Here DEF CheckApic, Running
  <2>2. pc[c] = "idle" BY <2>1 DEF Budget, Allocating
  <2>3. Quiet BY <1>0, <1>2 DEF CheckApic, Quiet, tables, taskGlobals
  <2>4. CASE Say(c, "memory")
    BY <1>1, <2>1, <2>3, <2>4, MovesOn, QuietStep DEF Path
  <2>5. CASE Panic(c) BY <2>1, <2>2, <2>3, <2>5, PanicStep
  <2> QED BY <1>2, <2>4, <2>5 DEF CheckApic
<1>3. CASE MemoryInit(c)
  <2>1. place[c] = "memory" BY <1>3, Here DEF MemoryInit, Running
  <2>2. pc[c] = "idle" BY <2>1 DEF Budget, Allocating
  <2>3. room' \in Nat
    <3>1. (room > 0 /\ room' = room - 1) \/ room' = room BY <1>3 DEF MemoryInit
    <3> QED BY <1>0, <3>1
  <2>4. Quiet BY <1>0, <1>3, <2>3 DEF MemoryInit, Quiet, tables, taskGlobals
  <2>5. CASE Say(c, "new gdt")
    BY <1>1, <2>1, <2>4, <2>5, MovesOn, QuietStep DEF Path
  <2>6. CASE Panic(c) BY <2>1, <2>2, <2>4, <2>6, PanicStep
  <2> QED BY <1>3, <2>5, <2>6 DEF MemoryInit
<1>4. CASE Handler(c)
  <2> DEFINE Then == [handler |-> "frame", frame |-> "stack", stack |-> "panic", panic |-> "exit"]
  <2>1. at[c] \in Handling /\ Say(c, Then[at[c]]) BY <1>4 DEF Handler, Handling
  <2>2. Then[at[c]] \in Handling \cup {"exit"} BY <2>1 DEF Handling
  <2>3. place[c] = at[c] BY <2>1, Here DEF Handling
  <2>4. pc[c] = "idle" BY <2>1, <2>3 DEF Budget, Allocating, Handling
  <2>5. Quiet BY <1>0, <1>4 DEF Handler, Quiet, tables, taskGlobals
  <2> HIDE DEF Then
  <2>6. Path(c, Then[at[c]]) BY <2>1, <2>2, <2>3, <2>4 DEF Path, Handling
  <2>7. Then[at[c]] \in Steps BY <2>2 DEF Steps
  <2> QED BY <2>1, <2>5, <2>6, <2>7, MovesOn, QuietStep
<1>5. CASE ScanEnds(c)
  <2>1. place[c] = "scan" BY <1>5, Here DEF ScanEnds, Running
  <2>2. Quiet BY <1>0, <1>5 DEF ScanEnds, Quiet, tables, taskGlobals
  <2>3. Say(c, "end") BY <1>5 DEF ScanEnds
  <2> QED BY <1>1, <2>1, <2>2, <2>3, MovesOn, QuietStep DEF Path
<1>6. CASE End(c)
  <2>1. place[c] = "end" BY <1>6, Here DEF End, Running
  <2>2. pc[c] = "idle" BY <2>1 DEF Budget, Allocating
  <2>3. Quiet BY <1>0, <1>6 DEF End, Quiet, tables, taskGlobals
  <2>4. Panic(c) BY <1>6 DEF End
  <2> QED BY <2>1, <2>2, <2>3, <2>4, PanicStep
<1> QED BY <1>2, <1>3, <1>4, <1>5, <1>6

\* Taking and giving back the mutex of the logger leaves a core at its place.
LEMMA LogSteps ==
  ASSUME BootInv, NEW c \in Cores, Lock(c) \/ Unlock(c)
  PROVE  BootInv'
<1> USE DEF BootInv
<1>1. Quiet /\ UNCHANGED <<ptr, halted, struck, cont>>
  BY DEF Lock, Unlock, Quiet, tables, taskGlobals, Types
<1>2. place[c] \in Steps /\ "lock" \notin Steps /\ "logging" \notin Steps
  BY DEF Types, Steps, Before, Joining, After, Handling
<1>3. /\ at \in [Cores -> Steps \cup {"lock", "logging"}] /\ cont \in [Cores -> Steps \cup {None}]
      /\ place \in [Cores -> Steps]
  BY DEF Types
<1>4. CASE Lock(c)
  <2>1. at[c] = "lock" /\ at' = [at EXCEPT ![c] = "logging"] BY <1>4 DEF Lock, Running
  <2>2. place' = place BY <1>1, <1>3, <2>1 DEF place
  <2>3. at' \in [Cores -> Steps \cup {"lock", "logging"}] BY <1>3, <2>1
  <2>4. Moves(c, place[c]) BY <1>1, <1>3, <2>2, <2>3 DEF Moves
  <2> QED BY <1>1, <1>2, <2>4, QuietStep DEF Path
<1>5. CASE Unlock(c)
  <2>1. at[c] = "logging" /\ at' = [at EXCEPT ![c] = cont[c]] BY <1>5 DEF Unlock, Running
  <2>2. place[c] = cont[c] BY <2>1 DEF place
  <2>3. place' = place BY <1>1, <1>2, <1>3, <2>1, <2>2 DEF place
  <2>4. at' \in [Cores -> Steps \cup {"lock", "logging"}] BY <1>2, <1>3, <2>1, <2>2
  <2>5. Moves(c, place[c]) BY <1>1, <1>3, <2>3, <2>4 DEF Moves
  <2> QED BY <1>1, <1>2, <2>5, QuietStep DEF Path
<1> QED BY <1>4, <1>5

\* The machine is switched off.
LEMMA ExitStep ==
  ASSUME BootInv, NEW c \in Cores, Exit(c)
  PROVE  BootInv'
<1>1. UNCHANGED <<at, cont, ptr, struck, vars, machine, room, tables, taskGlobals>> /\ halted' = "off"
  BY DEF Exit
<1>2. place' = place /\ GdtMade' = GdtMade /\ TssMade' = TssMade
  BY <1>1 DEF place, tables, GdtMade, TssMade
<1>3. Types' BY <1>1, <1>2 DEF BootInv, Types, tables, taskGlobals
<1>4. Cast' /\ Descriptors' BY <1>1, <1>2 DEF BootInv, Cast, Descriptors, tables, taskGlobals
<1>5. Budget' BY <1>1, <1>2 DEF BootInv, Budget, vars, args
<1>6. Claims' BY <1>1, <1>2, ClaimsKept DEF BootInv, taskGlobals
<1>7. CrashJustified' BY <1>1 DEF BootInv, CrashJustified, vars, taskGlobals
<1>8. FaultsHandled' BY <1>1 DEF FaultsHandled
<1> QED BY <1>3, <1>4, <1>5, <1>6, <1>7, <1>8 DEF BootInv

\* An exception from outside
LEMMA FaultStep ==
  ASSUME BootInv, NEW c \in Cores, Fault(c)
  PROVE  BootInv'
  BY ExceptStep DEF Fault

-----------------------------------------------------------------------------
(* What the steps of one kind have in common *)

\* The ways from step to step before, in and after task_begin
Along(c, s) ==
  \/ c = machine.bsp /\ place[c] \in Before /\ s \in Before
  \/ place[c] \in Joining /\ s \in Joining
  \/ c = machine.bsp /\ place[c] \in Joining \cup After /\ s \in After
  \/ c # machine.bsp /\ place[c] \in Joining /\ s = "followed"
  \/ /\ c # machine.bsp /\ c \in machine.started /\ DOMAIN workers # {}
     /\ place[c] = "parked" /\ s = "claim"

\* The boot core is alone as long as it should be.
LEMMA CastKept ==
  ASSUME Types, Cast, halted = "no", NEW c \in Cores, NEW s \in Steps, Moves(c, s), Along(c, s),
         UNCHANGED <<machine, halted, struck>>, DOMAIN workers' = DOMAIN workers
  PROVE  Cast'
<1>1. place' = [place EXCEPT ![c] = s] /\ place \in [Cores -> Steps] BY DEF Moves, Types
<1>2. machine.bsp \in Cores /\ machine.bsp \in machine.started /\ machine.started \subseteq Cores
  BY MachinesAssumption DEF Types
<1>3. CASE c = machine.bsp
  <2>1. place[c] \in Before \cup Joining \cup After BY <1>3 DEF Along
  <2>2. struck = {} BY <1>3, <2>1 DEF Cast, Before, Joining, After, Handling
  <2> QED BY <1>1, <1>2, <1>3, <2>2 DEF Cast, Along, Before, Joining, After, Handling
<1>4. CASE c # machine.bsp
  <2>1. place'[machine.bsp] = place[machine.bsp] BY <1>1, <1>2, <1>4
  <2>2. /\ s \in Joining \cup {"followed"} /\ DOMAIN workers # {}
        /\ c \in machine.started
    BY <1>1, <1>4 DEF Along, Cast, Joining
  <2>3. \A d \in Cores \ {c} : place'[d] = place[d] BY <1>1
  <2>4. place'[c] = s BY <1>1
  <2> QED BY <1>2, <1>4, <2>1, <2>2, <2>3, <2>4 DEF Cast
<1> QED BY <1>3, <1>4

\* What another core does leaves the tables of the boot core alone.
LEMMA DescriptorsKept ==
  ASSUME Types, Descriptors, NEW c \in Cores, NEW s \in Steps, Moves(c, s), c # machine.bsp,
         UNCHANGED <<machine, gdt, tss, segment, gdtr, cs, tr>>,
         idtr'[machine.bsp] = idtr[machine.bsp]
  PROVE  Descriptors'
<1>1. machine.bsp \in Cores BY MachinesAssumption DEF Types
<1>2. place'[machine.bsp] = place[machine.bsp] BY <1>1 DEF Moves, Types
<1>3. (GdtMade' <=> GdtMade) /\ (TssMade' <=> TssMade) BY DEF GdtMade, TssMade
<1> QED BY <1>2, <1>3 DEF Descriptors

\* Nor does the boot core itself change them in task_begin, up to its IDT.
LEMMA DescriptorsJoined ==
  ASSUME Types, Descriptors, NEW c \in Cores, NEW s \in Joining, Moves(c, s), place[c] \in Joining,
         UNCHANGED <<machine, gdt, tss, segment, gdtr, cs, tr, idtr>>
  PROVE  Descriptors'
<1>1. machine.bsp \in Cores BY MachinesAssumption DEF Types
<1>2. s \in Steps BY DEF Steps
<1>3. CASE c # machine.bsp BY <1>1, <1>2, <1>3, DescriptorsKept
<1>4. CASE c = machine.bsp
  <2>1. place'[machine.bsp] \in Joining BY <1>4 DEF Moves, Types
  <2>2. (GdtMade' <=> GdtMade) /\ (TssMade' <=> TssMade) BY DEF GdtMade, TssMade
  <2>3. /\ GdtMade /\ TssMade /\ gdtr[machine.bsp] = 31 /\ cs[machine.bsp] = 8
        /\ tr[machine.bsp] = None /\ \A d \in Cores \ {machine.bsp} : tr[d] = None
    BY <1>4 DEF Descriptors
  <2> QED BY <2>1, <2>2, <2>3 DEF Descriptors, Before, Joining, After, Handling
<1> QED BY <1>3, <1>4

\* A step outside the allocator, of a core that has returned from it
LEMMA BudgetKept ==
  ASSUME Types, Budget, NEW c \in Cores, NEW s \in Steps, Moves(c, s), pc[c] = "idle",
         UNCHANGED <<vars, machine, ptr>>,
         c = machine.bsp => s \notin Before
  PROVE  Budget'
<1>1. machine.bsp \in Cores BY MachinesAssumption DEF Types
<1>2. place' = [place EXCEPT ![c] = s] /\ place \in [Cores -> Steps] BY DEF Moves, Types
<1>3. UNCHANGED <<index, pc, size, align>> BY DEF vars, args
<1>4. \A d \in Cores : place'[d] \notin Allocating => place[d] \notin Allocating \/ pc[d] = "idle"
  BY <1>2
<1>5. place'[machine.bsp] = place[machine.bsp] \/ place'[machine.bsp] \notin Before
  BY <1>1, <1>2
<1>6. \A d \in Cores : place'[d] \notin Allocating => pc'[d] = "idle" BY <1>3, <1>4 DEF Budget
<1> QED BY <1>3, <1>5, <1>6 DEF Budget, Before

\* While no exception has struck, or only those steps follow that leave its
\* reasons alone, crashes stay justified.
LEMMA CrashKept ==
  ASSUME Types, CrashJustified, halted' = "no", UNCHANGED <<machine, struck>>,
         struck # {} => /\ index \in Nat /\ index' \in Nat /\ index <= index'
                        /\ DOMAIN rings' = DOMAIN rings /\ DOMAIN workers' = DOMAIN workers
                        /\ self'[machine.bsp] = self[machine.bsp]
  PROVE  CrashJustified' /\ FaultsHandled'
<1>1. FaultsHandled' BY DEF FaultsHandled
<1>2. machine.numcores \in Nat BY MachinesAssumption DEF Types
<1>3. sizeof_WorkerState * machine.numcores \in Nat BY <1>2 DEF sizeof_WorkerState
<1>4. struck # {} /\ index + sizeof_WorkerState * machine.numcores > Capacity
        => index' + sizeof_WorkerState * machine.numcores > Capacity
  BY <1>3, CapacityAssumption
<1>5. CrashJustified' BY <1>4 DEF CrashJustified
<1> QED BY <1>1, <1>5

\* No exception has struck as long as the boot core is not at its end.
LEMMA NoneStruck ==
  ASSUME Cast, halted = "no", place[machine.bsp] \in Before \cup Joining \cup After
  PROVE  struck = {}
  BY DEF Cast, Before, Joining, After, Handling

\* Another core is let on.
LEMMA StartStep ==
  ASSUME BootInv, NEW c \in Cores, Start(c)
  PROVE  BootInv'
<1> USE DEF BootInv
<1>1. halted = "no" /\ place[c] = "parked" /\ c \in machine.started /\ DOMAIN workers # {}
  BY Here DEF Start, Running
<1>2. c # machine.bsp BY <1>1 DEF Cast
<1>3. "claim" \in Steps /\ "claim" \in Joining BY DEF Steps, Joining
<1>4. Moves(c, "claim") /\ UNCHANGED <<ptr, halted, struck>> BY <1>3, MovesOn DEF Start
<1>5. UNCHANGED <<vars, machine, room, tables, taskGlobals>> BY DEF Start
<1>6. place' = [place EXCEPT ![c] = "claim"] /\ place \in [Cores -> Steps] BY <1>4 DEF Moves, Types
<1>7. Types' BY <1>3, <1>4, <1>5, <1>6 DEF Types, Moves, tables, taskGlobals
<1>8. Cast' BY <1>1, <1>2, <1>3, <1>4, <1>5, CastKept DEF Along, taskGlobals
<1>9. Descriptors' BY <1>2, <1>3, <1>4, <1>5, DescriptorsKept DEF tables, taskGlobals
<1>10. pc[c] = "idle" BY <1>1 DEF Budget, Allocating
<1>11. Budget' BY <1>2, <1>3, <1>4, <1>5, <1>10, BudgetKept
<1>12. Claims'
  <2>1. \A d \in Cores : /\ place'[d] \in Unclaimed => place[d] \in Unclaimed
                         /\ place'[d] \in Claiming => place[d] \in Claiming
                         /\ place'[d] \in Stored => place[d] \in Stored
                         /\ place'[d] \in Indexed => place[d] \in Indexed
    BY <1>1, <1>6 DEF Unclaimed, Claiming, Stored, Indexed, After
  <2> QED BY <1>5, <2>1, ClaimsKept DEF taskGlobals
<1>13. CrashJustified' /\ FaultsHandled'
  BY <1>1, <1>4, <1>5 DEF CrashJustified, FaultsHandled, vars, taskGlobals
<1> QED BY <1>7, <1>8, <1>9, <1>11, <1>12, <1>13

-----------------------------------------------------------------------------
(* Workers *)

\* Min of a set of natural numbers
LEMMA MinIsLeast ==
  ASSUME NEW T \in SUBSET Nat, T # {}
  PROVE  Min(T) \in T /\ \A y \in T : Min(T) <= y
  BY Least DEF Min

\* No more workers are claimed than there are, and with one core let on it is the first.
LEMMA ClaimCount ==
  ASSUME Types, Cast, Claims
  PROVE  LET claimed == {c \in Cores : mine[c] # None} IN
         /\ IsFiniteSet(claimed) /\ claimed \subseteq machine.started
         /\ machine.numcores \in Nat /\ init_count <= machine.numcores
         /\ \A b \in Cores : machine.started = {b} => init_count <= 1
<1> DEFINE claimed == {c \in Cores : mine[c] # None}
<1>1. /\ IsFiniteSet(machine.started) /\ machine.started \subseteq Cores
      /\ Cardinality(machine.started) <= machine.numcores /\ machine.numcores \in Nat
  BY MachinesAssumption DEF Types
<1>2. claimed \subseteq machine.started BY DEF Cast, Claims, Unclaimed
<1> HIDE DEF claimed
<1>3. IsFiniteSet(claimed) /\ Cardinality(claimed) <= Cardinality(machine.started)
  BY <1>1, <1>2, FS_Subset
<1>4. init_count = Cardinality(claimed) BY DEF Claims, claimed
<1>5. Cardinality(machine.started) \in Nat /\ Cardinality(claimed) \in Nat
  BY <1>1, <1>3, FS_CardinalityType
<1>6. \A b \in Cores : machine.started = {b} => init_count <= 1
  BY <1>3, <1>4, FS_Singleton
<1>7. init_count <= machine.numcores BY <1>1, <1>3, <1>4, <1>5
<1> QED BY <1>1, <1>2, <1>3, <1>6, <1>7 DEF claimed

\* A claimed worker has a number below init_count.
LEMMA ClaimedNumber ==
  ASSUME Types, Claims, NEW c \in Cores, mine[c] # None
  PROVE  mine[c] \in Nat /\ mine[c] < init_count
<1>1. mine[c] \in Nat BY DEF Types
<1>2. c \in {d \in Cores : mine[d] # None} OBVIOUS
<1>3. mine[c] < init_count BY <1>2 DEF Claims
<1> QED BY <1>1, <1>3

\* self_index is set once get_worker_index has returned.
LEMMA IndexKnown ==
  ASSUME Types, Claims, NEW c \in Cores, place[c] \in Indexed
  PROVE  self[c] \in Nat
<1>1. self[c] # None BY DEF Claims
<1>2. self[c] \in Nat \cup {None} BY DEF Types
<1> QED BY <1>1, <1>2

\* get_worker_index finds the worker that the core has claimed, unless the core has
\* the id 0 that unused workers have too and is not alone.
LEMMA Found ==
  ASSUME Types, Cast, Claims, NEW c \in Cores, place[c] \in Stored
  PROVE  LET found == {w \in DOMAIN workers : workers[w] = c} IN
         /\ found # {} /\ Min(found) \in Nat
         /\ Min(found) = mine[c] \/ (c = 0 /\ machine.started # {0})
<1> DEFINE found == {w \in DOMAIN workers : workers[w] = c}
<1>1. /\ place[c] \in Claiming /\ place[c] \in Joining \cup After
  BY DEF Claiming, Stored, Indexed, Joining, After
<1>2. mine[c] # None /\ workers[mine[c]] = c /\ mine[c] \in Nat /\ mine[c] < init_count
  BY <1>1 DEF Claims, Types
<1>3. DOMAIN workers = 0 .. machine.numcores - 1 BY <1>1 DEF Cast, Types
<1>4. init_count <= machine.numcores /\ machine.numcores \in Nat /\ init_count \in Nat
  BY ClaimCount DEF Types
<1>5. mine[c] \in found BY <1>2, <1>3, <1>4
<1>6. found \in SUBSET Nat BY <1>3, <1>4
<1>7. Min(found) \in found /\ \A y \in found : Min(found) <= y BY <1>5, <1>6, MinIsLeast
<1>8. CASE c # 0
  <2>1. \A w \in found : w = mine[c] BY <1>8 DEF Claims
  <2> QED BY <1>5, <1>6, <1>7, <2>1
<1>9. CASE c = 0 /\ machine.started = {0}
  <2>1. init_count <= 1 BY <1>9, ClaimCount
  <2>2. mine[c] = 0 BY <1>2, <1>4, <2>1
  <2>3. Min(found) <= 0 /\ Min(found) \in Nat BY <1>5, <1>6, <1>7, <2>2
  <2> QED BY <1>5, <2>2, <2>3
<1> QED BY <1>5, <1>6, <1>7, <1>8, <1>9

\* a_add on init_count: the core has a number nobody else has.
LEMMA ClaimStep ==
  ASSUME BootInv, NEW c \in Cores, Claim(c)
  PROVE  BootInv'
<1> USE DEF BootInv
<1>1. halted = "no" /\ place[c] = "claim" BY Here DEF Claim, Running
<1>2. {"claim", "store"} \subseteq Joining /\ "store" \in Steps BY DEF Steps, Joining
<1>3. Moves(c, "store") /\ UNCHANGED <<ptr, halted, struck>> BY <1>2, MovesOn DEF Claim
<1>4. /\ UNCHANGED <<vars, machine, room, gdt, tss, segment, gdtr, cs, tr, idtr>>
      /\ UNCHANGED <<workers, rings, self, scanned>>
      /\ mine' = [mine EXCEPT ![c] = init_count] /\ init_count' = init_count + 1
  BY DEF Claim, tables
<1>5. place' = [place EXCEPT ![c] = "store"] /\ place \in [Cores -> Steps] BY <1>3 DEF Moves, Types
<1>6. Types' BY <1>2, <1>3, <1>4, <1>5 DEF Types, Moves
<1>7. Cast' BY <1>1, <1>2, <1>3, <1>4, CastKept DEF Along
<1>8. Descriptors' BY <1>1, <1>2, <1>3, <1>4, DescriptorsJoined
<1>9. pc[c] = "idle" BY <1>1 DEF Budget, Allocating
<1>10. Budget' BY <1>2, <1>3, <1>4, <1>9, BudgetKept DEF Before
<1>11. Claims'
  <2> DEFINE claimed == {d \in Cores : mine[d] # None}
  <2>1. mine[c] = None /\ None \notin Nat /\ init_count \in Nat
    BY <1>1, NoneAssumption DEF Claims, Types, Unclaimed
  <2>2. mine' = [mine EXCEPT ![c] = init_count] /\ DOMAIN mine = Cores BY <1>4 DEF Types
  <2>3. {d \in Cores : mine'[d] # None} = claimed \cup {c} BY <2>1, <2>2
  <2>4. IsFiniteSet(claimed) /\ c \notin claimed BY <2>1, ClaimCount
  <2>5. init_count = Cardinality(claimed) BY DEF Claims
  <2>6. Cardinality(claimed \cup {c}) = init_count + 1 BY <2>4, <2>5, FS_AddElement
  <2>7. \A d \in claimed : mine'[d] = mine[d] /\ mine[d] < init_count /\ mine[d] \in Nat
    BY <2>1, <2>2 DEF Claims, Types
  <2>8. mine'[c] = init_count BY <2>2
  <2> HIDE DEF claimed
  <2>9. \A d \in claimed \cup {c} : mine'[d] < init_count' BY <1>4, <2>1, <2>7, <2>8
  <2>10. \A d, e \in claimed \cup {c} : mine'[d] = mine'[e] => d = e
    <3>1. \A d, e \in claimed : mine[d] = mine[e] => d = e BY DEF Claims, claimed
    <3>2. \A d \in claimed : mine'[d] # init_count BY <2>1, <2>7
    <3> QED BY <2>7, <2>8, <3>1, <3>2
  <2>11. \A d \in Cores \ {c} : place'[d] = place[d] /\ mine'[d] = mine[d] BY <1>5, <2>2
  <2>12. place'[c] = "store" /\ "store" \notin Unclaimed \cup Stored
    BY <1>5 DEF Unclaimed, Stored, Indexed, Before, After
  <2>13. \A w \in DOMAIN workers : workers[w] # 0 => workers[w] \in claimed /\ mine[workers[w]] = w
    BY DEF Claims, claimed
  <2>14. \A d \in Cores : self[d] # None
            => d \in claimed /\ (self[d] = mine[d] \/ (d = 0 /\ machine.started # {0}))
    BY DEF Claims, claimed
  <2>15. \A d \in Cores : place'[d] \in Unclaimed => mine'[d] = None BY <2>11, <2>12 DEF Claims
  <2>16. \A d \in Cores : place'[d] \in Claiming => mine'[d] # None
    BY <2>1, <2>8, <2>11 DEF Claims
  <2>17. \A d \in Cores : place'[d] \in Stored => workers[mine'[d]] = d BY <2>11, <2>12 DEF Claims
  <2>18. \A d \in Cores : place'[d] \in Indexed => self[d] # None BY <2>11, <2>12 DEF Claims, Stored
  <2> QED BY <1>4, <2>3, <2>6, <2>7, <2>9, <2>10, <2>13, <2>14, <2>15, <2>16, <2>17, <2>18 DEF Claims
<1>12. CrashJustified' /\ FaultsHandled'
  BY <1>1, <1>3, <1>4 DEF CrashJustified, FaultsHandled, vars
<1> QED BY <1>6, <1>7, <1>8, <1>10, <1>11, <1>12

\* state->core_id = core_id(): the claimed worker carries the id of its core.
LEMMA StoreStep ==
  ASSUME BootInv, NEW c \in Cores, Store(c)
  PROVE  BootInv'
<1> USE DEF BootInv
<1>1. halted = "no" /\ place[c] = "store" BY Here DEF Store, Running
<1>2. {"store", "lookup"} \subseteq Joining /\ "lookup" \in Steps BY DEF Steps, Joining
<1>3. Moves(c, "lookup") /\ UNCHANGED <<ptr, halted, struck>> BY <1>2, MovesOn DEF Store
<1>4. /\ UNCHANGED <<vars, machine, room, gdt, tss, segment, gdtr, cs, tr, idtr>>
      /\ UNCHANGED <<rings, self, scanned, mine, init_count>>
      /\ workers' = [workers EXCEPT ![mine[c]] = c]
  BY DEF Store, tables
<1>5. place' = [place EXCEPT ![c] = "lookup"] /\ place \in [Cores -> Steps] BY <1>3 DEF Moves, Types
<1>6. DOMAIN workers' = DOMAIN workers BY <1>4
<1>7. Types' BY <1>2, <1>3, <1>4, <1>5, <1>6 DEF Types, Moves
<1>8. Cast' BY <1>1, <1>2, <1>3, <1>4, <1>6, CastKept DEF Along
<1>9. Descriptors' BY <1>1, <1>2, <1>3, <1>4, DescriptorsJoined
<1>10. pc[c] = "idle" BY <1>1 DEF Budget, Allocating
<1>11. Budget' BY <1>2, <1>3, <1>4, <1>10, BudgetKept DEF Before
<1>12. Claims'
  <2>1. mine[c] # None /\ mine[c] \in Nat /\ mine[c] < init_count
    <3>1. mine[c] # None BY <1>1 DEF Claims, Claiming
    <3> QED BY <3>1, ClaimedNumber
  <2>2. DOMAIN workers = 0 .. machine.numcores - 1 BY <1>1, <1>2 DEF Cast, Types
  <2>3. init_count <= machine.numcores /\ machine.numcores \in Nat /\ init_count \in Nat
    BY ClaimCount DEF Types
  <2>4. mine[c] \in DOMAIN workers BY <2>1, <2>2, <2>3
  <2>5. workers'[mine[c]] = c /\ \A w \in DOMAIN workers \ {mine[c]} : workers'[w] = workers[w]
    BY <1>4, <2>4
  <2>6. \A d \in Cores \ {c} : place'[d] = place[d] BY <1>5
  <2>7. place'[c] = "lookup" /\ "lookup" \in Claiming /\ "lookup" \notin Unclaimed
    BY <1>5 DEF Unclaimed, Claiming, Stored, Indexed, Before
  <2>8. \A d \in Cores \ {c} : mine[d] # None => mine[d] # mine[c]
    <3>1. \A d, e \in Cores : mine[d] # None /\ mine[e] # None /\ mine[d] = mine[e] => d = e
      BY DEF Claims
    <3> QED BY <2>1, <3>1
  <2>9. \A d \in Cores \ {c} : place[d] \in Stored => mine[d] # None /\ workers'[mine[d]] = workers[mine[d]]
    <3> SUFFICES ASSUME NEW d \in Cores \ {c}, place[d] \in Stored
                 PROVE  mine[d] # None /\ workers'[mine[d]] = workers[mine[d]]
      OBVIOUS
    <3>1. mine[d] # None BY DEF Claims, Claiming
    <3>2. mine[d] \in Nat /\ mine[d] < init_count BY <3>1, ClaimedNumber
    <3>3. mine[d] \in DOMAIN workers \ {mine[c]} BY <2>2, <2>3, <2>8, <3>1, <3>2
    <3> QED BY <2>5, <3>1, <3>3
  <2>10. \A d \in Cores : place'[d] \in Stored => workers'[mine[d]] = d
    BY <2>5, <2>6, <2>9 DEF Claims
  <2>11. \A d \in Cores : /\ place'[d] \in Unclaimed => mine[d] = None
                          /\ place'[d] \in Claiming => mine[d] # None
    BY <2>1, <2>6, <2>7 DEF Claims
  <2>12. \A w \in DOMAIN workers' : workers'[w] # 0
            => workers'[w] \in {d \in Cores : mine[d] # None} /\ mine[workers'[w]] = w
    BY <1>6, <2>1, <2>5 DEF Claims
  <2>13. "lookup" \notin Indexed BY DEF Indexed, After
  <2>14. \A d \in Cores : place'[d] \in Indexed => self[d] # None BY <2>6, <2>7, <2>13 DEF Claims
  <2> QED BY <1>4, <2>10, <2>11, <2>12, <2>14 DEF Claims
<1>13. CrashJustified' /\ FaultsHandled'
  BY <1>1, <1>3, <1>4, <1>6, CrashKept DEF IndInv, CrashJustified, FaultsHandled, vars
<1> QED BY <1>7, <1>8, <1>9, <1>11, <1>12, <1>13

\* get_worker_index in task_begin and again in task_main
LEMMA LookupStep ==
  ASSUME BootInv, NEW c \in Cores, Lookup(c, "lookup", "new idt") \/ Lookup(c, "main", "scan")
  PROVE  BootInv'
<1> USE DEF BootInv
<1> DEFINE found == {w \in DOMAIN workers : workers[w] = c}
<1>1. PICK here \in {"lookup", "main"} : Lookup(c, here, IF here = "lookup" THEN "new idt" ELSE "scan")
  OBVIOUS
<1> DEFINE there == IF here = "lookup" THEN "new idt" ELSE "scan"
<1>2. halted = "no" /\ at[c] = here /\ place[c] = here BY <1>1, Here DEF Lookup, Running
<1>3. here \in Stored /\ there \in Steps /\ there \in Stored
  BY DEF Stored, Indexed, Steps, Joining, After
<1>4. /\ found # {} /\ Min(found) \in Nat
      /\ Min(found) = mine[c] \/ (c = 0 /\ machine.started # {0})
  BY <1>2, <1>3, Found
<1>5. /\ Goto(c, there) /\ self' = [self EXCEPT ![c] = Min(found)]
      /\ UNCHANGED <<vars, machine, room, gdt, tss, segment, gdtr, cs, tr, idtr>>
      /\ UNCHANGED <<workers, rings, init_count, mine, scanned>>
  BY <1>1, <1>4 DEF Lookup, tables
<1>6. Moves(c, there) /\ UNCHANGED <<ptr, halted, struck>> BY <1>3, <1>5, MovesOn
<1>7. place' = [place EXCEPT ![c] = there] /\ place \in [Cores -> Steps] BY <1>6 DEF Moves, Types
<1> HIDE DEF found, there
<1>8. Types'
  <2>1. place' \in [Cores -> Steps] BY <1>3, <1>7
  <2>2. self' \in [Cores -> Nat \cup {None}] BY <1>4, <1>5 DEF Types
  <2> QED BY <1>5, <1>6, <2>1, <2>2 DEF Types, Moves
<1>9. (here = "lookup" /\ there = "new idt") \/ (here = "main" /\ there = "scan" /\ c = machine.bsp)
  BY <1>2 DEF Cast, Joining, there
<1>10. Along(c, there) BY <1>2, <1>9 DEF Along, Joining, After
<1>11. Cast' BY <1>2, <1>3, <1>5, <1>6, <1>10, CastKept
<1>12. Descriptors'
  <2>1. CASE here = "lookup"
    <3>1. here \in Joining /\ there \in Joining BY <1>9, <2>1 DEF Joining
    <3> QED BY <1>2, <1>5, <1>6, <3>1, DescriptorsJoined
  <2>2. CASE here = "main"
    <3>1. c = machine.bsp /\ place[c] = "main" /\ place'[c] = "scan" BY <1>2, <1>7, <1>9, <2>2
    <3>2. (GdtMade' <=> GdtMade) /\ (TssMade' <=> TssMade) BY <1>5 DEF GdtMade, TssMade
    <3> QED BY <1>5, <3>1, <3>2 DEF Descriptors, Before, Joining, After, Handling
  <2> QED BY <2>1, <2>2
<1>13. pc[c] = "idle" BY <1>2, <1>9 DEF Budget, Allocating
<1>14. there \notin Before BY <1>9 DEF Before
<1>15. Budget' BY <1>3, <1>5, <1>6, <1>13, <1>14, BudgetKept
<1>16. Claims'
  <2>1. there \in Claiming /\ here \in Claiming /\ there \notin Unclaimed
    BY <1>3, <1>9 DEF Claiming, Unclaimed, Before
  <2>2. \A d \in Cores \ {c} : place'[d] = place[d] /\ self'[d] = self[d] BY <1>5, <1>7 DEF Types
  <2>3. place'[c] = there /\ self'[c] = Min(found) BY <1>5, <1>7 DEF Types
  <2>4. mine[c] # None /\ workers[mine[c]] = c
    <3>1. place[c] \in Claiming /\ place[c] \in Stored BY <1>2, <1>3, <2>1
    <3> QED BY <3>1 DEF Claims
  <2>5. \A d \in Cores : self'[d] # None
          => mine[d] # None /\ (self'[d] = mine[d] \/ (d = 0 /\ machine.started # {0}))
    BY <1>4, <2>2, <2>3, <2>4 DEF Claims
  <2>6. \A d \in Cores : /\ place'[d] \in Unclaimed => mine[d] = None
                         /\ place'[d] \in Claiming => mine[d] # None
                         /\ place'[d] \in Stored => workers[mine[d]] = d
    BY <2>1, <2>2, <2>3, <2>4 DEF Claims
  <2>7. \A d \in Cores : place'[d] \in Indexed => self'[d] # None
    BY <1>4, <2>2, <2>3, NoneAssumption DEF Claims
  <2> QED BY <1>5, <2>5, <2>6, <2>7 DEF Claims
<1>17. CrashJustified' /\ FaultsHandled'
  <2>1. index' = index /\ halted' = "no" BY <1>2, <1>5, <1>6 DEF vars
  <2>2. c = machine.bsp => struck = {}
    BY <1>2, <1>3, NoneStruck DEF Stored, Indexed, Joining
  <2>3. c # machine.bsp => self'[machine.bsp] = self[machine.bsp]
    BY <1>5, MachinesAssumption DEF Types
  <2> QED BY <1>5, <1>6, <2>1, <2>2, <2>3 DEF CrashJustified, FaultsHandled
<1> QED BY <1>8, <1>11, <1>12, <1>15, <1>16, <1>17

-----------------------------------------------------------------------------
(* Allocation *)

\* Only the boot core is at a step before or after task_begin.
LEMMA BootCore ==
  ASSUME Cast, NEW c \in Cores, place[c] \in Before \cup After
  PROVE  c = machine.bsp
  BY DEF Cast, Before, Joining, After

\* Bump__bump is called for a table.
LEMMA AllocCall ==
  ASSUME BootInv, IndInv, NEW c \in Cores, NEW here, NEW there, NEW s, NEW a,
         Alloc(c, here, s, a, there),
         \/ here = "new gdt" /\ there = "gdt" /\ s = sizeof_Gdt /\ a = 8
         \/ here = "new tss" /\ there = "tss" /\ s = sizeof_Tss /\ a = 1
         \/ here = "new workers" /\ there = "workers" /\ s = sizeof_WorkerState * machine.numcores /\ a = 8
         \/ here = "new idt" /\ there = "idt"
  PROVE  BootInv'
<1> USE DEF BootInv
<1>1. halted = "no" /\ place[c] = here BY Here DEF Alloc, Running
<1>2. there \in Steps BY DEF Steps, Before, Joining
<1>3. Moves(c, there) /\ UNCHANGED <<ptr, halted, struck>> BY <1>2, MovesOn DEF Alloc
<1>4. UNCHANGED <<machine, room, tables, taskGlobals>> /\ Bump(c, s, a) BY DEF Alloc
<1>5. place' = [place EXCEPT ![c] = there] /\ place \in [Cores -> Steps] BY <1>3 DEF Moves, Types
<1>6. Types' BY <1>2, <1>3, <1>4, <1>5 DEF Types, Moves, tables, taskGlobals
<1>7. here # "new idt" => c = machine.bsp BY <1>1, BootCore DEF Before
<1>8. machine.bsp \in Cores BY MachinesAssumption DEF Types
<1>9. Cast'
  <2>1. Along(c, there) BY <1>1, <1>7 DEF Along, Before, Joining
  <2> QED BY <1>1, <1>2, <1>3, <1>4, <2>1, CastKept DEF taskGlobals
<1>10. Descriptors'
  <2>1. CASE here = "new idt"
    BY <1>1, <1>3, <1>4, <2>1, DescriptorsJoined DEF tables, taskGlobals, Joining
  <2>2. CASE here # "new idt"
    <3>1. (GdtMade' <=> GdtMade) /\ (TssMade' <=> TssMade) BY <1>4 DEF tables, GdtMade, TssMade
    <3>2. UNCHANGED <<machine, gdt, tss, segment, gdtr, cs, tr, idtr, self>> BY <1>4 DEF tables, taskGlobals
    <3>3. place[machine.bsp] = here /\ place'[machine.bsp] = there BY <1>1, <1>5, <1>7, <1>8, <2>2
    <3> QED BY <2>2, <3>1, <3>2, <3>3 DEF Descriptors, Before, Joining, After, Handling
  <2> QED BY <2>1, <2>2
<1>11. Budget'
  <2>1. /\ pc[c] = "idle" /\ pc' = [pc EXCEPT ![c] = "load"] /\ index' = index
        /\ size' = [size EXCEPT ![c] = s] /\ align' = [align EXCEPT ![c] = a]
    BY <1>4 DEF Bump
  <2>2. pc'[c] = "load" /\ size'[c] = s /\ align'[c] = a /\ \A d \in Cores \ {c} : pc'[d] = pc[d]
    BY <2>1 DEF IndInv, TypeOK
  <2>3. place'[c] = there /\ \A d \in Cores \ {c} : place'[d] = place[d] BY <1>5
  <2>4. \A d \in Cores : place'[d] \notin Allocating => pc'[d] = "idle"
    BY <2>2, <2>3 DEF Budget, Allocating
  <2>5. CASE here = "new idt"
    <3>1. place'[machine.bsp] \notin Before
      BY <1>1, <1>8, <2>3, <2>5 DEF Cast, Before, Joining
    <3> QED BY <1>4, <2>4, <3>1 DEF Budget, Before
  <2>6. CASE here # "new idt"
    <3>1. place[machine.bsp] = here /\ place'[machine.bsp] = there BY <1>1, <1>7, <2>3, <2>6
    <3>2. pc'[machine.bsp] = "load" /\ size'[machine.bsp] = s /\ align'[machine.bsp] = a
      BY <1>7, <2>2, <2>6
    <3> QED BY <1>4, <2>1, <2>4, <2>6, <3>1, <3>2 DEF Budget
  <2> QED BY <2>5, <2>6
<1>12. Claims'
  <2>1. \A d \in Cores : /\ place'[d] \in Unclaimed => place[d] \in Unclaimed
                         /\ place'[d] \in Claiming => place[d] \in Claiming
                         /\ place'[d] \in Stored => place[d] \in Stored
                         /\ place'[d] \in Indexed => place[d] \in Indexed
    BY <1>1, <1>5 DEF Unclaimed, Claiming, Stored, Indexed, Before, After
  <2> QED BY <1>4, <2>1, ClaimsKept DEF taskGlobals
<1>13. CrashJustified' /\ FaultsHandled'
  BY <1>1, <1>3, <1>4 DEF CrashJustified, FaultsHandled, Bump, taskGlobals
<1> QED BY <1>6, <1>9, <1>10, <1>11, <1>12, <1>13

\* The steps inside Bump__bump_impl: the tables lie one behind the other, so the
\* boot core knows how much of InitAlloc is used when it asks for the workers.
LEMMA AllocInside ==
  ASSUME BootInv, IndInv, NEW c \in Cores, AllocStep(c)
  PROVE  BootInv'
<1> USE DEF BootInv
<1>1. halted = "no" /\ at[c] \in Allocating BY DEF AllocStep, Allocating
<1>2. place[c] = at[c] BY <1>1, Here DEF Allocating
<1>3. UNCHANGED <<at, cont, halted, struck, machine, room, tables, taskGlobals>> BY DEF AllocStep
<1>4. place' = place /\ place \in [Cores -> Steps] BY <1>3 DEF place, Types
<1>5. \/ Load(c) /\ ptr' = ptr
      \/ Retry(c) /\ ptr' = ptr
      \/ Exchange(c) /\ ptr' = [ptr EXCEPT ![c] = aligned_index(c)]
      \/ TooLarge(c) /\ ptr' = [ptr EXCEPT ![c] = None]
  BY DEF AllocStep
<1>6. pc[c] = "try" => /\ aligned_index(c) \in Nat /\ end_index(c) \in Nat
                       /\ bump_index[c] <= aligned_index(c) /\ aligned_index(c) < end_index(c)
  BY NewRegion
<1>7. ptr' \in [Cores -> Nat \cup {None}] BY <1>5, <1>6 DEF Exchange, Types
<1>8. Types' BY <1>3, <1>4, <1>7 DEF Types, tables, taskGlobals
<1>9. Cast' BY <1>3, <1>4 DEF Cast, taskGlobals
<1>10. Descriptors'
  <2>1. (GdtMade' <=> GdtMade) /\ (TssMade' <=> TssMade) BY <1>3 DEF tables, GdtMade, TssMade
  <2> QED BY <1>3, <1>4, <2>1 DEF tables, taskGlobals, Descriptors
<1>11. Claims' BY <1>3, <1>4, ClaimsKept DEF taskGlobals
<1>12. index \in Nat /\ index' \in Nat /\ index <= index'
  BY <1>5, <1>6 DEF Load, Retry, Exchange, TooLarge, IndInv, TypeOK
<1>13. CrashJustified' /\ FaultsHandled' BY <1>1, <1>3, <1>12, CrashKept DEF taskGlobals
<1>14. Budget'
  <2>1. machine.bsp \in Cores /\ machine.numcores \in Nat BY MachinesAssumption DEF Types
  <2>2. \A d \in Cores \ {c} : pc'[d] = pc[d] BY <1>5 DEF Load, Retry, Exchange, TooLarge, IndInv, TypeOK
  <2>3. \A d \in Cores : place'[d] \notin Allocating => pc'[d] = "idle"
    BY <1>1, <1>2, <1>4, <2>2 DEF Budget
  <2>4. CASE c # machine.bsp \/ place[c] = "idt"
    <3>1. place[c] = "idt" BY <1>1, <1>2, <2>4, BootCore DEF Allocating, Before
    <3>2. place[machine.bsp] \notin Before BY <2>1, <3>1 DEF Cast, Joining, Before
    <3> QED BY <1>3, <1>4, <2>3, <3>2 DEF Budget, Before
  <2>0. /\ Exchange(c) => ptr' = [ptr EXCEPT ![c] = aligned_index(c)]
        /\ TooLarge(c) => ptr' = [ptr EXCEPT ![c] = None]
    <3>1. Exchange(c) \/ TooLarge(c) => pc[c] = "try" BY DEF Exchange, TooLarge
    <3>2. Exchange(c) => ~TooLarge(c) /\ ~Load(c) /\ ~Retry(c)
      BY <1>6, CapacityAssumption DEF Exchange, TooLarge, Load, Retry
    <3>3. TooLarge(c) => ~Load(c) /\ ~Retry(c)
      BY <1>6, CapacityAssumption DEF TooLarge, Load, Retry
    <3> QED BY <1>5, <3>2, <3>3
  <2>5. CASE c = machine.bsp /\ place[c] # "idt" /\ (Load(c) \/ Retry(c))
    <3>1. pc[c] # "idle" /\ pc'[c] # "idle" /\ UNCHANGED <<index, size, align>>
      BY <2>5 DEF Load, Retry, args, IndInv, TypeOK
    <3> QED BY <1>1, <1>2, <1>3, <1>4, <2>3, <2>5, <3>1 DEF Budget, Allocating
  <2>6. CASE c = machine.bsp /\ place[c] # "idt" /\ Exchange(c)
    <3>1. /\ pc[c] = "try" /\ pc'[c] = "idle" /\ ptr'[c] = aligned_index(c) /\ bump_index[c] = index
          /\ index' = aligned_index(c) + size[c]
      BY <2>0, <2>6 DEF Exchange, IndInv, TypeOK, Types, end_index
    <3>2. ptr'[c] # None BY <1>6, <3>1, NoneAssumption
    <3>3. aligned_index(c) = align_up(index, align[c]) BY <3>1 DEF aligned_index
    <3>4. place[c] = "gdt" => index' = sizeof_Gdt
      BY <2>6, <3>1, <3>3 DEF Budget, align_up, sizeof_Gdt
    <3>5. place[c] = "tss" => index' = sizeof_Gdt + sizeof_Tss
      BY <2>6, <3>1, <3>3 DEF Budget, align_up, sizeof_Gdt, sizeof_Tss
    <3> QED BY <1>1, <1>2, <1>3, <1>4, <2>3, <2>6, <3>1, <3>2, <3>4, <3>5 DEF Budget, Allocating
  <2>7. CASE c = machine.bsp /\ place[c] # "idt" /\ TooLarge(c)
    <3>1. pc[c] = "try" /\ pc'[c] = "idle" /\ ptr'[c] = None /\ index' = index
      BY <2>0, <2>7 DEF TooLarge, IndInv, TypeOK, Types
    <3>2. ASSUME place[c] = "workers" PROVE index + sizeof_WorkerState * machine.numcores > Capacity
      <4>1. /\ index = sizeof_Gdt + sizeof_Tss /\ align[c] = 8
            /\ size[c] = sizeof_WorkerState * machine.numcores
        BY <2>7, <3>1, <3>2 DEF Budget
      <4>2. bump_index[c] \in Nat /\ bump_index[c] <= index BY <3>1 DEF IndInv, TypeOK
      <4>3. align_up(bump_index[c], 8) <= align_up(index, 8) BY <1>12, <4>2, AlignUpMonotonic
      <4>4. align_up(index, 8) = index BY <4>1 DEF align_up, sizeof_Gdt, sizeof_Tss
      <4>5. align_up(bump_index[c], 8) + size[c] > Capacity
        BY <2>7, <4>1 DEF TooLarge, end_index, aligned_index
      <4>6. align_up(bump_index[c], 8) \in Nat BY <4>2, AlignUp
      <4>7. size[c] \in Nat BY DEF IndInv, TypeOK
      <4> QED BY <1>12, <4>1, <4>3, <4>4, <4>5, <4>6, <4>7, CapacityAssumption
    <3> QED BY <1>1, <1>2, <1>3, <1>4, <2>3, <2>7, <3>1, <3>2 DEF Budget, Allocating
  <2> QED BY <1>5, <2>4, <2>5, <2>6, <2>7
<1> QED BY <1>8, <1>9, <1>10, <1>11, <1>13, <1>14

-----------------------------------------------------------------------------
(* Descriptor tables *)

\* What the steps of the boot core that fill in the tables have in common.
LEMMA TableStep ==
  ASSUME BootInv, NEW s \in Before, halted = "no", place[machine.bsp] \in Before,
         Moves(machine.bsp, s), UNCHANGED <<vars, machine, ptr, halted, struck>>, UNCHANGED taskGlobals,
         pc[machine.bsp] = "idle",
         room' \in Nat, gdtr' \in [Cores -> Nat \cup {None}], cs' \in [Cores -> Nat \cup {None}],
         UNCHANGED <<tr, idtr>>
  PROVE  Types' /\ Cast' /\ Claims' /\ CrashJustified' /\ FaultsHandled'
<1> USE DEF BootInv
<1>1. machine.bsp \in Cores /\ s \in Steps BY MachinesAssumption DEF Types, Steps
<1>2. place' = [place EXCEPT ![machine.bsp] = s] /\ place \in [Cores -> Steps] BY DEF Moves, Types
<1>3. Types' BY <1>1, <1>2 DEF Types, Moves, taskGlobals
<1>4. Cast' BY <1>1, CastKept DEF Along, taskGlobals
<1>5. Claims'
  <2>1. \A d \in Cores : /\ place'[d] \in Unclaimed => place[d] \in Unclaimed
                         /\ place'[d] \in Claiming => place[d] \in Claiming
                         /\ place'[d] \in Stored => place[d] \in Stored
                         /\ place'[d] \in Indexed => place[d] \in Indexed
    BY <1>1, <1>2 DEF Unclaimed, Claiming, Stored, Indexed, Before, After
  <2> QED BY <2>1, ClaimsKept DEF taskGlobals
<1>6. CrashJustified' /\ FaultsHandled' BY DEF CrashJustified, FaultsHandled, vars, taskGlobals
<1> QED BY <1>3, <1>4, <1>5, <1>6

\* descriptor__init, up to load_gdt
LEMMA TableSteps ==
  ASSUME BootInv, NEW c \in Cores,
         NewGdt(c) \/ NewTss(c) \/ AddCode(c) \/ AddTss(c) \/ LoadGdt(c)
  PROVE  BootInv'
<1> USE DEF BootInv
<1>0. /\ room \in Nat /\ gdtr \in [Cores -> Nat \cup {None}] /\ cs \in [Cores -> Nat \cup {None}]
      /\ scanned \in [Cores -> Nat] /\ place \in [Cores -> Steps] /\ machine.bsp \in Cores
  BY MachinesAssumption DEF Types
<1>1. {"new tss", "code", "add tss", "load gdt", "new workers"} \subseteq Before /\ Before \subseteq Steps
  BY DEF Before, Steps
<1>2. CASE NewGdt(c)
  <2>1. halted = "no" /\ place[c] = "gdt" /\ pc[c] = "idle" BY <1>2, Here DEF NewGdt, Returned, Running
  <2>2. c = machine.bsp BY <2>1, BootCore DEF Before
  <2>3. CASE ptr[c] = None
    <3>1. Panic(c) /\ Quiet BY <1>0, <1>2, <2>3 DEF NewGdt, Quiet, taskGlobals
    <3> QED BY <2>1, <3>1, PanicStep
  <2>4. CASE ptr[c] # None
    <3>1. /\ Goto(c, "new tss") /\ gdt' = Gdt__init /\ taskGlobals' = taskGlobals
          /\ UNCHANGED <<vars, machine, room, tss, segment, gdtr, cs, tr, idtr>>
      BY <1>2, <2>4 DEF NewGdt
    <3>2. Moves(c, "new tss") /\ UNCHANGED <<ptr, halted, struck>> BY <1>1, <3>1, MovesOn
    <3>3. Types' /\ Cast' /\ Claims' /\ CrashJustified' /\ FaultsHandled'
      BY <1>0, <1>1, <2>1, <2>2, <3>1, <3>2, TableStep DEF Before
    <3>4. place'[machine.bsp] = "new tss" /\ place[machine.bsp] = "gdt" BY <1>0, <2>1, <2>2, <3>2 DEF Moves
    <3>5. Descriptors'
      BY <3>1, <3>4 DEF Descriptors, Before, Joining, After, Handling
    <3>6. Budget'
      <4>1. \A d \in Cores : place'[d] \notin Allocating => pc[d] = "idle"
        BY <1>0, <2>1, <3>2 DEF Moves, Budget
      <4> QED BY <2>1, <2>2, <2>4, <3>1, <3>4, <4>1 DEF Budget, vars, args
    <3> QED BY <3>3, <3>5, <3>6
  <2> QED BY <2>3, <2>4
<1>3. CASE NewTss(c)
  <2>1. halted = "no" /\ place[c] = "tss" /\ pc[c] = "idle" BY <1>3, Here DEF NewTss, Returned, Running
  <2>2. c = machine.bsp BY <2>1, BootCore DEF Before
  <2>3. CASE ptr[c] = None
    <3>1. Panic(c) /\ Quiet BY <1>0, <1>3, <2>3 DEF NewTss, Quiet, taskGlobals
    <3> QED BY <2>1, <3>1, PanicStep
  <2>4. CASE ptr[c] # None
    <3> DEFINE stack == IF room > 0 THEN "stack" ELSE "no stack"
    <3>1. /\ Goto(c, "code") /\ taskGlobals' = taskGlobals
          /\ tss' = [addr |-> Address(<<"tss", ptr[c]>>), ist |-> <<stack>>]
          /\ room' = IF room > 0 THEN room - 1 ELSE 0
          /\ UNCHANGED <<vars, machine, gdt, segment, gdtr, cs, tr, idtr>>
      BY <1>3, <2>4 DEF NewTss
    <3>2. Moves(c, "code") /\ UNCHANGED <<ptr, halted, struck>> BY <1>1, <3>1, MovesOn
    <3>3. room' \in Nat
      <4>1. room' = IF room > 0 THEN room - 1 ELSE 0 BY <3>1
      <4>2. room \in Nat BY <1>0
      <4> QED BY <4>1, <4>2
    <3> HIDE DEF stack
    <3>4. Types' /\ Cast' /\ Claims' /\ CrashJustified' /\ FaultsHandled'
      BY <1>0, <1>1, <2>1, <2>2, <3>1, <3>2, <3>3, TableStep DEF Before
    <3>5. place'[machine.bsp] = "code" /\ place[machine.bsp] = "tss" BY <1>0, <2>1, <2>2, <3>2 DEF Moves
    <3>6. TssMade' BY <3>1 DEF TssMade, Address
    <3>7. Descriptors'
      BY <3>1, <3>5, <3>6 DEF Descriptors, Before, Joining, After, Handling
    <3>8. Budget'
      <4>1. \A d \in Cores : place'[d] \notin Allocating => pc[d] = "idle"
        BY <1>0, <2>1, <3>2 DEF Moves, Budget
      <4> QED BY <2>1, <2>2, <2>4, <3>1, <3>5, <4>1 DEF Budget, vars, args
    <3> QED BY <3>4, <3>7, <3>8
  <2> QED BY <2>3, <2>4
<1>4. CASE AddCode(c)
  <2>1. halted = "no" /\ place[c] = "code" BY <1>4, Here DEF AddCode, Running
  <2>2. c = machine.bsp BY <2>1, BootCore DEF Before
  <2>3. pc[c] = "idle" BY <2>1 DEF Budget, Allocating
  <2>4. gdt = Gdt__init /\ TssMade BY <2>1, <2>2 DEF Descriptors
  <2>5. gdt.index = 1 /\ gdt.index * 8 = 8 /\ ~(gdt.index >= 8) BY <2>4 DEF Gdt__init
  <2>6. /\ Goto(c, "add tss") /\ taskGlobals' = taskGlobals
        /\ gdt' = Gdt__append(gdt, <<GDT__KERNEL_CODE>>) /\ segment' = gdt.index * 8
        /\ UNCHANGED <<vars, machine, room, tss, gdtr, cs, tr, idtr>>
    BY <1>4, <2>5 DEF AddCode
  <2>7. Moves(c, "add tss") /\ UNCHANGED <<ptr, halted, struck>> BY <1>1, <2>6, MovesOn
  <2>8. Types' /\ Cast' /\ Claims' /\ CrashJustified' /\ FaultsHandled'
    BY <1>0, <1>1, <2>1, <2>2, <2>3, <2>6, <2>7, TableStep DEF Before
  <2>9. place'[machine.bsp] = "add tss" /\ place[machine.bsp] = "code" BY <1>0, <2>1, <2>2, <2>7 DEF Moves
  <2>10. Cardinality(DOMAIN <<GDT__KERNEL_CODE>>) = 1
    <3>1. DOMAIN <<GDT__KERNEL_CODE>> = {1} OBVIOUS
    <3> QED BY <3>1, FS_Singleton
  <2>11. gdt'.index = 2 /\ DOMAIN gdt'.table = 0 .. 1 /\ gdt'.table[1] = GDT__KERNEL_CODE
    <3>1. /\ gdt'.index = 1 + 1
          /\ gdt'.table = [i \in 0 .. 1 + 1 - 1 |->
                            IF i < 1 THEN gdt.table[i] ELSE <<GDT__KERNEL_CODE>>[i - 1 + 1]]
      BY <2>5, <2>6, <2>10 DEF Gdt__append
    <3>2. <<GDT__KERNEL_CODE>>[1] = GDT__KERNEL_CODE OBVIOUS
    <3>3. 0 .. 1 + 1 - 1 = 0 .. 1 OBVIOUS
    <3> QED BY <3>1, <3>2, <3>3
  <2>12. segment' = 8 /\ TssMade'
    <3>1. segment' = 8 BY <2>5, <2>6
    <3>2. TssMade' BY <2>4, <2>6 DEF TssMade
    <3> QED BY <3>1, <3>2
  <2>13. Descriptors'
    BY <2>6, <2>9, <2>11, <2>12 DEF Descriptors, Before, Joining, After, Handling
  <2>14. Budget'
    <3>1. \A d \in Cores : place'[d] \notin Allocating => pc[d] = "idle"
      BY <1>0, <2>3, <2>7 DEF Moves, Budget
    <3> QED BY <2>6, <2>9, <3>1 DEF Budget, vars, args
  <2> QED BY <2>8, <2>13, <2>14
<1>5. CASE AddTss(c)
  <2>1. halted = "no" /\ place[c] = "add tss" BY <1>5, Here DEF AddTss, Running
  <2>2. c = machine.bsp BY <2>1, BootCore DEF Before
  <2>3. pc[c] = "idle" BY <2>1 DEF Budget, Allocating
  <2>4. /\ gdt.index = 2 /\ DOMAIN gdt.table = 0 .. 1 /\ gdt.table[1] = GDT__KERNEL_CODE
        /\ segment = 8 /\ TssMade
    BY <2>1, <2>2 DEF Descriptors
  <2> DEFINE low == TssLow(tss.addr)
             high == TssHigh(tss.addr)
  <2>5. gdt.index * 8 = tss_segment(0) /\ ~(gdt.index + 1 >= 8) BY <2>4 DEF tss_segment
  <2>6. /\ Goto(c, "load gdt") /\ taskGlobals' = taskGlobals
        /\ gdt' = Gdt__append(gdt, <<low, high>>)
        /\ UNCHANGED <<vars, machine, room, tss, segment, gdtr, cs, tr, idtr>>
    BY <1>5, <2>5 DEF AddTss
  <2>7. Moves(c, "load gdt") /\ UNCHANGED <<ptr, halted, struck>> BY <1>1, <2>6, MovesOn
  <2>8. Types' /\ Cast' /\ Claims' /\ CrashJustified' /\ FaultsHandled'
    BY <1>0, <1>1, <2>1, <2>2, <2>3, <2>6, <2>7, TableStep DEF Before
  <2>9. place'[machine.bsp] = "load gdt" /\ place[machine.bsp] = "add tss" BY <1>0, <2>1, <2>2, <2>7 DEF Moves
  <2>10. low = TssLow(tss'.addr) /\ high = TssHigh(tss'.addr) BY <2>6
  <2> HIDE DEF low, high
  <2>11. Cardinality(DOMAIN <<low, high>>) = 2
    <3>1. DOMAIN <<low, high>> = {1} \cup {2} OBVIOUS
    <3>2. IsFiniteSet({1}) /\ Cardinality({1}) = 1 BY FS_Singleton
    <3>3. Cardinality({1} \cup {2}) = 1 + 1 BY <3>2, FS_AddElement
    <3> QED BY <3>1, <3>3
  <2>12. /\ gdt'.index = 4 /\ DOMAIN gdt'.table = 0 .. 3
         /\ gdt'.table[1] = GDT__KERNEL_CODE /\ gdt'.table[2] = low /\ gdt'.table[3] = high
    <3>1. /\ gdt'.index = 2 + 2
          /\ gdt'.table = [i \in 0 .. 2 + 2 - 1 |-> IF i < 2 THEN gdt.table[i] ELSE <<low, high>>[i - 2 + 1]]
      BY <2>4, <2>6, <2>11 DEF Gdt__append
    <3>2. <<low, high>>[1] = low /\ <<low, high>>[2] = high OBVIOUS
    <3>3. 0 .. 2 + 2 - 1 = 0 .. 3 OBVIOUS
    <3> QED BY <2>4, <3>1, <3>2, <3>3
  <2>13. GdtMade' BY <2>10, <2>12 DEF GdtMade
  <2>14. TssMade' /\ segment' = 8 BY <2>4, <2>6 DEF TssMade
  <2>15. Descriptors'
    BY <2>6, <2>9, <2>13, <2>14 DEF Descriptors, Before, Joining, After, Handling
  <2>16. Budget'
    <3>1. \A d \in Cores : place'[d] \notin Allocating => pc[d] = "idle"
      BY <1>0, <2>3, <2>7 DEF Moves, Budget
    <3> QED BY <2>6, <2>9, <3>1 DEF Budget, vars, args
  <2> QED BY <2>8, <2>15, <2>16
<1>6. CASE LoadGdt(c)
  <2>1. halted = "no" /\ place[c] = "load gdt" BY <1>6, Here DEF LoadGdt, Running
  <2>2. c = machine.bsp BY <2>1, BootCore DEF Before
  <2>3. pc[c] = "idle" BY <2>1 DEF Budget, Allocating
  <2>4. GdtMade /\ TssMade /\ segment = 8 BY <2>1, <2>2 DEF Descriptors
  <2>5. /\ Say(c, "new workers") /\ taskGlobals' = taskGlobals
        /\ gdtr' = [gdtr EXCEPT ![c] = 31] /\ cs' = [cs EXCEPT ![c] = 8]
        /\ UNCHANGED <<vars, machine, room, gdt, tss, segment, tr, idtr>>
    <3>1. gdt.index = 4 BY <2>4 DEF GdtMade
    <3>2. gdt.index * 8 - 1 = 31 BY <3>1
    <3> QED BY <1>6, <2>4, <3>2 DEF LoadGdt
  <2>6. Moves(c, "new workers") /\ UNCHANGED <<ptr, halted, struck>> BY <1>1, <2>5, MovesOn
  <2>7. gdtr' \in [Cores -> Nat \cup {None}] /\ cs' \in [Cores -> Nat \cup {None}] BY <1>0, <2>5
  <2>8. Types' /\ Cast' /\ Claims' /\ CrashJustified' /\ FaultsHandled'
    BY <1>0, <1>1, <2>1, <2>2, <2>3, <2>5, <2>6, <2>7, TableStep DEF Before
  <2>9. place'[machine.bsp] = "new workers" /\ place[machine.bsp] = "load gdt" BY <1>0, <2>1, <2>2, <2>6 DEF Moves
  <2>10. GdtMade' /\ TssMade' BY <2>4, <2>5 DEF GdtMade, TssMade
  <2>11. gdtr'[machine.bsp] = 31 /\ cs'[machine.bsp] = 8 BY <1>0, <2>2, <2>5
  <2>12. Descriptors'
    BY <2>5, <2>9, <2>10, <2>11 DEF Descriptors, Before, Joining, After, Handling
  <2>13. Budget'
    <3>1. \A d \in Cores : place'[d] \notin Allocating => pc[d] = "idle"
      BY <1>0, <2>3, <2>6 DEF Moves, Budget
    <3> QED BY <2>5, <2>9, <3>1 DEF Budget, vars, args
  <2> QED BY <2>8, <2>12, <2>13
<1> QED BY <1>2, <1>3, <1>4, <1>5, <1>6

-----------------------------------------------------------------------------
(* The workers are made; IDT, ltr, tasks *)

\* tasks__init: there are workers from now on, all of them unclaimed.
LEMMA WorkersStep ==
  ASSUME BootInv, NEW c \in Cores, NewWorkers(c)
  PROVE  BootInv'
<1> USE DEF BootInv
<1>1. halted = "no" /\ at[c] = "workers" /\ place[c] = "workers" /\ pc[c] = "idle"
  BY Here DEF NewWorkers, Returned, Running
<1>2. c = machine.bsp BY <1>1, BootCore DEF Before
<1>3. /\ room \in Nat /\ scanned \in [Cores -> Nat] /\ place \in [Cores -> Steps]
      /\ machine.bsp \in Cores /\ machine.numcores \in Nat /\ machine.bsp \in machine.started
  BY MachinesAssumption DEF Types
<1>4. /\ UNCHANGED <<vars, machine, gdt, tss, segment, gdtr, cs, tr, idtr>>
      /\ UNCHANGED <<init_count, init_finish_count, mine, self, scanned, tasks>>
  BY DEF NewWorkers, tables
<1> DEFINE Made == /\ Say(c, "claim") /\ workers' = [w \in 0 .. machine.numcores - 1 |-> 0]
                   /\ rings' = [w \in {v \in 0 .. machine.numcores - 1 : v < room - 2} |-> {}]
                   /\ room' = IF room - 2 > machine.numcores THEN room - 2 - machine.numcores ELSE 0
<1>5. CASE Panic(c) /\ UNCHANGED <<room, workers, rings>>
  <2>1. Panic(c) /\ Quiet BY <1>3, <1>4, <1>5 DEF Quiet
  <2> QED BY <1>1, <2>1, PanicStep
<1>6. CASE ptr[c] = None /\ Except(c, "program") /\ UNCHANGED <<room, workers, rings>>
  <2>1. Except(c, "program") /\ UNCHANGED <<room, workers, rings>> BY <1>6
  <2>2. Justified(c) BY <1>1, <1>2, <1>6 DEF Justified, Budget
  <2> QED BY <1>4, <2>1, <2>2, ExceptStep DEF tables, taskGlobals
<1>7. CASE ptr[c] # None /\ Made
  <2> DEFINE all == 0 .. machine.numcores - 1
  <2>1. /\ Say(c, "claim") /\ workers' = [w \in all |-> 0]
        /\ rings' = [w \in {v \in all : v < room - 2} |-> {}]
        /\ room' = IF room - 2 > machine.numcores THEN room - 2 - machine.numcores ELSE 0
    BY <1>7
  <2>2. "claim" \in Steps BY DEF Steps, Joining
  <2>3. Moves(c, "claim") /\ UNCHANGED <<ptr, halted, struck>> BY <2>1, <2>2, MovesOn
  <2>4. place' = [place EXCEPT ![c] = "claim"] BY <2>3 DEF Moves
  <2>5. room' \in Nat
    <3>1. room' = IF room - 2 > machine.numcores THEN room - 2 - machine.numcores ELSE 0 BY <2>1
    <3> QED BY <1>3, <3>1
  <2>6. DOMAIN workers' = all /\ DOMAIN rings' \subseteq all /\ \A w \in all : workers'[w] = 0 BY <2>1
  <2>7. 0 \in all
    <3>1. Cardinality(machine.started) <= machine.numcores /\ IsFiniteSet(machine.started)
      BY MachinesAssumption DEF Types
    <3>2. Cardinality(machine.started) # 0 /\ Cardinality(machine.started) \in Nat
      BY <1>3, <3>1, FS_EmptySet, FS_CardinalityType
    <3> QED BY <1>3, <3>1, <3>2
  <2>8. Types'
    <3>1. place' \in [Cores -> Steps] BY <1>3, <2>2, <2>4
    <3>2. DOMAIN workers' \in {{}, 0 .. machine'.numcores - 1} /\ DOMAIN rings' \subseteq DOMAIN workers'
      BY <1>4, <2>6
    <3> QED BY <1>4, <2>3, <2>5, <3>1, <3>2 DEF Types, Moves
  <2> HIDE DEF all
  <2>9. DOMAIN workers = {} BY <1>1, <1>2 DEF Cast, Before
  <2>10. \A d \in Cores \ {c} : place[d] = "parked" /\ place'[d] = "parked"
    BY <1>2, <1>3, <2>4, <2>9 DEF Cast
  <2>11. place'[c] = "claim" BY <1>3, <2>4
  <2>12. struck = {} BY <1>1, <1>2, NoneStruck DEF Before
  <2>13. Cast'
    BY <1>2, <1>3, <1>4, <2>3, <2>6, <2>7, <2>10, <2>11, <2>12 DEF Cast, Before, Joining, After
  <2>14. Descriptors'
    <3>1. (GdtMade' <=> GdtMade) /\ (TssMade' <=> TssMade) BY <1>4 DEF GdtMade, TssMade
    <3>2. place[machine.bsp] = "workers" /\ place'[machine.bsp] = "claim" BY <1>1, <1>2, <2>11
    <3> QED BY <1>4, <3>1, <3>2 DEF Descriptors, Before, Joining, After, Handling
  <2>15. Budget' BY <1>1, <1>4, <2>2, <2>3, BudgetKept DEF Before
  <2>16. Claims'
    <3>1. \A d \in Cores : mine[d] = None
      <4>1. \A d \in Cores : place[d] \in Unclaimed BY <1>1, <2>10 DEF Unclaimed, Before
      <4> QED BY <4>1 DEF Claims
    <3>2. \A d \in Cores : place'[d] \in Unclaimed /\ place'[d] \notin Claiming
                           /\ place'[d] \notin Stored /\ place'[d] \notin Indexed
      BY <2>10, <2>11 DEF Unclaimed, Claiming, Stored, Indexed, Before, After
    <3>3. \A w \in DOMAIN workers' : workers'[w] = 0 BY <2>6
    <3> QED BY <1>4, <3>1, <3>2, <3>3 DEF Claims
  <2>17. CrashJustified' /\ FaultsHandled' BY <1>1, <2>3, <2>12 DEF CrashJustified, FaultsHandled
  <2> QED BY <2>8, <2>13, <2>14, <2>15, <2>16, <2>17
<1>8. \/ Panic(c) /\ UNCHANGED <<room, workers, rings>>
      \/ ptr[c] = None /\ Except(c, "program") /\ UNCHANGED <<room, workers, rings>>
      \/ ptr[c] # None /\ Made
  BY DEF NewWorkers
<1> QED BY <1>5, <1>6, <1>7, <1>8

\* load_idt
LEMMA IdtStep ==
  ASSUME BootInv, NEW c \in Cores, LoadIdt(c)
  PROVE  BootInv'
<1> USE DEF BootInv
<1>1. halted = "no" /\ place[c] = "idt" /\ pc[c] = "idle" BY Here DEF LoadIdt, Returned, Running
<1>2. room \in Nat /\ scanned \in [Cores -> Nat] /\ place \in [Cores -> Steps] /\ machine.bsp \in Cores
  BY MachinesAssumption DEF Types
<1>3. CASE ptr[c] = None
  <2>1. Panic(c) /\ Quiet BY <1>2, <1>3 DEF LoadIdt, Quiet, taskGlobals
  <2> QED BY <1>1, <2>1, PanicStep
<1>4. CASE ptr[c] # None
  <2> DEFINE there == IF c = machine.bsp THEN "ltr" ELSE "followed"
  <2>1. /\ Goto(c, there) /\ idtr' = [idtr EXCEPT ![c] = IdtEntry__set_handler("Idt__double_fault", cs[c])]
        /\ UNCHANGED <<vars, machine, room, gdt, tss, segment, gdtr, cs, tr>> /\ taskGlobals' = taskGlobals
    BY <1>4 DEF LoadIdt
  <2>2. there \in Steps /\ there \notin Before BY DEF Steps, After, Before
  <2>3. (c = machine.bsp /\ there = "ltr") \/ (c # machine.bsp /\ there = "followed") OBVIOUS
  <2> HIDE DEF there
  <2>4. Moves(c, there) /\ UNCHANGED <<ptr, halted, struck>> BY <2>1, <2>2, MovesOn
  <2>5. place' = [place EXCEPT ![c] = there] BY <2>4 DEF Moves
  <2>6. Types'
    <3>1. place' \in [Cores -> Steps] BY <1>2, <2>2, <2>5
    <3> QED BY <2>1, <2>4, <3>1 DEF Types, Moves, taskGlobals
  <2>7. Cast'
    <3>1. Along(c, there) BY <1>1, <2>3 DEF Along, Joining, After
    <3> QED BY <1>1, <2>1, <2>2, <2>4, <3>1, CastKept DEF taskGlobals
  <2>8. Descriptors'
    <3>1. CASE c # machine.bsp
      BY <1>2, <2>1, <2>2, <2>4, <3>1, DescriptorsKept DEF taskGlobals
    <3>2. CASE c = machine.bsp
      <4>1. place[machine.bsp] = "idt" /\ place'[machine.bsp] = "ltr" BY <1>1, <1>2, <2>3, <2>5, <3>2
      <4>2. cs[c] = 8 BY <3>2, <4>1 DEF Descriptors, Joining
      <4>3. idtr'[machine.bsp] = Gate BY <2>1, <3>2, <4>2 DEF Gate, Types
      <4>4. (GdtMade' <=> GdtMade) /\ (TssMade' <=> TssMade) BY <2>1 DEF GdtMade, TssMade
      <4> QED BY <2>1, <4>1, <4>3, <4>4 DEF Descriptors, Before, Joining, After, Handling
    <3> QED BY <3>1, <3>2
  <2>9. Budget' BY <1>1, <2>1, <2>2, <2>4, BudgetKept
  <2>10. Claims'
    <3>1. \A d \in Cores : /\ place'[d] \in Unclaimed => place[d] \in Unclaimed
                           /\ place'[d] \in Claiming => place[d] \in Claiming
                           /\ place'[d] \in Stored => place[d] \in Stored
                           /\ place'[d] \in Indexed => place[d] \in Indexed
      BY <1>1, <1>2, <2>3, <2>5 DEF Unclaimed, Claiming, Stored, Indexed, Before, After
    <3> QED BY <2>1, <3>1, ClaimsKept DEF taskGlobals
  <2>11. CrashJustified' /\ FaultsHandled'
    BY <1>1, <2>1, <2>4 DEF CrashJustified, FaultsHandled, vars, taskGlobals
  <2> QED BY <2>6, <2>7, <2>8, <2>9, <2>10, <2>11
<1> QED BY <1>3, <1>4

\* ltr: with one core let on, its worker is the first, for which the GDT has a TSS.
LEMMA LtrStep ==
  ASSUME BootInv, NEW c \in Cores, Ltr(c)
  PROVE  BootInv'
<1> USE DEF BootInv
<1> DEFINE selector == tss_segment(self[c])
<1>1. halted = "no" /\ at[c] = "ltr" /\ place[c] = "ltr" BY Here DEF Ltr, Running
<1>2. c = machine.bsp BY <1>1, BootCore DEF After
<1>3. /\ UNCHANGED <<vars, machine, room, gdt, tss, segment, gdtr, cs, idtr>>
      /\ UNCHANGED <<workers, rings, init_count, mine, self, scanned, tasks>>
  BY DEF Ltr
<1>4. GdtMade /\ TssMade /\ gdtr[c] = 31 /\ idtr[c] = Gate BY <1>1, <1>2 DEF Descriptors, After
<1>5. self[c] \in Nat BY <1>1, IndexKnown DEF Indexed, After
<1>6. None # 31 /\ None # selector BY <1>5, NoneAssumption DEF tss_segment
<1>7. Selects(c, selector) <=> self[c] = 0
  <2>1. selector = 16 * self[c] + 16 /\ selector \in Nat BY <1>5 DEF tss_segment
  <2>2. self[c] = 0 => selector = 16 /\ selector + 7 <= 31 /\ selector \div 8 = 2 BY <2>1
  <2>3. self[c] # 0 => ~(selector + 7 <= 31) BY <1>5, <2>1
  <2> HIDE DEF selector
  <2>4. 2 \in DOMAIN gdt.table BY <1>4 DEF GdtMade
  <2> QED BY <1>4, <1>6, <2>2, <2>3, <2>4 DEF Selects
<1>8. CASE self[c] # 0
  <2>1. Except(c, "program") /\ UNCHANGED <<tr, init_finish_count>> BY <1>7, <1>8 DEF Ltr
  <2>2. machine.started # {machine.bsp}
    <3> SUFFICES ASSUME machine.started = {machine.bsp} PROVE FALSE OBVIOUS
    <3>1. init_count <= 1 /\ init_count \in Nat BY <1>2, ClaimCount DEF Types
    <3>2. mine[c] # None /\ (self[c] = mine[c] \/ (c = 0 /\ machine.started # {0}))
      <4>1. self[c] # None BY <1>5, NoneAssumption
      <4> QED BY <4>1 DEF Claims
    <3>3. self[c] = mine[c] BY <1>2, <3>2
    <3>4. mine[c] < init_count BY <3>2, ClaimedNumber
    <3> QED BY <1>5, <1>8, <3>1, <3>3, <3>4
  <2>3. Justified(c) BY <1>1, <1>2, <1>8, <2>2 DEF Justified
  <2> QED BY <1>3, <2>1, <2>3, ExceptStep DEF tables, taskGlobals
<1>9. CASE self[c] = 0
  <2>1. tr' = [tr EXCEPT ![c] = selector] /\ Goto(c, "main") BY <1>7, <1>9 DEF Ltr
  <2>2. selector = 16 BY <1>9 DEF tss_segment
  <2>3. "main" \in Steps /\ "main" \notin Before BY DEF Steps, After, Before
  <2>4. Moves(c, "main") /\ UNCHANGED <<ptr, halted, struck>> BY <2>1, <2>3, MovesOn
  <2>5. place' = [place EXCEPT ![c] = "main"] /\ place \in [Cores -> Steps] BY <2>4 DEF Moves, Types
  <2>6. tr' \in [Cores -> Nat \cup {None}] /\ tr'[c] = 16 /\ \A d \in Cores \ {c} : tr'[d] = tr[d]
    BY <2>1, <2>2 DEF Types
  <2>7. Types'
    <3>1. place' \in [Cores -> Steps] BY <2>3, <2>5
    <3> QED BY <1>3, <2>4, <2>6, <3>1 DEF Types, Moves
  <2>8. Cast'
    <3>1. Along(c, "main") BY <1>1, <1>2 DEF Along, After
    <3> QED BY <1>1, <1>3, <2>3, <2>4, <3>1, CastKept
  <2>9. Descriptors'
    <3>1. GdtMade' /\ TssMade' BY <1>3, <1>4 DEF GdtMade, TssMade
    <3>2. place'[machine.bsp] = "main" BY <1>2, <2>5
    <3>3. cs[machine.bsp] = 8 BY <1>1, <1>2 DEF Descriptors, After
    <3> QED BY <1>2, <1>3, <1>4, <2>6, <3>1, <3>2, <3>3 DEF Descriptors, Before, Joining, After, Handling
  <2>10. pc[c] = "idle" BY <1>1 DEF Budget, Allocating
  <2>11. Budget' BY <1>3, <2>3, <2>4, <2>10, BudgetKept
  <2>12. Claims'
    <3>1. \A d \in Cores : /\ place'[d] \in Unclaimed => place[d] \in Unclaimed
                           /\ place'[d] \in Claiming => place[d] \in Claiming
                           /\ place'[d] \in Stored => place[d] \in Stored
                           /\ place'[d] \in Indexed => place[d] \in Indexed
      BY <1>1, <2>5 DEF Unclaimed, Claiming, Stored, Indexed, Before, After
    <3> QED BY <1>3, <3>1, ClaimsKept
  <2>13. CrashJustified' /\ FaultsHandled'
    BY <1>1, <1>3, <2>4 DEF CrashJustified, FaultsHandled, vars
  <2> QED BY <2>7, <2>8, <2>9, <2>11, <2>12, <2>13
<1> QED BY <1>8, <1>9

\* add_task_inner and task_main, where a ring without pages is used unchecked
LEMMA TaskSteps ==
  ASSUME BootInv, NEW c \in Cores, AddTask(c) \/ Scan(c)
  PROVE  BootInv'
<1> USE DEF BootInv
<1>0. /\ room \in Nat /\ scanned \in [Cores -> Nat] /\ DOMAIN rings \subseteq DOMAIN workers
      /\ machine.numcores \in Nat
  BY MachinesAssumption DEF Types
<1>1. CASE AddTask(c)
  <2> DEFINE refusing == {w \in DOMAIN rings : Cardinality(rings[w]) >= RingSize}
             first == Min((DOMAIN workers) \ refusing)
  <2>1. halted = "no" /\ at[c] = "main" /\ place[c] = "main" BY <1>1, Here DEF AddTask, Running
  <2>2. c = machine.bsp BY <2>1, BootCore DEF After
  <2>3. /\ UNCHANGED <<vars, machine, room, tables, workers, init_count, init_finish_count>>
        /\ UNCHANGED <<mine, self, scanned>>
    BY <1>1 DEF AddTask
  <2>4. CASE Goto(c, "main") /\ DOMAIN rings' = DOMAIN rings
    <3>1. Quiet BY <1>0, <2>3, <2>4 DEF Quiet, tables
    <3>2. "main" \in Steps /\ Path(c, "main") BY <2>1 DEF Steps, After, Path
    <3> QED BY <2>4, <3>1, <3>2, MovesOn, QuietStep
  <2>5. CASE /\ refusing # DOMAIN workers /\ first \notin DOMAIN rings /\ Except(c, "program")
             /\ UNCHANGED <<tasks, rings>>
    <3>1. DOMAIN workers \in SUBSET Nat
      <4>1. DOMAIN workers = {} \/ DOMAIN workers = 0 .. machine.numcores - 1 BY DEF Types
      <4> QED BY <1>0, <4>1
    <3>2. refusing \subseteq DOMAIN workers BY <1>0
    <3>3. (DOMAIN workers) \ refusing # {} BY <2>5, <3>2
    <3>4. first \in DOMAIN workers BY <3>1, <3>3, MinIsLeast
    <3>5. DOMAIN rings # DOMAIN workers BY <2>5, <3>4
    <3>6. Justified(c) BY <2>1, <2>2, <3>5 DEF Justified
    <3> QED BY <2>3, <2>5, <3>6, ExceptStep DEF taskGlobals
  <2>6. CASE refusing # DOMAIN workers /\ first \in DOMAIN rings /\ Goto(c, "main")
             /\ rings' = [rings EXCEPT ![first] = @ \cup {tasks + 1}]
    BY <2>4, <2>6
  <2> QED BY <1>1, <2>4, <2>5, <2>6 DEF AddTask
<1>2. CASE Scan(c)
  <2> DEFINE w == (scanned[c] + self[c]) % machine.numcores
  <2>1. halted = "no" /\ at[c] = "scan" /\ place[c] = "scan" BY <1>2, Here DEF Scan, Running
  <2>2. c = machine.bsp BY <2>1, BootCore DEF After
  <2>3. /\ UNCHANGED <<vars, machine, room, tables, workers, init_count, init_finish_count>>
        /\ UNCHANGED <<mine, self, tasks>>
    BY <1>2 DEF Scan
  <2>4. {"scan", "end"} \subseteq Steps BY DEF Steps, After
  <2>5. CASE Goto(c, "scan") /\ scanned' = [scanned EXCEPT ![c] = @ + 1] /\ rings' = rings
    <3>1. scanned' \in [Cores -> Nat] BY <1>0, <2>5
    <3>2. Quiet BY <1>0, <2>3, <2>5, <3>1 DEF Quiet, tables
    <3>3. Path(c, "scan") BY <2>1 DEF Path
    <3> QED BY <2>4, <2>5, <3>2, <3>3, MovesOn, QuietStep
  <2>6. CASE Say(c, "end") /\ scanned' = scanned /\ DOMAIN rings' = DOMAIN rings
    <3>1. Quiet BY <1>0, <2>3, <2>6 DEF Quiet, tables
    <3>2. Path(c, "end") BY <2>1 DEF Path
    <3> QED BY <2>4, <2>6, <3>1, <3>2, MovesOn, QuietStep
  <2>7. CASE w \notin DOMAIN rings /\ Except(c, "program") /\ UNCHANGED <<rings, scanned>>
    <3>1. DOMAIN workers = 0 .. machine.numcores - 1 /\ DOMAIN workers # {}
      BY <2>1 DEF Cast, Types, After
    <3>2. machine.numcores \in Nat \ {0} BY <1>0, <3>1
    <3>3. self[c] \in Nat BY <2>1, IndexKnown DEF Indexed, After
    <3>4. scanned[c] + self[c] \in Nat BY <1>0, <3>3
    <3>5. w \in 0 .. machine.numcores - 1 BY <3>2, <3>4, Division
    <3>6. DOMAIN rings # DOMAIN workers BY <2>7, <3>1, <3>5
    <3>7. Justified(c) BY <2>1, <2>2, <3>6 DEF Justified
    <3> QED BY <2>3, <2>7, <3>7, ExceptStep DEF taskGlobals
  <2>8. CASE /\ w \in DOMAIN rings /\ Say(c, "end") /\ scanned' = scanned
             /\ \E t \in rings[w] : rings' = [rings EXCEPT ![w] = @ \ {t}]
    BY <2>6, <2>8
  <2> QED BY <1>2, <2>5, <2>7, <2>8 DEF Scan
<1> QED BY <1>1, <1>2

-----------------------------------------------------------------------------
(* The theorems *)

\* The kernel starts with the invariant.
LEMMA BootInitial == BootInit => BootInv
<1> SUFFICES ASSUME BootInit PROVE BootInv OBVIOUS
<1>1. machine.bsp \in Cores /\ machine.bsp \in machine.started /\ machine.numcores \in Nat
  BY MachinesAssumption DEF BootInit
<1>2. place = [c \in Cores |-> IF c = machine.bsp THEN "start" ELSE "parked"] BY DEF BootInit, place
<1>3. DOMAIN workers = {} /\ DOMAIN rings = {} BY DEF BootInit
<1>4. Types
  <2>1. {"start", "parked"} \subseteq Steps BY DEF Steps, Before
  <2>2. place \in [Cores -> Steps] BY <1>2, <2>1
  <2>3. at \in [Cores -> Steps \cup {"lock", "logging"}] BY <2>1 DEF BootInit
  <2> QED BY <1>3, <2>2, <2>3, RoomsAssumption DEF BootInit, Types
<1>5. Cast BY <1>1, <1>2, <1>3 DEF BootInit, Cast, Joining, After
<1>6. Descriptors BY <1>1, <1>2 DEF BootInit, Descriptors, Joining, After, Handling
<1>7. Budget BY <1>1, <1>2 DEF BootInit, Init, Budget
<1>8. Claims
  <2>1. {c \in Cores : mine[c] # None} = {} BY DEF BootInit
  <2>2. \A c \in Cores : place[c] \notin Claiming /\ place[c] \notin Stored /\ place[c] \notin Indexed
    BY <1>2 DEF Claiming, Stored, Indexed, After
  <2>3. Cardinality({}) = 0 BY FS_EmptySet
  <2> QED BY <1>3, <2>1, <2>2, <2>3 DEF BootInit, Claims
<1>9. CrashJustified /\ FaultsHandled BY DEF BootInit, CrashJustified, FaultsHandled
<1> QED BY <1>4, <1>5, <1>6, <1>7, <1>8, <1>9 DEF BootInv

\* Every step of the boot keeps it.
LEMMA BootNextInv == BootInv /\ IndInv /\ [BootNext]_bootVars => BootInv'
<1> SUFFICES ASSUME BootInv, IndInv, [BootNext]_bootVars PROVE BootInv' OBVIOUS
<1>1. ASSUME NEW c \in Cores, CoreStep(c) PROVE BootInv'
  <2>1. CASE CheckApic(c) \/ MemoryInit(c) \/ ScanEnds(c) \/ End(c) \/ Handler(c) BY <2>1, PlainSteps
  <2>2. CASE Alloc(c, "new gdt", sizeof_Gdt, 8, "gdt") BY <2>2, AllocCall
  <2>3. CASE Alloc(c, "new tss", sizeof_Tss, 1, "tss") BY <2>3, AllocCall
  <2>4. CASE Alloc(c, "new workers", sizeof_WorkerState * machine.numcores, 8, "workers") BY <2>4, AllocCall
  <2>5. CASE Alloc(c, "new idt", sizeof_Idt, 4, "idt") BY <2>5, AllocCall
  <2>6. CASE NewGdt(c) \/ NewTss(c) \/ AddCode(c) \/ AddTss(c) \/ LoadGdt(c) BY <2>6, TableSteps
  <2>7. CASE NewWorkers(c) BY <2>7, WorkersStep
  <2>8. CASE Claim(c) BY <2>8, ClaimStep
  <2>9. CASE Store(c) BY <2>9, StoreStep
  <2>10. CASE Lookup(c, "lookup", "new idt") \/ Lookup(c, "main", "scan") BY <2>10, LookupStep
  <2>11. CASE LoadIdt(c) BY <2>11, IdtStep
  <2>12. CASE Ltr(c) BY <2>12, LtrStep
  <2>13. CASE Scan(c) BY <2>13, TaskSteps
  <2>14. CASE AllocStep(c) BY <2>14, AllocInside
  <2>15. CASE Lock(c) \/ Unlock(c) BY <2>15, LogSteps
  <2>16. CASE Exit(c) BY <2>16, ExitStep
  <2> QED BY <1>1, <2>1, <2>2, <2>3, <2>4, <2>5, <2>6, <2>7, <2>8, <2>9, <2>10, <2>11, <2>12, <2>13,
             <2>14, <2>15, <2>16 DEF CoreStep
<1>2. ASSUME NEW c \in Cores, Start(c) \/ AddTask(c) \/ Fault(c) PROVE BootInv'
  BY <1>2, StartStep, TaskSteps, FaultStep
<1>3. CASE Over \/ UNCHANGED bootVars
  <2>1. /\ UNCHANGED <<index, pc, size, align, machine, room, at, cont, ptr, halted, struck>>
        /\ UNCHANGED <<gdt, tss, segment, gdtr, cs, tr, idtr>>
        /\ UNCHANGED <<workers, rings, init_count, mine, self, scanned>>
    BY <1>3 DEF Over, bootVars, vars, args, run, tables, taskGlobals
  <2>2. place' = place /\ GdtMade' = GdtMade /\ TssMade' = TssMade
    BY <2>1 DEF place, GdtMade, TssMade
  <2>3. Types' /\ Cast' BY <2>1, <2>2 DEF BootInv, Types, Cast
  <2>4. Descriptors' BY <2>1, <2>2 DEF BootInv, Descriptors
  <2>5. Budget' BY <2>1, <2>2 DEF BootInv, Budget
  <2>6. Claims' BY <2>1, <2>2, ClaimsKept DEF BootInv
  <2>7. CrashJustified' /\ FaultsHandled' BY <2>1 DEF BootInv, CrashJustified, FaultsHandled
  <2> QED BY <2>3, <2>4, <2>5, <2>6, <2>7 DEF BootInv
<1> QED BY <1>1, <1>2, <1>3 DEF BootNext

\* The inductive invariant of the boot holds on any machine, with any number of
\* cores let on and however many exceptions strike.
THEOREM BootInductive == BootSpec => []BootInv
<1>1. BootSpec => []IndInv BY BootUsesBump, Inductive, PTL
<1> QED BY <1>1, BootInitial, BootNextInv, PTL DEF BootSpec

\* Once the task register is loaded an exception on the boot core reaches
\* Idt__double_fault, unless there were no pages for its stack: GDT, TSS and gate
\* lead to each other whatever their addresses are.
THEOREM ExceptionsReachHandler == BootSpec => []FaultsHandled
<1>1. BootInv => FaultsHandled BY DEF BootInv
<1> QED BY <1>1, BootInductive, PTL

\* The program causes exceptions of its own only where it uses what an allocation
\* returned unchecked, or runs ltr with the wrong worker.
THEOREM CrashesJustified == BootSpec => []CrashJustified
<1>1. BootInv => CrashJustified BY DEF BootInv
<1> QED BY <1>1, BootInductive, PTL

\* get_worker_index finds the worker that this core, and no other, has claimed,
\* except for core 0 when it is not alone.
THEOREM WorkersOwn == BootSpec => []OwnWorker
<1>1. BootInv => OwnWorker
  <2> SUFFICES ASSUME BootInv, NEW c \in Cores, self[c] # None, ~(c = 0 /\ machine.started # {0})
               PROVE  {d \in Cores : mine[d] = self[c]} = {c}
    BY DEF OwnWorker
  <2>1. mine[c] # None /\ self[c] = mine[c] BY DEF BootInv, Claims
  <2>2. \A d, e \in Cores : mine[d] # None /\ mine[e] # None /\ mine[d] = mine[e] => d = e
    BY DEF BootInv, Claims
  <2> QED BY <2>1, <2>2
<1> QED BY <1>1, BootInductive, PTL
=============================================================================
