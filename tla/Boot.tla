-------------------------------- MODULE Boot --------------------------------
(***************************************************************************)
(* From _start to exit: init (kern/main.c), the descriptor tables          *)
(* (kern/descriptor_tables.c), the interrupt table and the handler of      *)
(* double faults (kern/interrupts.c), the workers (kern/multitasking.c).   *)
(* Tables and workers are cut from InitAlloc, the bump allocator of        *)
(* BumpAlloc, whose steps are taken one by one.                            *)
(*                                                                         *)
(* An exception may strike a core between any two steps.  What the         *)
(* processor makes of it follows from the tables as they are then: only    *)
(* double faults have a gate, so every exception becomes one, and one that *)
(* cannot be delivered resets the machine.  main.c parks all cores but the *)
(* boot core.  Some machines here let more of them on, to task_begin, as   *)
(* the code behind the parking loop would; such a core never loads the     *)
(* kernel's GDT and is followed only as far as its own IDT.                *)
(*                                                                         *)
(* An address is a function from byte numbers to bytes, a byte being named *)
(* by the object it points to and by its number.  memory__init is the      *)
(* subject of MemoryMap and KernelTables, the inside of a ring of          *)
(* TaskQueue: with one core running a ring is an exact bag.  Lines logged  *)
(* in a row are one call of the logger unless a handler logs them.         *)
(***************************************************************************)
EXTENDS BumpAlloc, FiniteSets, FiniteSetsExt

CONSTANTS
  Machines,   \* [bsp, numcores, apic, started]: bspid, numcores, CPUID, who reaches task_begin
  Rooms,      \* how many calls zeroed_pages(2) succeed after memory__init
  RingSize,   \* task_count
  None,       \* NULL, or a register or local that is not set
  MaxTasks,   \* bound: how many tasks are added
  MaxFaults   \* bound: how many exceptions strike

ASSUME CoreIds == Cores \subseteq Nat
ASSUME RoomsAssumption == Rooms \subseteq Nat
ASSUME MachinesAssumption ==
  /\ Machines \subseteq [bsp : Cores, numcores : Nat, apic : BOOLEAN, started : SUBSET Cores]
  /\ \A m \in Machines : /\ m.bsp \in m.started /\ IsFiniteSet(m.started)
                         /\ Cardinality(m.started) <= m.numcores

sizeof_Gdt == 72
sizeof_Tss == 104
sizeof_Idt == 4096
sizeof_WorkerState == 72

ASSUME SizesUsed ==
  /\ {sizeof_Gdt, sizeof_Tss, sizeof_Idt} \subseteq Sizes
  /\ \A m \in Machines : sizeof_WorkerState * m.numcores \in Sizes
ASSUME AlignsUsed == {1, 4, 8} \subseteq Aligns

VARIABLES
  machine, room,
  at,          \* [core -> the step it is about to take]
  cont,        \* [core -> where it goes on after the line it logs]
  ptr,         \* [core -> what Bump__bump_impl returned]
  owner,       \* the core that holds LoggingMutex, or None
  halted,      \* "no", "off" after ext__shutdown, "reset" by the processor
  gdt,         \* [index, table]
  tss,         \* [addr, ist]: its address and interrupt_stack_table
  segment,     \* local of descriptor__init
  gdtr, cs, tr, idtr,   \* [core -> register]
  workers,     \* [worker -> core_id]
  rings,       \* [worker -> the tasks in its ring], of the workers that have one
  init_count, init_finish_count,
  mine,        \* [core -> local index of task_begin]
  self,        \* [core -> self_index]
  scanned,     \* [core -> it of task_main]
  tasks,       \* history: number of tasks added
  struck       \* history: the exceptions

tables == <<gdt, tss, segment, gdtr, cs, tr, idtr>>
taskGlobals == <<workers, rings, init_count, init_finish_count, mine, self, scanned, tasks>>
run == <<at, cont, ptr, owner, halted, struck>>
bootVars == <<vars, machine, room, run, tables, taskGlobals>>

-----------------------------------------------------------------------------
(* Descriptors *)

Address(object) == [b \in 0 .. 7 |-> <<object, b>>]

GDT__KERNEL_CODE == "code"

\* Mutant: (addr & BYTES_24_32) << 24
TssLowShifted(addr) ==
  [b \in 0 .. 7 |-> IF b \in 2 .. 4 THEN addr[b - 2] ELSE IF b = 6 THEN addr[3] ELSE <<<<"fields">>, b>>]

\* (addr & BYTES_0_24) << 16, (addr & BYTES_24_32) << 32, the limit, type and
\* present bit
TssLow(addr) ==
  [b \in 0 .. 7 |-> IF b \in 2 .. 4 THEN addr[b - 2] ELSE IF b = 7 THEN addr[3] ELSE <<<<"fields">>, b>>]

\* (addr & BYTES_32_64) >> 32
TssHigh(addr) == [b \in 0 .. 7 |-> IF b <= 3 THEN addr[b + 4] ELSE <<<<"zero">>, b>>]

\* The processor puts the base of a segment together again (external).
SegmentBase(low, high) ==
  [b \in 0 .. 7 |-> IF b <= 2 THEN low[b + 2] ELSE IF b = 3 THEN low[7] ELSE high[b - 4]]

tss_segment(core_idx) == (core_idx * 2 + 2) * 8

Gdt__init == [index |-> 1, table |-> [i \in {0} |-> "null"]]

\* The entries are appended; the assertions ask for room for them.
Gdt__append(g, entries) ==
  [index |-> g.index + Cardinality(DOMAIN entries),
   table |-> [i \in 0 .. g.index + Cardinality(DOMAIN entries) - 1 |->
                IF i < g.index THEN g.table[i] ELSE entries[i - g.index + 1]]]

\* IdtEntry__missing with IdtEntry__set_handler: the address in three parts, the
\* present code segment, IST index 1.
IdtEntry__set_handler(handler, selector) ==
  LET addr == Address(handler) IN
  [pointer_low |-> <<addr[0], addr[1]>>, pointer_middle |-> <<addr[2], addr[3]>>,
   pointer_high |-> <<addr[4], addr[5], addr[6], addr[7]>>,
   gdt_selector |-> selector, present |-> TRUE, ist |-> 1]

\* NULL is neither a number nor a gate.
ASSUME NoneAssumption ==
  None \notin Nat /\ \A s \in 0 .. 63 : None # IdtEntry__set_handler("Idt__double_fault", s)

IdtEntry__handler_addr(entry) ==
  [b \in 0 .. 7 |-> IF b <= 1 THEN entry.pointer_low[b + 1]
                    ELSE IF b <= 3 THEN entry.pointer_middle[b - 1]
                    ELSE entry.pointer_high[b - 3]]

\* Does a selector name an entry of the table in gdtr?
Selects(c, selector) ==
  gdtr[c] # None /\ selector # None /\ selector + 7 <= gdtr[c] /\ selector \div 8 \in DOMAIN gdt.table

\* Can the processor deliver a double fault on core c (external)?  The gate leads
\* to the handler in a code segment, and the task register to a stack.
Deliverable(c) ==
  /\ idtr[c] # None
  /\ idtr[c].present /\ IdtEntry__handler_addr(idtr[c]) = Address("Idt__double_fault")
  /\ Selects(c, idtr[c].gdt_selector)
  /\ gdt.table[idtr[c].gdt_selector \div 8] = GDT__KERNEL_CODE
  /\ Selects(c, tr[c]) /\ Selects(c, tr[c] + 8)
  /\ SegmentBase(gdt.table[tr[c] \div 8], gdt.table[(tr[c] \div 8) + 1]) = tss.addr
  /\ idtr[c].ist \in DOMAIN tss.ist /\ tss.ist[idtr[c].ist] = "stack"

-----------------------------------------------------------------------------
(* Steps *)

Running(c, here) == halted = "no" /\ at[c] = here

Goto(c, there) == at' = [at EXCEPT ![c] = there] /\ UNCHANGED <<cont, ptr, owner, halted, struck>>

\* log or log_fmt is called
Say(c, next) ==
  /\ at' = [at EXCEPT ![c] = "lock"] /\ cont' = [cont EXCEPT ![c] = next]
  /\ UNCHANGED <<ptr, owner, halted, struck>>

\* panic and the failing assert: a line is logged, then exit
Panic(c) == Say(c, "exit")

\* An exception on core c: it becomes a double fault, and that is delivered or not.
Except(c, cause) ==
  /\ struck' = struck \cup {[cause |-> cause, step |-> at[c], locked |-> owner = c, ready |-> tr[c] # None]}
  /\ IF Deliverable(c) THEN at' = [at EXCEPT ![c] = "handler"] /\ UNCHANGED halted
                       ELSE halted' = "reset" /\ UNCHANGED at
  /\ UNCHANGED <<cont, ptr, owner>>

\* Mutex__try_lock succeeds; with the mutex taken the core spins.
Lock(c) ==
  /\ Running(c, "lock") /\ owner = None
  /\ owner' = c /\ at' = [at EXCEPT ![c] = "logging"]
  /\ UNCHANGED <<cont, ptr, halted, struck, vars, machine, room, tables, taskGlobals>>

Unlock(c) ==
  /\ Running(c, "logging")
  /\ owner' = None /\ at' = [at EXCEPT ![c] = cont[c]]
  /\ UNCHANGED <<cont, ptr, halted, struck, vars, machine, room, tables, taskGlobals>>

\* exit: ext__shutdown stops the machine with all its cores
Exit(c) ==
  /\ Running(c, "exit")
  /\ halted' = "off"
  /\ UNCHANGED <<at, cont, ptr, owner, struck, vars, machine, room, tables, taskGlobals>>

\* Something outside the program's control goes wrong on a core that runs it.
Fault(c) ==
  /\ halted = "no" /\ Cardinality(struck) < MaxFaults /\ at[c] \notin {"parked", "followed"}
  /\ Except(c, "outside")
  /\ UNCHANGED <<vars, machine, room, tables, taskGlobals>>

\* Idt__double_fault logs three lines and panics.
Handler(c) ==
  LET Then == [handler |-> "frame", frame |-> "stack", stack |-> "panic", panic |-> "exit"] IN
  /\ halted = "no" /\ at[c] \in DOMAIN Then
  /\ Say(c, Then[at[c]])
  /\ UNCHANGED <<vars, machine, room, tables, taskGlobals>>

\* Bump__bump on InitAlloc: the call, and its steps to the result.
Alloc(c, here, s, a, there) ==
  /\ Running(c, here) /\ Bump(c, s, a)
  /\ Goto(c, there)
  /\ UNCHANGED <<machine, room, tables, taskGlobals>>

AllocStep(c) ==
  /\ halted = "no" /\ at[c] \in {"gdt", "tss", "workers", "idt"}
  /\ \/ (Load(c) \/ Retry(c)) /\ UNCHANGED ptr
     \/ Exchange(c) /\ ptr' = [ptr EXCEPT ![c] = aligned_index(c)]
     \/ TooLarge(c) /\ ptr' = [ptr EXCEPT ![c] = None]
  /\ UNCHANGED <<at, cont, owner, halted, struck, machine, room, tables, taskGlobals>>

Returned(c, here) == Running(c, here) /\ pc[c] = "idle"

\* init up to the assertion on the APIC
CheckApic(c) ==
  /\ Running(c, "start")
  /\ IF machine.apic THEN Say(c, "memory") ELSE Panic(c)
  /\ UNCHANGED <<vars, machine, room, tables, taskGlobals>>

\* The end of memory__init: InitAlloc = Bump__new(2), which asserts its pages.
MemoryInit(c) ==
  /\ Running(c, "memory")
  /\ IF room > 0 THEN room' = room - 1 /\ Say(c, "new gdt") ELSE Panic(c) /\ UNCHANGED room
  /\ UNCHANGED <<vars, machine, tables, taskGlobals>>

\* descriptor__init: the GDT ...
NewGdt(c) ==
  /\ Returned(c, "gdt")
  /\ IF ptr[c] = None THEN Panic(c) /\ UNCHANGED gdt ELSE Goto(c, "new tss") /\ gdt' = Gdt__init
  /\ UNCHANGED <<vars, machine, room, tss, segment, gdtr, cs, tr, idtr, taskGlobals>>

\* ... the TSS with its stack, whose pages nobody checks ...
NewTss(c) ==
  /\ Returned(c, "tss")
  /\ IF ptr[c] = None THEN Panic(c) /\ UNCHANGED <<tss, room>>
     ELSE /\ Goto(c, "code")
          /\ tss' = [addr |-> Address(<<"tss", ptr[c]>>),
                     ist |-> <<IF room > 0 THEN "stack" ELSE "no stack">>]
          /\ room' = IF room > 0 THEN room - 1 ELSE 0
  /\ UNCHANGED <<vars, machine, gdt, segment, gdtr, cs, tr, idtr, taskGlobals>>

\* ... their entries ...
AddCode(c) ==
  /\ Running(c, "code")
  /\ IF gdt.index >= 8 THEN Panic(c) /\ UNCHANGED <<gdt, segment>>
     ELSE /\ Goto(c, "add tss")
          /\ gdt' = Gdt__append(gdt, <<GDT__KERNEL_CODE>>) /\ segment' = gdt.index * 8
  /\ UNCHANGED <<vars, machine, room, tss, gdtr, cs, tr, idtr, taskGlobals>>

AddTss(c) ==
  /\ Running(c, "add tss")
  /\ IF gdt.index + 1 >= 8 THEN Panic(c) /\ UNCHANGED gdt
     ELSE /\ gdt' = Gdt__append(gdt, <<TssLow(tss.addr), TssHigh(tss.addr)>>)
          /\ IF gdt.index * 8 = tss_segment(0) THEN Goto(c, "load gdt") ELSE Panic(c)
  /\ UNCHANGED <<vars, machine, room, tss, segment, gdtr, cs, tr, idtr, taskGlobals>>

\* Mutant: the limit leaves out the two entries of the TSS.
LoadGdtShort(c) ==
  /\ Running(c, "load gdt")
  /\ gdtr' = [gdtr EXCEPT ![c] = (gdt.index - 2) * 8 - 1]
  /\ cs' = [cs EXCEPT ![c] = segment]
  /\ Say(c, "new workers")
  /\ UNCHANGED <<vars, machine, room, gdt, tss, segment, tr, idtr, taskGlobals>>

\* ... and load_gdt: the table and the code segment are in force.
LoadGdt(c) ==
  /\ Running(c, "load gdt")
  /\ gdtr' = [gdtr EXCEPT ![c] = gdt.index * 8 - 1]
  /\ cs' = [cs EXCEPT ![c] = segment]
  /\ Say(c, "new workers")
  /\ UNCHANGED <<vars, machine, room, gdt, tss, segment, tr, idtr, taskGlobals>>

\* tasks__init after the array has been asked for: Bump__new(4), which asserts its
\* pages and may miss four in a row where there are more by twos; then the loop
\* over the workers, of which neither the array nor the rings are checked.
NewWorkers(c) ==
  /\ Returned(c, "workers")
  /\ \/ Panic(c) /\ UNCHANGED <<room, workers, rings>>
     \/ /\ room >= 2 /\ ptr[c] = None
        /\ Except(c, "program") /\ UNCHANGED <<room, workers, rings>>
     \/ /\ room >= 2 /\ ptr[c] # None
        /\ Say(c, "claim")
        /\ workers' = [w \in 0 .. machine.numcores - 1 |-> 0]
        /\ rings' = [w \in {v \in 0 .. machine.numcores - 1 : v < room - 2} |-> {}]
        /\ room' = IF room - 2 > machine.numcores THEN room - 2 - machine.numcores ELSE 0
  /\ UNCHANGED <<vars, machine, tables, init_count, init_finish_count, mine, self, scanned, tasks>>

\* Another core passes the parking loop once there are workers.
Start(c) ==
  /\ Running(c, "parked") /\ c \in machine.started /\ DOMAIN workers # {}
  /\ Goto(c, "claim")
  /\ UNCHANGED <<vars, machine, room, tables, taskGlobals>>

\* Mutant: init_count is read and not moved on.
ClaimLoaded(c) ==
  /\ Running(c, "claim")
  /\ mine' = [mine EXCEPT ![c] = init_count]
  /\ Goto(c, "store")
  /\ UNCHANGED <<vars, machine, room, tables, workers, rings, init_count, init_finish_count, self, scanned, tasks>>

\* task_begin: a_add(&init_count, 1) ...
Claim(c) ==
  /\ Running(c, "claim")
  /\ mine' = [mine EXCEPT ![c] = init_count] /\ init_count' = init_count + 1
  /\ Goto(c, "store")
  /\ UNCHANGED <<vars, machine, room, tables, workers, rings, init_finish_count, self, scanned, tasks>>

\* ... state->core_id = core_id() ...
Store(c) ==
  /\ Running(c, "store")
  /\ workers' = [workers EXCEPT ![mine[c]] = c]
  /\ Goto(c, "lookup")
  /\ UNCHANGED <<vars, machine, room, tables, rings, init_count, init_finish_count, mine, self, scanned, tasks>>

\* get_worker_index, called by task_begin and by task_main: the first worker with
\* this core's id.  A core_id changes once, from 0, so the loop finds what a
\* single look at the end of it would.
Lookup(c, here, there) ==
  LET found == {w \in DOMAIN workers : workers[w] = c} IN
  /\ Running(c, here)
  /\ IF found = {} THEN Panic(c) /\ UNCHANGED self
     ELSE self' = [self EXCEPT ![c] = Min(found)] /\ Goto(c, there)
  /\ UNCHANGED <<vars, machine, room, tables, workers, rings, init_count, init_finish_count, mine, scanned, tasks>>

\* load_idt: every gate but one stays missing
LoadIdt(c) ==
  /\ Returned(c, "idt")
  /\ IF ptr[c] = None THEN Panic(c) /\ UNCHANGED idtr
     ELSE /\ Goto(c, IF c = machine.bsp THEN "ltr" ELSE "followed")
          /\ idtr' = [idtr EXCEPT ![c] = IdtEntry__set_handler("Idt__double_fault", cs[c])]
  /\ UNCHANGED <<vars, machine, room, gdt, tss, segment, gdtr, cs, tr, taskGlobals>>

\* ltr tss_segment(self_index), and the core counts as initialised
Ltr(c) ==
  LET selector == tss_segment(self[c]) IN
  /\ Running(c, "ltr")
  /\ IF Selects(c, selector)
     THEN /\ tr' = [tr EXCEPT ![c] = selector] /\ init_finish_count' = init_finish_count + 1
          /\ Goto(c, "main")
     ELSE Except(c, "program") /\ UNCHANGED <<tr, init_finish_count>>
  /\ UNCHANGED <<vars, machine, room, gdt, tss, segment, gdtr, cs, idtr,
                 workers, rings, init_count, mine, self, scanned, tasks>>

\* add_task_inner, before task_main: the first ring with room takes the task.
AddTask(c) ==
  LET refusing == {w \in DOMAIN rings : Cardinality(rings[w]) >= RingSize}
      first == Min((DOMAIN workers) \ refusing)
  IN
  /\ Running(c, "main") /\ tasks < MaxTasks
  /\ \/ /\ refusing = DOMAIN workers /\ Goto(c, "main")
        /\ tasks' = tasks + 1 /\ UNCHANGED rings
     \/ /\ refusing # DOMAIN workers /\ first \in DOMAIN rings /\ Goto(c, "main")
        /\ tasks' = tasks + 1 /\ rings' = [rings EXCEPT ![first] = @ \cup {tasks + 1}]
     \/ /\ refusing # DOMAIN workers /\ first \notin DOMAIN rings /\ Except(c, "program")
        /\ UNCHANGED <<tasks, rings>>
  /\ UNCHANGED <<vars, machine, room, tables, workers, init_count, init_finish_count, mine, self, scanned>>

\* task_main: one round of the loop over the rings, the own one first
Scan(c) ==
  LET w == (scanned[c] + self[c]) % machine.numcores IN
  /\ Running(c, "scan") /\ scanned[c] < machine.numcores
  /\ \/ w \notin DOMAIN rings /\ Except(c, "program") /\ UNCHANGED <<rings, scanned>>
     \/ /\ w \in DOMAIN rings /\ rings[w] = {} /\ Goto(c, "scan")
        /\ scanned' = [scanned EXCEPT ![c] = @ + 1] /\ UNCHANGED rings
     \/ /\ w \in DOMAIN rings /\ Say(c, "end") /\ UNCHANGED scanned
        /\ \E t \in rings[w] : rings' = [rings EXCEPT ![w] = @ \ {t}]
  /\ UNCHANGED <<vars, machine, room, tables, workers, init_count, init_finish_count, mine, self, tasks>>

\* "Found no tasks"
ScanEnds(c) ==
  /\ Running(c, "scan") /\ scanned[c] = machine.numcores /\ Say(c, "end")
  /\ UNCHANGED <<vars, machine, room, tables, taskGlobals>>

\* "Kernel main end" and exit(0)
End(c) ==
  /\ Running(c, "end") /\ Panic(c)
  /\ UNCHANGED <<vars, machine, room, tables, taskGlobals>>

BootInit ==
  /\ Init /\ machine \in Machines /\ room \in Rooms
  /\ at = [c \in Cores |-> IF c = machine.bsp THEN "start" ELSE "parked"]
  /\ cont = [c \in Cores |-> None] /\ ptr = [c \in Cores |-> None]
  /\ owner = None /\ halted = "no" /\ struck = {}
  /\ gdt = None /\ tss = None /\ segment = None
  /\ gdtr = [c \in Cores |-> None] /\ cs = [c \in Cores |-> None]
  /\ tr = [c \in Cores |-> None] /\ idtr = [c \in Cores |-> None]
  /\ workers = <<>> /\ rings = <<>> /\ init_count = 0 /\ init_finish_count = 0 /\ tasks = 0
  /\ mine = [c \in Cores |-> None] /\ self = [c \in Cores |-> None]
  /\ scanned = [c \in Cores |-> 0]

CoreStep(c) ==
  \/ CheckApic(c) \/ MemoryInit(c) \/ Alloc(c, "new gdt", sizeof_Gdt, 8, "gdt") \/ NewGdt(c)
  \/ Alloc(c, "new tss", sizeof_Tss, 1, "tss") \/ NewTss(c) \/ AddCode(c) \/ AddTss(c) \/ LoadGdt(c)
  \/ Alloc(c, "new workers", sizeof_WorkerState * machine.numcores, 8, "workers") \/ NewWorkers(c)
  \/ Claim(c) \/ Store(c) \/ Lookup(c, "lookup", "new idt")
  \/ Alloc(c, "new idt", sizeof_Idt, 4, "idt") \/ LoadIdt(c) \/ Ltr(c)
  \/ Lookup(c, "main", "scan") \/ Scan(c) \/ ScanEnds(c) \/ End(c)
  \/ AllocStep(c) \/ Lock(c) \/ Unlock(c) \/ Handler(c) \/ Exit(c)

\* The machine has stopped, or a core spins on the mutex it holds itself.
Over ==
  /\ halted # "no" \/ \E c \in Cores : at[c] = "lock" /\ owner = c
  /\ UNCHANGED bootVars

BootNext == (\E c \in Cores : CoreStep(c) \/ Start(c) \/ AddTask(c) \/ Fault(c)) \/ Over

\* A core that is not parked keeps executing.
BootSpec == BootInit /\ [][BootNext]_bootVars /\ \A c \in Cores : WF_bootVars(CoreStep(c))

-----------------------------------------------------------------------------
(* Properties *)

\* Once task_begin has loaded the task register an exception on the boot core
\* reaches Idt__double_fault on a stack of its own, unless zeroed_pages had no
\* pages for that stack: the GDT, the TSS and the gate, made in three files,
\* fit together.
FaultsHandled ==
  halted = "reset" => \E s \in struck : ~s.ready \/ tss.ist[1] # "stack"

\* The program itself causes an exception only where it does not look at what an
\* allocation returned: the array of workers that did not fit into InitAlloc, and
\* a ring without pages.  With more than one core let on, also in ltr: the GDT has
\* a TSS for the first worker only.
CrashJustified ==
  \A s \in struck :
    s.cause = "program" =>
      \/ s.step = "workers" /\ index + sizeof_WorkerState * machine.numcores > Capacity
      \/ s.step \in {"main", "scan"} /\ DOMAIN rings # DOMAIN workers
      \/ s.step = "ltr" /\ machine.started # {machine.bsp} /\ self[machine.bsp] # 0

\* The worker that get_worker_index finds for a core was claimed in task_begin by
\* this core and no other.  The core with id 0 may find another's, which has not
\* stored its id yet, once more than one core is let on.
OwnWorker ==
  \A c \in Cores :
    self[c] # None => {d \in Cores : mine[d] = self[c]} = {c} \/ (c = 0 /\ machine.started # {0})

\* The machine stops in the end, by itself or by a reset, unless an exception
\* strikes a core inside the logger: its handler waits for the mutex that the
\* same core holds.
Ends == <>(halted # "no" \/ \E s \in struck : s.locked)
=============================================================================
