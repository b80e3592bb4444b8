---------------------------- MODULE KernelTables ----------------------------
(***************************************************************************)
(* How memory__init (kern/memory.c) moves the kernel from the page table   *)
(* that BOOTBOOT left in cr3 to one of its own: it shifts the identity map *)
(* to the higher half in place, builds a new table with a linear map of    *)
(* all memory and copies of the kernel's own pages, loads it into cr3 and  *)
(* destroys the old one.  Every page table operation is the one of         *)
(* PageTables, taken step by step.                                         *)
(***************************************************************************)
EXTENDS PageTables

CONSTANTS
  KernelSpace,  \* MEMORY__KERNEL_SPACE_BEGIN
  EndPage,      \* end_page: the number of pages of the linear map
  Copies,       \* <<[virt, count, flags], ...>>: the calls of copy_mapping
  Layouts,      \* the mappings BOOTBOOT may have made: [pages -> frames]
  Blocks,       \* the first pages of those it made with 2MB entries
  Memories      \* the sets of frames the allocator may have left

VARIABLES
  cr3,     \* the table the core translates with
  new,     \* local of memory__init
  stage,   \* where memory__init is
  layout   \* the mapping BOOTBOOT made

kvars == <<vars, cr3, new, stage, layout>>

\* The tables BOOTBOOT built.  Which frames they are in does not matter: a
\* table has a number made of its level and of the pages it covers.
BootFrame(level, prefix) == level * EntryCount ^ 4 + prefix

Under(f, level, prefix) == {v \in DOMAIN f : v \div EntryCount ^ level = prefix}

BootEntry(f, level, prefix) ==
  LET pages == Under(f, level - 1, prefix)
      first == CHOOSE v \in pages : \A w \in pages : v <= w
  IN [frame |-> IF pages = {} THEN NULL
                ELSE IF level = 1 \/ (level = 2 /\ first \in Blocks) THEN f[first]
                ELSE BootFrame(level - 1, prefix),
      flags |-> IF pages = {} THEN {} ELSE {"W", "X"},
      huge |-> pages # {} /\ level = 2 /\ first \in Blocks]

BootTree(f) ==
  LET names == {n \in (1 .. 4) \X (0 .. EntryCount ^ 3 - 1) :
                  LET pages == Under(f, n[1], n[2])
                  IN pages # {} /\ ~(n[1] = 1 /\ pages \cap Blocks # {})}
      Name(t) == CHOOSE n \in names : BootFrame(n[1], n[2]) = t
  IN [t \in {BootFrame(n[1], n[2]) : n \in names} |->
        [i \in Indices |-> BootEntry(f, Name(t)[1], Name(t)[2] * EntryCount + i)]]

old == BootFrame(4, 0)

KInit ==
  /\ layout \in Layouts
  /\ tables = BootTree(layout) /\ roots = {old}
  /\ free \in Memories /\ usable = free
  /\ pc = "idle" /\ result = TRUE
  /\ walk = None /\ region = None /\ copy = None /\ destroy = None
  /\ cr3 = old /\ new = NULL /\ stage = <<"identity">>

\* UNSAFE_HACKY_higher_half_init
HigherHalf ==
  /\ stage = <<"identity">>
  /\ tables' = [tables EXCEPT ![old][index(KernelSpace, 4)] = tables[old][0],
                              ![old][0] = NoEntry]
  /\ stage' = <<"build">>
  /\ UNCHANGED <<free, usable, roots, locals, cr3, new, layout>>

\* PageTable4 *new = zeroed_pages(1)
Build(t) ==
  /\ stage = <<"build">>
  /\ NewTable(t)
  /\ new' = t /\ stage' = <<"linear">>
  /\ UNCHANGED <<cr3, layout>>

\* assert(new) fails
BuildFails ==
  /\ stage = <<"build">> /\ free = {}
  /\ stage' = <<"panic">>
  /\ UNCHANGED <<vars, cr3, new, layout>>

\* map_region(new, target, target, end_page, PTE_KERNEL)
MapLinear ==
  /\ stage = <<"linear">>
  /\ map_region(new, KernelSpace, 0, EndPage, {"W"})
  /\ stage' = <<"copy", 1>>
  /\ UNCHANGED <<cr3, new, layout>>

\* Mutant: data is mapped before code.
CopyKernelReversed ==
  /\ pc = "idle" /\ stage[1] = "copy" /\ result
  /\ stage[2] <= Len(Copies)
  /\ LET c == Reverse(Copies)[stage[2]] IN copy_mapping(new, cr3, c.virt, c.count, c.flags)
  /\ stage' = <<"copy", stage[2] + 1>>
  /\ UNCHANGED <<cr3, new, layout>>

\* assert(res); copy_mapping(new, old, ...)
CopyKernel ==
  /\ pc = "idle" /\ stage[1] = "copy" /\ result
  /\ stage[2] <= Len(Copies)
  /\ LET c == Copies[stage[2]] IN copy_mapping(new, cr3, c.virt, c.count, c.flags)
  /\ stage' = <<"copy", stage[2] + 1>>
  /\ UNCHANGED <<cr3, new, layout>>

\* set_page_table(new)
Switch ==
  /\ pc = "idle" /\ stage = <<"copy", Len(Copies) + 1>> /\ result
  /\ cr3' = new /\ stage' = <<"switched">>
  /\ UNCHANGED <<vars, new, layout>>

\* Mutant: destroy_table(old), which does not mark the frames usable.
DestroyOldUnmarked ==
  /\ stage = <<"switched">>
  /\ destroy_table(old, FALSE)
  /\ stage' = <<"done">>
  /\ UNCHANGED <<cr3, new, layout>>

\* destroy_bootboot_table(old)
DestroyOld ==
  /\ stage = <<"switched">>
  /\ destroy_table(old, TRUE)
  /\ stage' = <<"done">>
  /\ UNCHANGED <<cr3, new, layout>>

\* assert(res) fails
Panic ==
  /\ pc = "idle" /\ stage[1] = "copy" /\ ~result
  /\ stage' = <<"panic">>
  /\ UNCHANGED <<vars, cr3, new, layout>>

Booted == stage \in {<<"done">>, <<"panic">>} /\ pc = "idle" /\ UNCHANGED kvars

KStep ==
  \/ HigherHalf \/ MapLinear \/ CopyKernel \/ Switch \/ DestroyOld \/ Panic \/ BuildFails
  \/ \E t \in free : Build(t)
  \/ (Mapping \/ Copying \/ Destroying) /\ UNCHANGED <<cr3, new, stage, layout>>

KNext == KStep \/ Booted

KSpec == KInit /\ [][KNext]_kvars /\ WF_kvars(KStep)

-----------------------------------------------------------------------------
(* Properties *)

CopiedPages == {c \in (DOMAIN Copies) \X VPages :
                  c[2] \in Copies[c[1]].virt .. Copies[c[1]].virt + Copies[c[1]].count - 1}

\* What an access to a page may do is what the entries on every level allow.
Allowed(p4, v) ==
  LET e4 == EntryAt(p4, v, 4)
      e3 == EntryAt(e4.frame, v, 3)
      e2 == EntryAt(e3.frame, v, 2)
  IN e4.flags \cap e3.flags \cap e2.flags
       \cap (IF e2.huge THEN e2.flags ELSE EntryAt(e2.frame, v, 1).flags)

\* The kernel never loses its own code, data and stack: the table in cr3 is
\* never one that is being destroyed, it maps the kernel's pages to the frames
\* where BOOTBOOT put them, and its code can be executed (a table that was made
\* for data first would carry PTE_NO_EXECUTE for all the code below it).  From
\* the time the identity map is shifted it also maps all physical memory where
\* kernel_ptr expects it.
KernelStaysMapped ==
  /\ cr3 \in roots
  /\ \A c \in CopiedPages :
       /\ translate(cr3, c[2]) = layout[c[2]]
       /\ "X" \in Copies[c[1]].flags => "X" \in Allowed(cr3, c[2])
  /\ stage # <<"identity">> =>
       \A k \in 0 .. EndPage - 1 : translate(cr3, KernelSpace + k) = k

\* Does a copy have frames that are not consecutive?
Pieces(c) == \E k \in 1 .. c.count - 1 : layout[c.virt + k] # layout[c.virt] + k

\* No assertion of memory__init on zeroed_pages, map_region or copy_mapping fails but
\* for lack of memory, or because a mapping of BOOTBOOT's is made of several pieces:
\* copy_mapping does not move on to the second.
PanicJustified ==
  stage = <<"panic">> => free = {} \/ \E k \in DOMAIN Copies : Pieces(Copies[k])

\* memory__init comes to an end, and unless it has panicked only the new tables are
\* left then and the frames of BOOTBOOT's are the allocator's.
OldGivenBack ==
  <>(/\ pc = "idle"
     /\ \/ stage = <<"panic">>
        \/ /\ stage = <<"done">> /\ roots = {new}
           /\ DOMAIN BootTree(layout) \subseteq free \cap usable)
=============================================================================
