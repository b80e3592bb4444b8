------------------------------- MODULE MCBoot -------------------------------
(***************************************************************************)
(* Small machines for Boot, with the real sizes of InitAlloc and of what   *)
(* is cut from it: 54 workers leave room for the IDT, 55 do not, and 112   *)
(* do not fit themselves.                                                  *)
(***************************************************************************)
EXTENDS Boot

Alone(bsp, n, apic) == [bsp |-> bsp, numcores |-> n, apic |-> apic, started |-> {bsp}]

\* Machines with one core running, as main.c has it, and machines whose other
\* cores are let on to task_begin.
SomeMachines ==
  {Alone(b, n, TRUE) : b \in {0, 1}, n \in {2, 54, 55, 112}}
    \cup {Alone(0, 1, a) : a \in BOOLEAN}
    \cup {[bsp |-> b, numcores |-> 3, apic |-> TRUE, started |-> {b, c}] : b \in {0, 1}, c \in {0, 1, 2}}

AllocSizes ==
  {sizeof_Gdt, sizeof_Tss, sizeof_Idt} \cup {sizeof_WorkerState * m.numcores : m \in SomeMachines}
=============================================================================
