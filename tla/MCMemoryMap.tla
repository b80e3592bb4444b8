---------------------------- MODULE MCMemoryMap ----------------------------
(***************************************************************************)
(* Small memory maps: pages of four words, five pages and a half, cut into *)
(* four entries at every even word (BOOTBOOT counts in 16 bytes), of every *)
(* combination of free and used.                                           *)
(***************************************************************************)
EXTENDS MemoryMap

CONSTANT EndAddress

Cuts == {2 * k : k \in 1 .. (EndAddress \div 2) - 1}

AllMaps ==
  {<<[ptr |-> 0, size |-> a[1], isFree |-> f[1]],
     [ptr |-> a[1], size |-> a[2] - a[1], isFree |-> f[2]],
     [ptr |-> a[2], size |-> a[3] - a[2], isFree |-> f[3]],
     [ptr |-> a[3], size |-> EndAddress - a[3], isFree |-> f[4]]>> :
   a \in {c \in [1 .. 3 -> Cuts] : c[1] < c[2] /\ c[2] < c[3]}, f \in [1 .. 4 -> BOOLEAN]}
=============================================================================
