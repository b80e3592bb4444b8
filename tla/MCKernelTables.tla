--------------------------- MODULE MCKernelTables ---------------------------
(***************************************************************************)
(* A small machine for KernelTables: tables of 4 entries, 8 frames of      *)
(* memory and a frame buffer behind it.  Pages 244-247 are the frame       *)
(* buffer, 249 the environment, 250 the BOOTBOOT structure, 251-253 code,  *)
(* 254 data, 255 the stack.                                                *)
(***************************************************************************)
EXTENDS KernelTables, TLC

BootFlags == {{"W"}, {"X"}, {"W", "X"}}

BootCopies == <<[virt |-> 251, count |-> 3, flags |-> {"X"}],
                [virt |-> 254, count |-> 1, flags |-> {"W"}],
                [virt |-> 250, count |-> 1, flags |-> {"W"}],
                [virt |-> 249, count |-> 1, flags |-> {"W"}],
                [virt |-> 255, count |-> 1, flags |-> {"W"}],
                [virt |-> 244, count |-> 4, flags |-> {"W"}]>>

Identity == [v \in 0 .. 7 |-> v]
Image(c1, c2, c3, data, bb, env, stack) ==
  249 :> env @@ 250 :> bb @@ 251 :> c1 @@ 252 :> c2 @@ 253 :> c3 @@ 254 :> data @@ 255 :> stack
Buffer(k) == [v \in 244 .. 247 |-> k + v - 244]

\* The code in one piece, next to its data or not; the structures next to
\* it and to each other or not; the buffer aligned or not.
Compact == {Identity @@ Image(3, 4, 5, p[1], p[2], p[3], 7) @@ Buffer(k) :
              p \in {<<1, 2, 6>>, <<1, 6, 2>>, <<6, 2, 1>>, <<6, 1, 2>>}, k \in {8, 9}}

\* The second half of the code lies elsewhere.
Split == {Identity @@ Image(3, 5, 6, 4, 2, 1, 7) @@ Buffer(8)}

AllLayouts == Compact \cup Split

\* The kernel needs 8 frames for its tables, and one more when the frame buffer is
\* not aligned.  Twelve are plenty; with eight or fewer memory may run out in the
\* copies or in the linear map, and with none there is not even a root.
Memory(n) == 2000 .. 1999 + n
LotsOrFew == {Memory(n) : n \in {12, 8, 6, 3, 0}}

AllTables == UNION {DOMAIN BootTree(f) : f \in AllLayouts} \cup Memory(12)
=============================================================================
