------------------------------- MODULE Powers -------------------------------
(***************************************************************************)
(* The powers of two, which the code writes as shifts.                     *)
(***************************************************************************)
EXTENDS Integers

\* 1 << k
Pow2[k \in Nat] == IF k = 0 THEN 1 ELSE 2 * Pow2[k - 1]
=============================================================================
