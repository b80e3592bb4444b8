------------------------------ MODULE MCBitSet ------------------------------
(***************************************************************************)
(* A small BitSet for TLC: two whole words of four bits and half of a      *)
(* third.                                                                  *)
(***************************************************************************)
EXTENDS BitSet
=============================================================================
