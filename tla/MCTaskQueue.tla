---------------------------- MODULE MCTaskQueue ----------------------------
(***************************************************************************)
(* A small instance of TaskQueue for TLC: two cores on a ring of two       *)
(* slots.                                                                  *)
(***************************************************************************)
EXTENDS TaskQueue
=============================================================================
