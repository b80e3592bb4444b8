---------------------------- MODULE MCPageTables ----------------------------
(***************************************************************************)
(* Small instances of PageTables for TLC.                                  *)
(***************************************************************************)
EXTENDS PageTables

\* Flags matter only to KernelTables.
OneFlag == {{"W"}}
=============================================================================
