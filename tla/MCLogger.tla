------------------------------ MODULE MCLogger ------------------------------
(***************************************************************************)
(* Small instances of Logger for TLC.                                      *)
(***************************************************************************)
EXTENDS Logger

\* A short line, one that just fits and one that is clipped.
LineLengths == {1, BufSize, BufSize + 1}
=============================================================================
