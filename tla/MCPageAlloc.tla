---------------------------- MODULE MCPageAlloc ----------------------------
(***************************************************************************)
(* Small instances of PageAlloc for TLC: three size classes, eight pages.  *)
(***************************************************************************)
EXTENDS PageAlloc

\* All memory in one entry; entries that neither begin nor end on a block
\* boundary, in both orders, with an empty one and with unusable pages between.
Maps == {<< <<0, 5>> >>,
         << <<1, 4>>, <<4, 4>>, <<5, 7>> >>,
         << <<4, 7>>, <<2, 4>> >>}
=============================================================================
