---------------------------- MODULE AddressSpace ----------------------------
(***************************************************************************)
(* What the page tables promise: each table is a partial function from     *)
(* virtual pages to frames.  Mapping gives frames to pages that have none, *)
(* one page or one aligned block of Block pages at a time, and disturbs    *)
(* nothing else; only destroying the whole table takes a mapping away.     *)
(***************************************************************************)
EXTENDS Integers

CONSTANTS
  Tables,   \* the names a table may have
  VPages,   \* the virtual pages
  Block,    \* pages of a large mapping
  Frames,   \* the frames, numbered
  NULL      \* no frame

VARIABLE space   \* [the tables that exist -> [VPages -> Frames or NULL]]

Init == space \in [{} -> {}]

Create(t) ==
  /\ t \notin DOMAIN space
  /\ space' = [u \in DOMAIN space \cup {t} |->
                 IF u = t THEN [v \in VPages |-> NULL] ELSE space[u]]

\* n pages from v on get the frames from k on.  (The second conjunct follows from
\* the last; it lets TLC discard most choices of v and k early.)
Map(t, v, k, n) ==
  /\ v % n = 0 /\ k % n = 0
  /\ space'[t][v] = k
  /\ \A w \in v .. v + n - 1 : space[t][w] = NULL
  /\ space' = [space EXCEPT ![t] =
                 [w \in VPages |-> IF w \in v .. v + n - 1 THEN k + w - v ELSE @[w]]]

Destroy(t) ==
  space' = [u \in DOMAIN space \ {t} |-> space[u]]

Next ==
  \/ \E t \in Tables : Create(t)
  \/ \E t \in DOMAIN space :
       \/ Destroy(t)
       \/ \E v \in VPages, k \in Frames, n \in {1, Block} : Map(t, v, k, n)

Spec == Init /\ [][Next]_space
=============================================================================
