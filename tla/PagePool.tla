------------------------------ MODULE PagePool ------------------------------
(***************************************************************************)
(* What the page allocator promises its clients, who see neither lists nor *)
(* buddies: there is a pool of pages and a set of pages that clients have. *)
(* A request is answered with a run of pages of the pool that begins where *)
(* a block of its size may begin, or refused if the pool has no aligned    *)
(* block that holds it; a request that is not exact is cut down to the     *)
(* largest block there is, and refused only when nothing is left.          *)
(***************************************************************************)
EXTENDS Powers

CONSTANTS
  PageCount,   \* pages are numbered below it
  ClassCount   \* blocks have 2^k pages, k below ClassCount

VARIABLES
  pool,     \* pages that can be handed out
  out,      \* pages that clients have
  request   \* [n, exact]: a request for n pages, 0 if there is none

NoRequest == [n |-> 0, exact |-> FALSE]
Run(b, n) == b .. b + n - 1

\* An aligned block of class k is in the pool.
HasBlock(k) == \E b \in 0 .. PageCount - 1 : b % Pow2[k] = 0 /\ Run(b, Pow2[k]) \subseteq pool

HasRoom(n) == \E k \in 0 .. ClassCount - 1 : n <= Pow2[k] /\ HasBlock(k)

Init == pool = {} /\ out = {} /\ request = NoRequest

\* Memory that was never in the pool joins it.
Grow(b, n) ==
  /\ request = NoRequest /\ Run(b, n) \cap (pool \cup out) = {}
  /\ pool' = pool \cup Run(b, n)
  /\ UNCHANGED <<out, request>>

Ask(n, exact) ==
  /\ request = NoRequest
  /\ request' = [n |-> n, exact |-> exact]
  /\ UNCHANGED <<pool, out>>

\* An inexact request that cannot be met asks for the largest block instead: what
\* alloc_raw does, and less than its comment promises (LongestRun of PageAlloc).
Settle(k) ==
  /\ ~request.exact /\ ~HasRoom(request.n)
  /\ HasBlock(k) /\ \A j \in k + 1 .. ClassCount - 1 : ~HasBlock(j)
  /\ request' = [n |-> Pow2[k], exact |-> FALSE]
  /\ UNCHANGED <<pool, out>>

Give(b) ==
  /\ request # NoRequest /\ Run(b, request.n) \subseteq pool
  /\ \E k \in 0 .. ClassCount - 1 : request.n <= Pow2[k] /\ b % Pow2[k] = 0
  /\ pool' = pool \ Run(b, request.n) /\ out' = out \cup Run(b, request.n)
  /\ request' = NoRequest

Refuse ==
  /\ request # NoRequest
  /\ IF request.exact THEN ~HasRoom(request.n) ELSE pool = {}
  /\ request' = NoRequest
  /\ UNCHANGED <<pool, out>>

TakeBack(b, n) ==
  /\ request = NoRequest /\ Run(b, n) \subseteq out
  /\ pool' = pool \cup Run(b, n) /\ out' = out \ Run(b, n)
  /\ UNCHANGED request

\* A page outside the pool is declared a client's, or no client's.
Declare(p, usable) ==
  /\ request = NoRequest /\ p \notin pool
  /\ out' = IF usable THEN out \cup {p} ELSE out \ {p}
  /\ UNCHANGED <<pool, request>>

Next ==
  \/ Refuse
  \/ \E k \in 0 .. ClassCount - 1 : Settle(k)
  \/ \E b \in 0 .. PageCount - 1 : Give(b) \/ Declare(b, TRUE) \/ Declare(b, FALSE)
  \/ \E n \in 1 .. Pow2[ClassCount], exact \in BOOLEAN : Ask(n, exact)
  \/ \E b \in 0 .. PageCount, n \in 0 .. PageCount : Grow(b, n) \/ TakeBack(b, n)

Spec == Init /\ [][Next]_<<pool, out, request>>
=============================================================================
