------------------------------- MODULE TaskBag -------------------------------
(***************************************************************************)
(* What a worker's ring of tasks promises its callers: a bag of at most    *)
(* Capacity tasks.  A task is put in once and given out once.  Nothing is  *)
(* said about the order in which tasks are given out: enqueue_task reuses  *)
(* any Empty slot its counter denotes, so the ring is not a FIFO queue.    *)
(***************************************************************************)
EXTENDS Naturals, FiniteSets

CONSTANT Capacity

VARIABLES
  pending,  \* tasks in the bag
  done      \* tasks given out

Init == pending = {} /\ done = {}

Add(t) ==
  /\ t \notin pending \cup done
  /\ Cardinality(pending) < Capacity
  /\ pending' = pending \cup {t}
  /\ UNCHANGED done

Take(t) ==
  /\ t \in pending
  /\ pending' = pending \ {t}
  /\ done' = done \cup {t}

\* The task of an Add is whatever the step put in: tasks come from no fixed set.
Next == (\E t \in pending' : Add(t)) \/ (\E t \in pending : Take(t))

Spec == Init /\ [][Next]_<<pending, done>>
=============================================================================
