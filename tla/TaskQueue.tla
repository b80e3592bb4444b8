------------------------------ MODULE TaskQueue ------------------------------
(***************************************************************************)
(* The lock-free ring of tasks that every worker owns                      *)
(* (kern/multitasking.c, enqueue_task and dequeue_task).                   *)
(*                                                                         *)
(* Any number of cores may call the two functions on one ring at the same  *)
(* time.  Every access to an _Atomic object is one step here (lib/sync.h   *)
(* makes all of them sequentially consistent), and so is each store to a   *)
(* plain field of a slot: between two steps of one core any other core may *)
(* run.  Two details of the C code shape the model:                        *)
(*                                                                         *)
(*   - a successful compare-exchange leaves the caller's copy of the       *)
(*     counter as it was, so after moving a counter a core looks at the    *)
(*     SAME slot again and learns the new value from the next, failing,    *)
(*     compare-exchange;                                                   *)
(*   - neither function moves its counter when it gets a slot.             *)
(*                                                                         *)
(* A weak compare-exchange that fails spuriously reloads a value equal to  *)
(* the one it expected: it changes nothing and is a stuttering step.       *)
(***************************************************************************)
EXTENDS Integers, FiniteSets

CONSTANTS
  Cores,      \* the cores (or other threads of control) that use the ring
  TaskCount,  \* worker->task_count, the number of slots
  TaskData,   \* the values a caller may pass as TaskData
  NoData,     \* the all-zero TaskData of a slot never written
  MaxEnqueues \* bound: how many calls of enqueue_task are made altogether

ASSUME TaskCountAssumption == TaskCount \in Nat \ {0}
ASSUME MaxEnqueuesAssumption == MaxEnqueues \in Nat
ASSUME DataAssumption == NoData \notin TaskData

VARIABLES
  sync_info,    \* [slot -> state of the slot]
  slot_id,      \* [slot -> Task.id]
  slot_data,    \* [slot -> Task.data]
  read_from,    \* worker->read_from
  write_to,     \* worker->write_to
  next_id,      \* TaskGlobals.next_id
  pc,           \* [core -> where it is in which of the two functions]
  my_write,     \* [core -> local write_to]
  my_read,      \* [core -> local read_from]
  upper_bound,  \* [core -> local upper_bound of enqueue_task]
  my_task,      \* [core -> <<id, data>>: the argument, or the task copied out]
  enqueues,     \* history: number of calls of enqueue_task begun
  submitted,    \* history: tasks for which enqueue_task has published a slot
  taken,        \* history: tasks dequeue_task has returned
  callers       \* history: cores that have called one of the functions

ring == <<sync_info, slot_id, slot_data>>
counters == <<read_from, write_to, next_id>>
locals == <<my_write, my_read, upper_bound, my_task>>
history == <<enqueues, submitted, taken, callers>>
vars == <<ring, counters, pc, locals, history>>

Slots == 0 .. TaskCount - 1

SyncInfo == {"Empty", "Writing", "Queued", "Reading"}

\* The slot a counter value denotes.
SlotOf(index) == index % TaskCount

EnqueuePC == {"enq_load", "enq_claim", "enq_id", "enq_data", "enq_publish", "enq_advance"}
DequeuePC == {"deq_load", "deq_claim", "deq_copy", "deq_clear", "deq_advance"}

\* Cores that own the slot their counter copy denotes.
Writing(c) == pc[c] \in {"enq_id", "enq_data", "enq_publish"}
Reading(c) == pc[c] \in {"deq_copy", "deq_clear"}

Goto(c, from, to) ==
  /\ pc[c] = from
  /\ pc' = [pc EXCEPT ![c] = to]

\* The function returns and its locals are gone (0 stands for that).
Return(c, from) ==
  /\ Goto(c, from, "idle")
  /\ my_write' = [my_write EXCEPT ![c] = 0]
  /\ my_read' = [my_read EXCEPT ![c] = 0]
  /\ upper_bound' = [upper_bound EXCEPT ![c] = 0]
  /\ my_task' = [my_task EXCEPT ![c] = <<0, NoData>>]

\* a_cxstrong(&target->sync_info, &old, new) on slot s, when it succeeds.
Claim(s, old, new) ==
  /\ sync_info[s] = old
  /\ sync_info' = [sync_info EXCEPT ![s] = new]

-----------------------------------------------------------------------------
(* enqueue_task *)

\* Mutant: one slot too many is allowed for.
EnqueueLapTooFar(c, d) ==
  /\ enqueues < MaxEnqueues
  /\ Goto(c, "idle", "enq_load")
  /\ upper_bound' = [upper_bound EXCEPT ![c] = read_from + TaskCount + 1]
  /\ my_task' = [my_task EXCEPT ![c] = <<0, d>>]
  /\ enqueues' = enqueues + 1
  /\ callers' = callers \cup {c}
  /\ UNCHANGED <<ring, counters, my_write, my_read, submitted, taken>>

\* Mutant: one slot too few is looked at.
EnqueueLapTooShort(c, d) ==
  /\ enqueues < MaxEnqueues
  /\ Goto(c, "idle", "enq_load")
  /\ upper_bound' = [upper_bound EXCEPT ![c] = read_from + TaskCount - 1]
  /\ my_task' = [my_task EXCEPT ![c] = <<0, d>>]
  /\ enqueues' = enqueues + 1
  /\ callers' = callers \cup {c}
  /\ UNCHANGED <<ring, counters, my_write, my_read, submitted, taken>>

\* The call, and the load of read_from that fixes upper_bound.
Enqueue(c, d) ==
  /\ enqueues < MaxEnqueues
  /\ Goto(c, "idle", "enq_load")
  /\ upper_bound' = [upper_bound EXCEPT ![c] = read_from + TaskCount]
  /\ my_task' = [my_task EXCEPT ![c] = <<0, d>>]
  /\ enqueues' = enqueues + 1
  /\ callers' = callers \cup {c}
  /\ UNCHANGED <<ring, counters, my_write, my_read, submitted, taken>>

EnqueueLoad(c) ==
  /\ Goto(c, "enq_load", "enq_claim")
  /\ my_write' = [my_write EXCEPT ![c] = write_to]
  /\ UNCHANGED <<ring, counters, my_read, upper_bound, my_task, history>>

\* Mutant: the slot is taken without looking at its state.
EnqueueClaimUnchecked(c) ==
  /\ Goto(c, "enq_claim", "enq_id")
  /\ sync_info' = [sync_info EXCEPT ![SlotOf(my_write[c])] = "Writing"]
  /\ UNCHANGED <<slot_id, slot_data, counters, locals, history>>

EnqueueClaim(c) ==
  /\ Goto(c, "enq_claim", "enq_id")
  /\ Claim(SlotOf(my_write[c]), "Empty", "Writing")
  /\ UNCHANGED <<slot_id, slot_data, counters, locals, history>>

\* Mutant: waits for the slot instead of going on to the next one.
EnqueueClaimWaits(c) ==
  /\ Goto(c, "enq_claim", "enq_claim")
  /\ sync_info[SlotOf(my_write[c])] # "Empty"
  /\ UNCHANGED <<ring, counters, locals, history>>

EnqueueClaimFails(c) ==
  /\ Goto(c, "enq_claim", "enq_advance")
  /\ sync_info[SlotOf(my_write[c])] # "Empty"
  /\ UNCHANGED <<ring, counters, locals, history>>

\* Mutant: the id is read from next_id without incrementing it.
EnqueueIdLoad(c) ==
  /\ Goto(c, "enq_id", "enq_data")
  /\ slot_id' = [slot_id EXCEPT ![SlotOf(my_write[c])] = next_id]
  /\ my_task' = [my_task EXCEPT ![c] = <<next_id, @[2]>>]
  /\ UNCHANGED <<sync_info, slot_data, counters, my_write, my_read, upper_bound, history>>

\* target->id = a_add(&TaskGlobals.next_id, 1)
EnqueueId(c) ==
  /\ Goto(c, "enq_id", "enq_data")
  /\ next_id' = next_id + 1
  /\ slot_id' = [slot_id EXCEPT ![SlotOf(my_write[c])] = next_id]
  /\ my_task' = [my_task EXCEPT ![c] = <<next_id, @[2]>>]
  /\ UNCHANGED <<sync_info, slot_data, read_from, write_to, my_write, my_read,
                 upper_bound, history>>

EnqueueData(c) ==
  /\ Goto(c, "enq_data", "enq_publish")
  /\ slot_data' = [slot_data EXCEPT ![SlotOf(my_write[c])] = my_task[c][2]]
  /\ UNCHANGED <<sync_info, slot_id, counters, locals, history>>

EnqueuePublish(c) ==
  /\ Return(c, "enq_publish")
  /\ sync_info' = [sync_info EXCEPT ![SlotOf(my_write[c])] = "Queued"]
  /\ submitted' = submitted \cup {my_task[c]}
  /\ UNCHANGED <<slot_id, slot_data, counters, enqueues, taken, callers>>

\* The inner while loop: the weak compare-exchange on write_to succeeds and the
\* outer loop runs again, with the caller's copy of write_to not advanced ...
EnqueueAdvance(c) ==
  /\ my_write[c] < upper_bound[c]
  /\ write_to = my_write[c]
  /\ Goto(c, "enq_advance", "enq_claim")
  /\ write_to' = my_write[c] + 1
  /\ UNCHANGED <<ring, read_from, next_id, locals, history>>

\* ... or it fails, and the copy becomes the current value ...
EnqueueReload(c) ==
  /\ pc[c] = "enq_advance"
  /\ my_write[c] < upper_bound[c]
  /\ write_to # my_write[c]
  /\ my_write' = [my_write EXCEPT ![c] = write_to]
  /\ UNCHANGED <<ring, counters, pc, my_read, upper_bound, my_task, history>>

\* ... or the loop ends: return false.
EnqueueFull(c) ==
  /\ my_write[c] >= upper_bound[c]
  /\ Return(c, "enq_advance")
  /\ UNCHANGED <<ring, counters, history>>

-----------------------------------------------------------------------------
(* dequeue_task *)

\* The call, and the load of write_to.
Dequeue(c) ==
  /\ Goto(c, "idle", "deq_load")
  /\ my_write' = [my_write EXCEPT ![c] = write_to]
  /\ callers' = callers \cup {c}
  /\ UNCHANGED <<ring, counters, my_read, upper_bound, my_task, enqueues, submitted, taken>>

DequeueLoad(c) ==
  /\ Goto(c, "deq_load", "deq_claim")
  /\ my_read' = [my_read EXCEPT ![c] = read_from]
  /\ UNCHANGED <<ring, counters, my_write, upper_bound, my_task, history>>

\* Mutant: the slot's state is checked but not changed.
DequeueClaimUnmarked(c) ==
  /\ Goto(c, "deq_claim", "deq_copy")
  /\ sync_info[SlotOf(my_read[c])] = "Queued"
  /\ UNCHANGED <<ring, counters, locals, history>>

DequeueClaim(c) ==
  /\ Goto(c, "deq_claim", "deq_copy")
  /\ Claim(SlotOf(my_read[c]), "Queued", "Reading")
  /\ UNCHANGED <<slot_id, slot_data, counters, locals, history>>

DequeueClaimFails(c) ==
  /\ Goto(c, "deq_claim", "deq_advance")
  /\ sync_info[SlotOf(my_read[c])] # "Queued"
  /\ UNCHANGED <<ring, counters, locals, history>>

\* task = *target
DequeueCopy(c) ==
  /\ Goto(c, "deq_copy", "deq_clear")
  /\ my_task' = [my_task EXCEPT ![c] =
                   <<slot_id[SlotOf(my_read[c])], slot_data[SlotOf(my_read[c])]>>]
  /\ UNCHANGED <<ring, counters, my_write, my_read, upper_bound, history>>

\* Mutant: the slot stays in state Reading.
DequeueClearForgotten(c) ==
  /\ Return(c, "deq_clear")
  /\ taken' = taken \cup {my_task[c]}
  /\ UNCHANGED <<ring, counters, enqueues, submitted, callers>>

DequeueClear(c) ==
  /\ Return(c, "deq_clear")
  /\ sync_info' = [sync_info EXCEPT ![SlotOf(my_read[c])] = "Empty"]
  /\ taken' = taken \cup {my_task[c]}
  /\ UNCHANGED <<slot_id, slot_data, counters, enqueues, submitted, callers>>

DequeueAdvance(c) ==
  /\ my_read[c] < my_write[c]
  /\ read_from = my_read[c]
  /\ Goto(c, "deq_advance", "deq_claim")
  /\ read_from' = my_read[c] + 1
  /\ UNCHANGED <<ring, write_to, next_id, locals, history>>

DequeueReload(c) ==
  /\ pc[c] = "deq_advance"
  /\ my_read[c] < my_write[c]
  /\ read_from # my_read[c]
  /\ my_read' = [my_read EXCEPT ![c] = read_from]
  /\ UNCHANGED <<ring, counters, pc, my_write, upper_bound, my_task, history>>

DequeueEmpty(c) ==
  /\ my_read[c] >= my_write[c]
  /\ Return(c, "deq_advance")
  /\ UNCHANGED <<ring, counters, history>>

-----------------------------------------------------------------------------

\* tasks__init: the slots are zeroed pages, the worker comes from a zeroed Bump.
Init ==
  /\ sync_info = [s \in Slots |-> "Empty"]
  /\ slot_id = [s \in Slots |-> 0]
  /\ slot_data = [s \in Slots |-> NoData]
  /\ read_from = 0 /\ write_to = 0 /\ next_id = 0
  /\ pc = [c \in Cores |-> "idle"]
  /\ my_write = [c \in Cores |-> 0]
  /\ my_read = [c \in Cores |-> 0]
  /\ upper_bound = [c \in Cores |-> 0]
  /\ my_task = [c \in Cores |-> <<0, NoData>>]
  /\ enqueues = 0 /\ submitted = {} /\ taken = {} /\ callers = {}

\* A core that is inside one of the functions takes its next step.
Step(c) ==
  \/ EnqueueLoad(c) \/ EnqueueClaim(c) \/ EnqueueClaimFails(c)
  \/ EnqueueId(c) \/ EnqueueData(c) \/ EnqueuePublish(c)
  \/ EnqueueAdvance(c) \/ EnqueueReload(c) \/ EnqueueFull(c)
  \/ DequeueLoad(c) \/ DequeueClaim(c) \/ DequeueClaimFails(c)
  \/ DequeueCopy(c) \/ DequeueClear(c)
  \/ DequeueAdvance(c) \/ DequeueReload(c) \/ DequeueEmpty(c)

Next == \E c \in Cores : (\E d \in TaskData : Enqueue(c, d)) \/ Dequeue(c) \/ Step(c)

Spec == Init /\ [][Next]_vars

\* A core inside a function keeps executing: the kernel neither preempts a core
\* nor blocks it.  Nothing obliges a core to make a call.
FairSpec == Spec /\ \A c \in Cores : WF_vars(Step(c))

-----------------------------------------------------------------------------
(* Properties *)

Contents(s) == <<slot_id[s], slot_data[s]>>

\* Slots whose task has been published and not yet cleared.
Occupied == {s \in Slots : sync_info[s] \in {"Queued", "Reading"}}

\* The tasks in them.
Pending == {Contents(s) : s \in Occupied}

\* Every variable has a value of the C type that holds it; the counters are
\* never negative, so "% task_count" always yields a valid index.
TypeOK ==
  /\ sync_info \in [Slots -> SyncInfo]
  /\ slot_id \in [Slots -> Nat]
  /\ slot_data \in [Slots -> TaskData \cup {NoData}]
  /\ read_from \in Nat /\ write_to \in Nat /\ next_id \in Nat
  /\ pc \in [Cores -> {"idle"} \cup EnqueuePC \cup DequeuePC]
  /\ my_write \in [Cores -> Nat]
  /\ my_read \in [Cores -> Nat]
  /\ upper_bound \in [Cores -> Nat]
  /\ my_task \in [Cores -> Nat \X (TaskData \cup {NoData})]
  /\ enqueues \in Nat
  /\ submitted \subseteq Nat \X TaskData
  /\ taken \subseteq Nat \X TaskData
  /\ callers \subseteq Cores

\* "we have mutual exclusion here" (both functions): a slot is in state Writing
\* or Reading exactly while one core is between its compare-exchange and its
\* store to sync_info, and no two cores are there with the same slot.
SlotExclusion ==
  /\ \A c \in Cores : Writing(c) => sync_info[SlotOf(my_write[c])] = "Writing"
  /\ \A c \in Cores : Reading(c) => sync_info[SlotOf(my_read[c])] = "Reading"
  /\ \A c, d \in Cores : c # d /\ Writing(c) /\ Writing(d)
                           => SlotOf(my_write[c]) # SlotOf(my_write[d])
  /\ \A c, d \in Cores : c # d /\ Reading(c) /\ Reading(d)
                           => SlotOf(my_read[c]) # SlotOf(my_read[d])
  /\ \A s \in Slots : sync_info[s] = "Writing"
                        => \E c \in Cores : Writing(c) /\ SlotOf(my_write[c]) = s
  /\ \A s \in Slots : sync_info[s] = "Reading"
                        => \E c \in Cores : Reading(c) /\ SlotOf(my_read[c]) = s

\* The tasks accepted by enqueue_task and not yet returned by dequeue_task are
\* exactly the contents of the occupied slots, each in one slot only: the ring
\* neither loses, duplicates, mixes nor invents a task, however calls overlap.
NothingLost ==
  /\ taken \subseteq submitted
  /\ submitted \ taken = Pending
  /\ \A s, t \in Occupied : s # t => Contents(s) # Contents(t)

\* A task that dequeue_task is about to return was accepted, has not been
\* returned before, and is about to be returned by no other core.
DeliveredOnce ==
  /\ \A c \in Cores : pc[c] = "deq_clear" => my_task[c] \in submitted \ taken
  /\ \A c, d \in Cores : c # d /\ pc[c] = "deq_clear" /\ pc[d] = "deq_clear"
                           => my_task[c] # my_task[d]

\* The two "always-increasing" counters stay within one lap of each other,
\* although each core moves them on the strength of values it read earlier.
OneLap == read_from <= write_to /\ write_to <= read_from + TaskCount

\* "always-increasing index to read from / to write to": neither counter ever
\* moves back, nor on by more than one slot at a time.
CountersClimb == [][/\ read_from' \in {read_from, read_from + 1}
                    /\ write_to' \in {write_to, write_to + 1}]_counters

\* Both functions return, however many other cores keep moving the counters.
CallsReturn == \A c \in Cores : pc[c] # "idle" ~> pc[c] = "idle"

\* enqueue_task reports a full ring only when no slot is Empty, and dequeue_task an
\* empty one only when no slot is Queued, as long as one core has the ring to itself
\* (main.c parks the others).  It takes an even number of slots, as the kernel's 204
\* are: with an odd one the last slot of a lap may not be looked at.
AnswersExact ==
  [][\A c \in Cores : callers = {c} =>
        /\ pc[c] = "enq_advance" /\ pc'[c] = "idle" => \A s \in Slots : sync_info[s] # "Empty"
        /\ pc[c] = "deq_advance" /\ pc'[c] = "idle" => \A s \in Slots : sync_info[s] # "Queued"]_vars

\* What a core may rely on about the counters it read earlier: the ring has
\* moved at least that far.
CounterInv ==
  /\ OneLap
  /\ \A c \in Cores : pc[c] \in EnqueuePC => upper_bound[c] <= read_from + TaskCount
  /\ \A c \in Cores : pc[c] \in DequeuePC => my_write[c] <= write_to

Identified(c) == pc[c] \in {"enq_data", "enq_publish"}

\* What a core knows of the task it is handling while it owns a slot.
TaskInv ==
  /\ \A t \in submitted : t[1] < next_id
  /\ \A c \in Cores : pc[c] \in EnqueuePC => my_task[c][2] \in TaskData
  /\ \A c \in Cores : Identified(c)
       => /\ my_task[c][1] < next_id
          /\ slot_id[SlotOf(my_write[c])] = my_task[c][1]
          /\ \A t \in submitted : t[1] # my_task[c][1]
  /\ \A c, d \in Cores : c # d /\ Identified(c) /\ Identified(d)
                           => my_task[c][1] # my_task[d][1]
  /\ \A c \in Cores : pc[c] = "enq_publish"
                        => slot_data[SlotOf(my_write[c])] = my_task[c][2]
  /\ \A c \in Cores : pc[c] = "deq_clear" => my_task[c] = Contents(SlotOf(my_read[c]))

\* The inductive invariant: besides what it implies about the ring, a core that
\* is writing has an id nobody else has and its own slot's contents, a core that
\* has copied a task out still finds that task in its slot, and the bounds a
\* core computed earlier are still on the safe side of the counters.
IndInv == TypeOK /\ CounterInv /\ SlotExclusion /\ TaskInv /\ NothingLost

\* The ring implements a bag of at most TaskCount tasks: the published slots are
\* its contents, a store of Queued adds one new task and a store of Empty takes
\* out the task that the same call returns.
Bag == INSTANCE TaskBag
         WITH Capacity <- TaskCount,
              pending <- Pending,
              done <- taken

RefinesBag == Bag!Spec
=============================================================================
