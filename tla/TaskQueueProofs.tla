--------------------------- MODULE TaskQueueProofs ---------------------------
(***************************************************************************)
(* Proofs about TaskQueue, for any set of cores, any number of slots, any  *)
(* data and any number of calls.                                           *)
(***************************************************************************)
EXTENDS TaskQueue, FiniteSetTheorems, TLAPS

\* A counter always denotes a slot.
LEMMA SlotOfType == ASSUME NEW i \in Nat PROVE SlotOf(i) \in Slots
BY TaskCountAssumption DEF SlotOf, Slots

USE DEF Goto, Return, Claim, EnqueuePC, DequeuePC, SyncInfo,
        ring, counters, locals, history

\* A step of one of the two functions, or a call of one of them.
CoreStep(c) == (\E d \in TaskData : Enqueue(c, d)) \/ Dequeue(c) \/ Step(c)

\* Every step of the ring keeps the types.
LEMMA TypeStep ==
  ASSUME TypeOK, NEW c \in Cores, CoreStep(c),
         \A k \in Cores : pc[k] \in EnqueuePC => my_task[k][2] \in TaskData,
         NothingLost, TaskInv, SlotExclusion
  PROVE  TypeOK'
<1> USE DEF TypeOK
<1>0. SlotOf(my_write[c]) \in Slots /\ SlotOf(my_read[c]) \in Slots
  BY SlotOfType
<1>1. ASSUME NEW d \in TaskData, Enqueue(c, d) PROVE TypeOK'
  BY <1>1, TaskCountAssumption DEF Enqueue
<1>2. CASE Dequeue(c)
  BY <1>2 DEF Dequeue
<1>3. CASE EnqueueLoad(c) \/ EnqueueReload(c)
  BY <1>3 DEF EnqueueLoad, EnqueueReload
<1>4. CASE EnqueueClaim(c) \/ EnqueueClaimFails(c)
  BY <1>4, <1>0 DEF EnqueueClaim, EnqueueClaimFails
<1>5. CASE EnqueueId(c)
  BY <1>5, <1>0 DEF EnqueueId
<1>6. CASE EnqueueData(c)
  BY <1>6, <1>0 DEF EnqueueData
<1>7. CASE EnqueuePublish(c)
  BY <1>7, <1>0 DEF EnqueuePublish
<1>8. CASE EnqueueAdvance(c) \/ EnqueueFull(c)
  BY <1>8 DEF EnqueueAdvance, EnqueueFull
<1>9. CASE DequeueLoad(c) \/ DequeueReload(c)
  BY <1>9 DEF DequeueLoad, DequeueReload
<1>10. CASE DequeueClaim(c) \/ DequeueClaimFails(c)
  BY <1>10, <1>0 DEF DequeueClaim, DequeueClaimFails
<1>11. CASE DequeueCopy(c)
  BY <1>11, <1>0 DEF DequeueCopy
<1>12. CASE DequeueClear(c)
  <2>1. my_task[c] \in Nat \X TaskData
    <3>1. my_task[c] = Contents(SlotOf(my_read[c]))
      BY <1>12 DEF TaskInv, DequeueClear
    <3>2. SlotOf(my_read[c]) \in Occupied
      BY <1>12, <1>0 DEF SlotExclusion, Occupied, Reading, DequeueClear
    <3>3. my_task[c] \in submitted \ taken
      BY <3>1, <3>2 DEF NothingLost, Pending
    <3> QED BY <3>3
  <2> QED BY <1>12, <1>0, <2>1 DEF DequeueClear
<1>13. CASE DequeueAdvance(c)
  BY <1>13 DEF DequeueAdvance
<1>14. CASE DequeueEmpty(c)
  BY <1>14 DEF DequeueEmpty
<1> QED BY <1>1, <1>2, <1>3, <1>4, <1>5, <1>6, <1>7, <1>8, <1>9, <1>10, <1>11,
           <1>12, <1>13, <1>14 DEF CoreStep, Step

\* Every step keeps the counters within a lap, and what a core has read of them
\* on the safe side.
LEMMA CounterStep ==
  ASSUME TypeOK, CounterInv, NEW c \in Cores, CoreStep(c)
  PROVE  CounterInv'
<1> USE TaskCountAssumption DEF TypeOK, CounterInv, OneLap
<1>1. ASSUME NEW d \in TaskData, Enqueue(c, d) PROVE CounterInv'
  BY <1>1 DEF Enqueue
<1>2. CASE Dequeue(c)
  BY <1>2 DEF Dequeue
<1>3. CASE EnqueueLoad(c) \/ EnqueueReload(c)
  BY <1>3 DEF EnqueueLoad, EnqueueReload
<1>4. CASE EnqueueClaim(c) \/ EnqueueClaimFails(c)
  BY <1>4 DEF EnqueueClaim, EnqueueClaimFails
<1>5. CASE EnqueueId(c) \/ EnqueueData(c)
  BY <1>5 DEF EnqueueId, EnqueueData
<1>6. CASE EnqueuePublish(c)
  BY <1>6 DEF EnqueuePublish
<1>12. CASE EnqueueFull(c)
  BY <1>12 DEF EnqueueFull
<1>7. CASE EnqueueAdvance(c)
  BY <1>7 DEF EnqueueAdvance
<1>8. CASE DequeueLoad(c) \/ DequeueReload(c)
  BY <1>8 DEF DequeueLoad, DequeueReload
<1>9. CASE DequeueClaim(c) \/ DequeueClaimFails(c) \/ DequeueCopy(c)
  BY <1>9 DEF DequeueClaim, DequeueClaimFails, DequeueCopy
<1>10. CASE DequeueClear(c)
  BY <1>10 DEF DequeueClear
<1>13. CASE DequeueEmpty(c)
  BY <1>13 DEF DequeueEmpty
<1>11. CASE DequeueAdvance(c)
  BY <1>11 DEF DequeueAdvance
<1> QED BY <1>1, <1>2, <1>3, <1>4, <1>5, <1>6, <1>7, <1>8, <1>9, <1>10, <1>11, <1>12,
           <1>13 DEF CoreStep, Step

\* Steps that neither enter nor leave the part of a function that owns a slot.
LEMMA ExclusionKept ==
  ASSUME TypeOK, SlotExclusion, NEW c \in Cores, UNCHANGED sync_info,
         \A k \in Cores \ {c} : UNCHANGED <<pc[k], my_write[k], my_read[k]>>,
         Writing(c) <=> Writing(c)', Reading(c) <=> Reading(c)',
         Writing(c) => my_write'[c] = my_write[c],
         Reading(c) => my_read'[c] = my_read[c]
  PROVE  SlotExclusion'
<1>1. \A k \in Cores : (Writing(k)' <=> Writing(k)) /\ (Reading(k)' <=> Reading(k)) BY DEF Writing, Reading
<1>2. \A k \in Cores : Writing(k) => SlotOf(my_write[k])' = SlotOf(my_write[k]) BY DEF SlotOf
<1>3. \A k \in Cores : Reading(k) => SlotOf(my_read[k])' = SlotOf(my_read[k]) BY DEF SlotOf
<1> QED BY <1>1, <1>2, <1>3 DEF SlotExclusion

\* The compare-exchanges on sync_info keep every slot with one owner.
LEMMA ExclusionStep ==
  ASSUME TypeOK, SlotExclusion, NEW c \in Cores, CoreStep(c)
  PROVE  SlotExclusion'
<1> USE DEF TypeOK
<1>0. \A k \in Cores : SlotOf(my_write[k]) \in Slots /\ SlotOf(my_read[k]) \in Slots
  BY SlotOfType
<1>1. ASSUME NEW d \in TaskData, Enqueue(c, d) PROVE SlotExclusion'
  BY <1>1, ExclusionKept DEF Enqueue, Writing, Reading
<1>2. CASE Dequeue(c)
  BY <1>2, ExclusionKept DEF Dequeue, Writing, Reading
<1>3. CASE EnqueueLoad(c) \/ EnqueueReload(c)
  BY <1>3, ExclusionKept DEF EnqueueLoad, EnqueueReload, Writing, Reading
<1>4. CASE EnqueueClaimFails(c) \/ EnqueueAdvance(c) \/ EnqueueFull(c)
  BY <1>4, ExclusionKept DEF EnqueueClaimFails, EnqueueAdvance, EnqueueFull, Writing, Reading
<1>5. CASE EnqueueId(c) \/ EnqueueData(c)
  BY <1>5, ExclusionKept DEF EnqueueId, EnqueueData, Writing, Reading
<1>6. CASE DequeueLoad(c) \/ DequeueReload(c)
  BY <1>6, ExclusionKept DEF DequeueLoad, DequeueReload, Writing, Reading
<1>7. CASE DequeueClaimFails(c) \/ DequeueAdvance(c) \/ DequeueEmpty(c)
  BY <1>7, ExclusionKept DEF DequeueClaimFails, DequeueAdvance, DequeueEmpty, Writing, Reading
<1>8. CASE DequeueCopy(c)
  BY <1>8, ExclusionKept DEF DequeueCopy, Writing, Reading
<1>9. CASE EnqueueClaim(c)
  <2> DEFINE s == SlotOf(my_write[c])
  <2>1. /\ s \in Slots /\ sync_info[s] = "Empty"
        /\ sync_info' = [sync_info EXCEPT ![s] = "Writing"]
        /\ Writing(c)' /\ ~Reading(c)' /\ ~Writing(c) /\ ~Reading(c) /\ my_write'[c] = my_write[c]
        /\ \A k \in Cores \ {c} : UNCHANGED <<pc[k], my_write[k], my_read[k]>>
    BY <1>9, <1>0 DEF EnqueueClaim, SlotExclusion, Writing, Reading
  <2>2. \A k \in Cores \ {c} : /\ Writing(k)' = Writing(k) /\ Reading(k)' = Reading(k)
                               /\ SlotOf(my_write[k])' = SlotOf(my_write[k])
                               /\ SlotOf(my_read[k])' = SlotOf(my_read[k])
    BY <2>1 DEF Writing, Reading, SlotOf
  <2>3. SlotOf(my_write[c])' = SlotOf(my_write'[c])
    BY DEF SlotOf
  <2> HIDE DEF TypeOK
  <2>4. sync_info \in [Slots -> SyncInfo]
    BY DEF TypeOK
  <2> QED BY <1>0, <2>1, <2>2, <2>3, <2>4 DEF SlotExclusion
<1>10. CASE EnqueuePublish(c)
  <2> DEFINE s == SlotOf(my_write[c])
  <2>1. /\ s \in Slots /\ sync_info[s] = "Writing"
        /\ sync_info' = [sync_info EXCEPT ![s] = "Queued"]
        /\ ~Writing(c)' /\ ~Reading(c)' /\ Writing(c) /\ ~Reading(c)
        /\ \A k \in Cores \ {c} : UNCHANGED <<pc[k], my_write[k], my_read[k]>>
    BY <1>10, <1>0 DEF EnqueuePublish, SlotExclusion, Writing, Reading
  <2>2. \A k \in Cores \ {c} : /\ Writing(k)' = Writing(k) /\ Reading(k)' = Reading(k)
                               /\ SlotOf(my_write[k])' = SlotOf(my_write[k])
                               /\ SlotOf(my_read[k])' = SlotOf(my_read[k])
    BY <2>1 DEF Writing, Reading, SlotOf
  <2>3. SlotOf(my_write[c])' = SlotOf(my_write'[c])
    BY DEF SlotOf
  <2> HIDE DEF TypeOK
  <2>4. sync_info \in [Slots -> SyncInfo]
    BY DEF TypeOK
  <2> QED BY <1>0, <2>1, <2>2, <2>3, <2>4 DEF SlotExclusion
<1>11. CASE DequeueClaim(c)
  <2> DEFINE s == SlotOf(my_read[c])
  <2>1. /\ s \in Slots /\ sync_info[s] = "Queued"
        /\ sync_info' = [sync_info EXCEPT ![s] = "Reading"]
        /\ Reading(c)' /\ ~Writing(c)' /\ ~Reading(c) /\ ~Writing(c) /\ my_read'[c] = my_read[c]
        /\ \A k \in Cores \ {c} : UNCHANGED <<pc[k], my_write[k], my_read[k]>>
    BY <1>11, <1>0 DEF DequeueClaim, SlotExclusion, Writing, Reading
  <2>2. \A k \in Cores \ {c} : /\ Writing(k)' = Writing(k) /\ Reading(k)' = Reading(k)
                               /\ SlotOf(my_write[k])' = SlotOf(my_write[k])
                               /\ SlotOf(my_read[k])' = SlotOf(my_read[k])
    BY <2>1 DEF Writing, Reading, SlotOf
  <2>3. SlotOf(my_read[c])' = SlotOf(my_read'[c])
    BY DEF SlotOf
  <2> HIDE DEF TypeOK
  <2>4. sync_info \in [Slots -> SyncInfo]
    BY DEF TypeOK
  <2> QED BY <1>0, <2>1, <2>2, <2>3, <2>4 DEF SlotExclusion
<1>12. CASE DequeueClear(c)
  <2> DEFINE s == SlotOf(my_read[c])
  <2>1. /\ s \in Slots /\ sync_info[s] = "Reading"
        /\ sync_info' = [sync_info EXCEPT ![s] = "Empty"]
        /\ ~Reading(c)' /\ ~Writing(c)' /\ Reading(c) /\ ~Writing(c)
        /\ \A k \in Cores \ {c} : UNCHANGED <<pc[k], my_write[k], my_read[k]>>
    BY <1>12, <1>0 DEF DequeueClear, SlotExclusion, Writing, Reading
  <2>2. \A k \in Cores \ {c} : /\ Writing(k)' = Writing(k) /\ Reading(k)' = Reading(k)
                               /\ SlotOf(my_write[k])' = SlotOf(my_write[k])
                               /\ SlotOf(my_read[k])' = SlotOf(my_read[k])
    BY <2>1 DEF Writing, Reading, SlotOf
  <2>3. SlotOf(my_read[c])' = SlotOf(my_read'[c])
    BY DEF SlotOf
  <2> HIDE DEF TypeOK
  <2>4. sync_info \in [Slots -> SyncInfo]
    BY DEF TypeOK
  <2> QED BY <1>0, <2>1, <2>2, <2>3, <2>4 DEF SlotExclusion
<1> QED BY <1>1, <1>2, <1>3, <1>4, <1>5, <1>6, <1>7, <1>8, <1>9, <1>10, <1>11, <1>12
           DEF CoreStep, Step

\* Cores other than the one that steps keep their locals and their place.
LEMMA OthersKept ==
  ASSUME TypeOK, NEW c \in Cores, CoreStep(c), NEW k \in Cores \ {c}
  PROVE  /\ pc'[k] = pc[k] /\ my_task'[k] = my_task[k]
         /\ Writing(k)' = Writing(k) /\ Reading(k)' = Reading(k)
         /\ Identified(k)' = Identified(k)
         /\ SlotOf(my_write[k])' = SlotOf(my_write[k])
         /\ SlotOf(my_read[k])' = SlotOf(my_read[k])
<1> DEFINE Kept == /\ pc'[k] = pc[k] /\ my_task'[k] = my_task[k]
                   /\ my_write'[k] = my_write[k] /\ my_read'[k] = my_read[k]
<1>1. Kept
  <2> USE DEF TypeOK
  <2>1. ASSUME NEW d \in TaskData, Enqueue(c, d) PROVE Kept
    BY <2>1 DEF Enqueue
  <2>2. CASE Dequeue(c)
    BY <2>2 DEF Dequeue
  <2>3. CASE \/ EnqueueLoad(c) \/ EnqueueClaim(c) \/ EnqueueClaimFails(c)
             \/ EnqueueId(c) \/ EnqueueData(c)
    BY <2>3 DEF EnqueueLoad, EnqueueClaim, EnqueueClaimFails, EnqueueId, EnqueueData
  <2>4. CASE \/ EnqueuePublish(c) \/ EnqueueAdvance(c) \/ EnqueueReload(c)
             \/ EnqueueFull(c)
    BY <2>4 DEF EnqueuePublish, EnqueueAdvance, EnqueueReload, EnqueueFull
  <2>5. CASE DequeueLoad(c) \/ DequeueClaim(c) \/ DequeueClaimFails(c) \/ DequeueCopy(c)
    BY <2>5 DEF DequeueLoad, DequeueClaim, DequeueClaimFails, DequeueCopy
  <2>6. CASE DequeueClear(c) \/ DequeueAdvance(c) \/ DequeueReload(c) \/ DequeueEmpty(c)
    BY <2>6 DEF DequeueClear, DequeueAdvance, DequeueReload, DequeueEmpty
  <2> QED BY <2>1, <2>2, <2>3, <2>4, <2>5, <2>6 DEF CoreStep, Step
<1> QED BY <1>1 DEF Writing, Reading, Identified, SlotOf

\* A core that publishes gives the ring a task with an id nobody has used, and
\* finds its slot as it wrote it.
LEMMA TaskStep ==
  ASSUME TypeOK, SlotExclusion, TaskInv, NEW c \in Cores, CoreStep(c)
  PROVE  TaskInv'
<1>0. \A k \in Cores : SlotOf(my_write[k]) \in Slots /\ SlotOf(my_read[k]) \in Slots
  BY SlotOfType DEF TypeOK
<1>1. \A k \in Cores \ {c} :
         /\ pc'[k] = pc[k] /\ my_task'[k] = my_task[k]
         /\ Writing(k)' = Writing(k) /\ Reading(k)' = Reading(k)
         /\ Identified(k)' = Identified(k)
         /\ SlotOf(my_write[k])' = SlotOf(my_write[k])
         /\ SlotOf(my_read[k])' = SlotOf(my_read[k])
  BY OthersKept
<1>2. /\ slot_id \in [Slots -> Nat] /\ slot_data \in [Slots -> TaskData \cup {NoData}]
      /\ next_id \in Nat /\ submitted \subseteq Nat \X TaskData
      /\ my_task \in [Cores -> Nat \X (TaskData \cup {NoData})]
      /\ pc \in [Cores -> {"idle"} \cup EnqueuePC \cup DequeuePC]
  BY DEF TypeOK
<1> DEFINE SlotsKept == UNCHANGED <<slot_id, slot_data, next_id, submitted>>
<1>3. ASSUME NEW d \in TaskData, Enqueue(c, d) PROVE TaskInv'
  <2>1. SlotsKept /\ pc'[c] = "enq_load" /\ my_task'[c] = <<0, d>>
    BY <1>3, <1>2 DEF Enqueue
  <2> QED BY <2>1, <1>1 DEF TaskInv, Identified, Contents
<1>4. ASSUME SlotsKept, my_task'[c] = my_task[c],
             ~Identified(c)', pc'[c] # "deq_clear",
             pc'[c] \in EnqueuePC => pc[c] \in EnqueuePC
      PROVE  TaskInv'
  BY <1>4, <1>1 DEF TaskInv, Identified, Contents
<1>5. CASE Dequeue(c)
  BY <1>5, <1>4, <1>2 DEF Dequeue, Identified
<1>6. CASE EnqueueLoad(c) \/ EnqueueClaim(c) \/ EnqueueClaimFails(c)
  BY <1>6, <1>4, <1>2 DEF EnqueueLoad, EnqueueClaim, EnqueueClaimFails, Identified
<1>7. CASE EnqueueAdvance(c) \/ EnqueueReload(c)
  BY <1>7, <1>4, <1>2 DEF EnqueueAdvance, EnqueueReload, Identified
<1>8. CASE DequeueLoad(c) \/ DequeueClaim(c) \/ DequeueClaimFails(c)
  BY <1>8, <1>4, <1>2 DEF DequeueLoad, DequeueClaim, DequeueClaimFails, Identified
<1>9. CASE DequeueAdvance(c) \/ DequeueReload(c)
  BY <1>9, <1>4, <1>2 DEF DequeueAdvance, DequeueReload, Identified
<1>10. ASSUME SlotsKept, pc'[c] = "idle"
       PROVE  TaskInv'
  BY <1>10, <1>1 DEF TaskInv, Identified, Contents
<1>11. CASE EnqueueFull(c) \/ DequeueClear(c) \/ DequeueEmpty(c)
  BY <1>11, <1>10, <1>2 DEF EnqueueFull, DequeueClear, DequeueEmpty
<1>12. CASE DequeueCopy(c)
  <2>1. /\ SlotsKept /\ pc'[c] = "deq_clear"
        /\ my_task'[c] = Contents(SlotOf(my_read[c]))
        /\ SlotOf(my_read[c])' = SlotOf(my_read[c])
    BY <1>12, <1>2 DEF DequeueCopy, Contents, SlotOf
  <2> QED BY <2>1, <1>1 DEF TaskInv, Identified, Contents
<1>13. CASE EnqueueId(c)
  <2> DEFINE s == SlotOf(my_write[c])
  <2>1. /\ s \in Slots /\ slot_id' = [slot_id EXCEPT ![s] = next_id]
        /\ next_id' = next_id + 1
        /\ my_task'[c] = <<next_id, my_task[c][2]>>
        /\ pc[c] = "enq_id" /\ pc'[c] = "enq_data" /\ UNCHANGED <<slot_data, submitted>>
        /\ SlotOf(my_write[c])' = s
    BY <1>13, <1>0, <1>2 DEF EnqueueId, SlotOf
  <2>2. \A k \in Cores \ {c} : /\ Writing(k) => SlotOf(my_write[k]) # s
                               /\ Reading(k) => SlotOf(my_read[k]) # s
    BY <2>1 DEF SlotExclusion, Writing, Reading
  <2>3. \A k \in Cores : Identified(k) => Writing(k)
    BY DEF Identified, Writing
  <2> HIDE DEF s
  <2>4. \A t \in submitted' : t[1] < next_id' /\ t[1] # next_id
    BY <2>1, <1>2 DEF TaskInv
  <2>5. \A k \in Cores : pc'[k] \in EnqueuePC => my_task'[k][2] \in TaskData
    BY <2>1, <1>1 DEF TaskInv
  <2>6. \A k \in Cores : Identified(k)'
          => /\ my_task'[k][1] < next_id'
             /\ slot_id'[SlotOf(my_write[k])'] = my_task'[k][1]
             /\ \A t \in submitted' : t[1] # my_task'[k][1]
    <3> SUFFICES ASSUME NEW k \in Cores, Identified(k)'
                 PROVE  /\ my_task'[k][1] < next_id'
                        /\ slot_id'[SlotOf(my_write[k])'] = my_task'[k][1]
                        /\ \A t \in submitted' : t[1] # my_task'[k][1]
      OBVIOUS
    <3>2. CASE k = c
      BY <3>2, <2>1, <2>4, <1>2
    <3>3. CASE k # c
      BY <3>3, <2>1, <2>2, <2>3, <1>1, <1>0, <1>2 DEF TaskInv
    <3> QED BY <3>2, <3>3
  <2>7. \A k, d \in Cores : k # d /\ Identified(k)' /\ Identified(d)'
                              => my_task'[k][1] # my_task'[d][1]
    BY <2>1, <1>1, <1>2 DEF TaskInv
  <2>8. \A k \in Cores : pc'[k] = "enq_publish"
                           => slot_data'[SlotOf(my_write[k])'] = my_task'[k][2]
    BY <2>1, <1>1 DEF TaskInv
  <2>9. \A k \in Cores : pc'[k] = "deq_clear" => my_task'[k] = Contents(SlotOf(my_read[k]))'
    BY <2>1, <2>2, <1>0, <1>1, <1>2 DEF TaskInv, Contents, Reading
  <2> QED BY <2>4, <2>5, <2>6, <2>7, <2>8, <2>9 DEF TaskInv
<1>14. CASE EnqueueData(c)
  <2> DEFINE s == SlotOf(my_write[c])
  <2>1. /\ s \in Slots /\ slot_data' = [slot_data EXCEPT ![s] = my_task[c][2]]
        /\ pc[c] = "enq_data" /\ pc'[c] = "enq_publish" /\ my_task' = my_task
        /\ UNCHANGED <<slot_id, next_id, submitted>>
        /\ SlotOf(my_write[c])' = s
    BY <1>14, <1>0, <1>2 DEF EnqueueData, SlotOf
  <2>2. \A k \in Cores \ {c} : /\ Writing(k) => SlotOf(my_write[k]) # s
                               /\ Reading(k) => SlotOf(my_read[k]) # s
    BY <2>1 DEF SlotExclusion, Writing, Reading
  <2>3. Identified(c) /\ Identified(c)'
    BY <2>1 DEF Identified
  <2>4. /\ \A k \in Cores : pc'[k] \in EnqueuePC => my_task'[k][2] \in TaskData
        /\ \A k \in Cores : Identified(k)'
             => slot_id'[SlotOf(my_write[k])'] = my_task'[k][1]
    BY <2>1, <2>3, <1>1 DEF TaskInv
  <2>5. \A k \in Cores : pc'[k] = "enq_publish"
                           => slot_data'[SlotOf(my_write[k])'] = my_task'[k][2]
    BY <2>1, <2>2, <1>0, <1>1, <1>2 DEF TaskInv, Writing
  <2>6. \A k \in Cores : pc'[k] = "deq_clear" => my_task'[k] = Contents(SlotOf(my_read[k]))'
    BY <2>1, <2>2, <1>0, <1>1, <1>2 DEF TaskInv, Contents, Reading
  <2> QED BY <2>1, <2>3, <2>4, <2>5, <2>6, <1>1 DEF TaskInv
<1>15. CASE EnqueuePublish(c)
  <2>1. /\ pc[c] = "enq_publish" /\ pc'[c] = "idle" /\ submitted' = submitted \cup {my_task[c]}
        /\ UNCHANGED <<slot_id, slot_data, next_id>>
    BY <1>15, <1>2 DEF EnqueuePublish
  <2>2. Identified(c) /\ ~Identified(c)'
    BY <2>1 DEF Identified
  <2>3. \A t \in submitted' : t[1] < next_id'
    BY <2>1, <2>2 DEF TaskInv
  <2>4. \A k \in Cores : Identified(k)' => \A t \in submitted' : t[1] # my_task'[k][1]
    BY <2>1, <2>2, <1>1 DEF TaskInv
  <2> QED BY <2>1, <2>2, <2>3, <2>4, <1>1 DEF TaskInv, Contents
<1> QED BY <1>3, <1>5, <1>6, <1>7, <1>8, <1>9, <1>11, <1>12, <1>13, <1>14, <1>15
           DEF CoreStep, Step

\* What a step does to the occupied slots and their contents: nothing, or a
\* publish fills one of them, or a dequeue empties one of them.
LEMMA RingStep ==
  ASSUME TypeOK, SlotExclusion, TaskInv, NEW c \in Cores, CoreStep(c)
  PROVE  \/ /\ Occupied' = Occupied /\ \A s \in Occupied : Contents(s)' = Contents(s)
            /\ UNCHANGED <<submitted, taken>>
         \/ \E s \in Slots \ Occupied :
              /\ Occupied' = Occupied \cup {s}
              /\ \A r \in Slots : Contents(r)' = Contents(r)
              /\ \A t \in submitted : t[1] # Contents(s)[1]
              /\ submitted' = submitted \cup {Contents(s)} /\ UNCHANGED taken
         \/ \E s \in Occupied :
              /\ Occupied' = Occupied \ {s}
              /\ \A r \in Slots : Contents(r)' = Contents(r)
              /\ taken' = taken \cup {Contents(s)} /\ UNCHANGED submitted
<1> DEFINE Idle == /\ Occupied' = Occupied
                   /\ \A s \in Occupied : Contents(s)' = Contents(s)
                   /\ UNCHANGED <<submitted, taken>>
<1>0. \A k \in Cores : SlotOf(my_write[k]) \in Slots /\ SlotOf(my_read[k]) \in Slots
  BY SlotOfType DEF TypeOK
<1>1. ASSUME NEW d \in TaskData, Enqueue(c, d) PROVE Idle
  BY <1>1 DEF Enqueue, Occupied, Contents
<1>2. CASE Dequeue(c) \/ DequeueLoad(c) \/ DequeueReload(c)
  <2> Idle
    BY <1>2 DEF Dequeue, DequeueLoad, DequeueReload, Occupied, Contents
  <2> QED OBVIOUS
<1>3. CASE EnqueueLoad(c) \/ EnqueueReload(c) \/ EnqueueClaimFails(c)
  <2> Idle
    BY <1>3 DEF EnqueueLoad, EnqueueReload, EnqueueClaimFails, Occupied, Contents
  <2> QED OBVIOUS
<1>4. CASE EnqueueAdvance(c) \/ EnqueueFull(c)
  <2> Idle
    BY <1>4 DEF EnqueueAdvance, EnqueueFull, Occupied, Contents
  <2> QED OBVIOUS
<1>5. CASE DequeueClaimFails(c) \/ DequeueCopy(c) \/ DequeueAdvance(c) \/ DequeueEmpty(c)
  <2> Idle
    BY <1>5 DEF DequeueClaimFails, DequeueCopy, DequeueAdvance, DequeueEmpty, Occupied, Contents
  <2> QED OBVIOUS
<1>6. CASE EnqueueClaim(c)
  <2> Idle
    BY <1>6, <1>0 DEF EnqueueClaim, Occupied, Contents, TypeOK
  <2> QED OBVIOUS
<1>7. CASE DequeueClaim(c)
  <2> Idle
    BY <1>7, <1>0 DEF DequeueClaim, Occupied, Contents, TypeOK
  <2> QED OBVIOUS
<1>8. CASE EnqueueId(c) \/ EnqueueData(c)
  <2>1. SlotOf(my_write[c]) \in Slots \ Occupied
    BY <1>8, <1>0 DEF EnqueueId, EnqueueData, SlotExclusion, Writing, Occupied
  <2> Idle
    BY <1>8, <2>1 DEF EnqueueId, EnqueueData, Occupied, Contents, TypeOK
  <2> QED OBVIOUS
<1>9. CASE EnqueuePublish(c)
  <2> DEFINE s == SlotOf(my_write[c])
  <2>1. /\ pc[c] = "enq_publish" /\ UNCHANGED <<slot_id, slot_data, taken>>
        /\ sync_info' = [sync_info EXCEPT ![s] = "Queued"]
        /\ submitted' = submitted \cup {my_task[c]}
    BY <1>9 DEF EnqueuePublish
  <2>2. s \in Slots /\ sync_info[s] = "Writing"
    BY <2>1, <1>0 DEF SlotExclusion, Writing
  <2>3. my_task[c] = Contents(s) /\ \A t \in submitted : t[1] # Contents(s)[1]
    <3>1. my_task[c] = <<my_task[c][1], my_task[c][2]>>
      BY DEF TypeOK
    <3> QED BY <3>1, <2>1 DEF TaskInv, Identified, Contents
  <2>4. s \in Slots \ Occupied /\ Occupied' = Occupied \cup {s}
    BY <2>1, <2>2 DEF Occupied, TypeOK
  <2>5. \A r \in Slots : Contents(r)' = Contents(r)
    BY <2>1 DEF Contents
  <2> QED BY <2>1, <2>3, <2>4, <2>5
<1>10. CASE DequeueClear(c)
  <2> DEFINE s == SlotOf(my_read[c])
  <2>1. /\ pc[c] = "deq_clear" /\ UNCHANGED <<slot_id, slot_data, submitted>>
        /\ sync_info' = [sync_info EXCEPT ![s] = "Empty"]
        /\ taken' = taken \cup {my_task[c]}
    BY <1>10 DEF DequeueClear
  <2>2. s \in Slots /\ sync_info[s] = "Reading"
    BY <2>1, <1>0 DEF SlotExclusion, Reading
  <2>3. my_task[c] = Contents(s)
    BY <2>1 DEF TaskInv
  <2>4. s \in Occupied /\ Occupied' = Occupied \ {s}
    BY <2>1, <2>2 DEF Occupied, TypeOK
  <2>5. \A r \in Slots : Contents(r)' = Contents(r)
    BY <2>1 DEF Contents
  <2> QED BY <2>1, <2>3, <2>4, <2>5
<1> QED BY <1>1, <1>2, <1>3, <1>4, <1>5, <1>6, <1>7, <1>8, <1>9, <1>10 DEF CoreStep, Step

\* Every step keeps the occupied slots in agreement with what was accepted and
\* not yet delivered.
LEMMA LostStep ==
  ASSUME TypeOK, SlotExclusion, TaskInv, NothingLost, NEW c \in Cores, CoreStep(c)
  PROVE  NothingLost'
<1>0. Occupied \subseteq Slots
  BY DEF Occupied
<1>1. CASE /\ Occupied' = Occupied /\ \A s \in Occupied : Contents(s)' = Contents(s)
           /\ UNCHANGED <<submitted, taken>>
  BY <1>1 DEF NothingLost, Pending
<1>2. ASSUME NEW s \in Slots \ Occupied,
             Occupied' = Occupied \cup {s},
             \A r \in Slots : Contents(r)' = Contents(r),
             \A t \in submitted : t[1] # Contents(s)[1],
             submitted' = submitted \cup {Contents(s)}, UNCHANGED taken
      PROVE  NothingLost'
  <2>1. Contents(s) \notin submitted
    BY <1>2
  <2> QED BY <1>0, <1>2, <2>1 DEF NothingLost, Pending
<1>3. ASSUME NEW s \in Occupied,
             Occupied' = Occupied \ {s},
             \A r \in Slots : Contents(r)' = Contents(r),
             taken' = taken \cup {Contents(s)}, UNCHANGED submitted
      PROVE  NothingLost'
  BY <1>0, <1>3 DEF NothingLost, Pending
<1> QED BY <1>1, <1>2, <1>3, RingStep

\* Every step of enqueue_task and dequeue_task on any core keeps the invariant.
LEMMA InductiveStep ==
  ASSUME IndInv, [Next]_vars
  PROVE  IndInv'
<1>1. ASSUME NEW c \in Cores, CoreStep(c) PROVE IndInv'
  <2>1. TypeOK'
    BY <1>1, TypeStep DEF IndInv, TaskInv
  <2>2. CounterInv'
    BY <1>1, CounterStep DEF IndInv
  <2>3. SlotExclusion'
    BY <1>1, ExclusionStep DEF IndInv
  <2>4. TaskInv'
    BY <1>1, TaskStep DEF IndInv
  <2>5. NothingLost'
    BY <1>1, LostStep DEF IndInv
  <2> QED BY <2>1, <2>2, <2>3, <2>4, <2>5 DEF IndInv
<1>2. CASE UNCHANGED vars
  BY <1>2 DEF vars, IndInv, TypeOK, CounterInv, OneLap, SlotExclusion, TaskInv, NothingLost, Pending,
              Writing, Reading, Identified, Occupied, Contents, SlotOf
<1> QED BY <1>1, <1>2 DEF Next, CoreStep

\* The ring as tasks__init leaves it satisfies the invariant.
LEMMA InductiveInit == Init => IndInv
<1> SUFFICES ASSUME Init PROVE IndInv
  OBVIOUS
<1> USE TaskCountAssumption DEF Init
<1>1. TypeOK
  BY DEF TypeOK
<1>2. CounterInv
  BY DEF CounterInv, OneLap
<1>3. SlotExclusion
  BY DEF SlotExclusion, Writing, Reading
<1>4. TaskInv
  BY DEF TaskInv, Identified
<1>5. NothingLost
  BY DEF NothingLost, Pending, Occupied
<1> QED BY <1>1, <1>2, <1>3, <1>4, <1>5 DEF IndInv

\* The invariant behind all the others holds in every reachable state of the
\* ring, for any number of cores, slots and calls.
THEOREM Inductive == Spec => []IndInv
BY InductiveInit, InductiveStep, PTL DEF Spec

\* Every variable keeps its type: the index "counter % task_count" is always a
\* slot of the worker's array.
THEOREM TypeCorrect == Spec => []TypeOK
BY Inductive, PTL DEF IndInv

\* Mutual exclusion on a slot, as the comments in both functions claim.
THEOREM Exclusive == Spec => []SlotExclusion
BY Inductive, PTL DEF IndInv

\* enqueue_task and dequeue_task lose, duplicate, mix up and invent no task.
THEOREM LosesNothing == Spec => []NothingLost
BY Inductive, PTL DEF IndInv

\* The counters stay within one lap of each other.
THEOREM WithinOneLap == Spec => []OneLap
<1>1. IndInv => OneLap
  BY DEF IndInv, CounterInv
<1> QED BY <1>1, Inductive, PTL

\* A task is about to be returned by one core at most, and only if it was
\* accepted and not returned before.
THEOREM DeliversOnce == Spec => []DeliveredOnce
<1>1. ASSUME IndInv PROVE DeliveredOnce
  <2> USE <1>1 DEF IndInv
  <2>1. \A c \in Cores : pc[c] = "deq_clear"
          => /\ SlotOf(my_read[c]) \in Occupied
             /\ my_task[c] = Contents(SlotOf(my_read[c]))
    BY SlotOfType DEF SlotExclusion, Reading, Occupied, TaskInv, TypeOK
  <2>2. \A c, d \in Cores : c # d /\ pc[c] = "deq_clear" /\ pc[d] = "deq_clear"
          => SlotOf(my_read[c]) # SlotOf(my_read[d])
    BY DEF SlotExclusion, Reading
  <2> QED BY <2>1, <2>2 DEF DeliveredOnce, NothingLost, Pending
<1> QED BY <1>1, Inductive, PTL

\* "always-increasing": no step moves a counter back or over a slot.
THEOREM Climbs == Spec => CountersClimb
<1> DEFINE Climb == /\ read_from' \in {read_from, read_from + 1}
                    /\ write_to' \in {write_to, write_to + 1}
<1>1. ASSUME NEW c \in Cores, CoreStep(c) PROVE Climb
  <2>1. ASSUME NEW d \in TaskData, Enqueue(c, d) PROVE Climb
    BY <2>1 DEF Enqueue
  <2>2. CASE Dequeue(c)
    BY <2>2 DEF Dequeue
  <2>3. CASE EnqueueAdvance(c)
    BY <2>3 DEF EnqueueAdvance
  <2>4. CASE DequeueAdvance(c)
    BY <2>4 DEF DequeueAdvance
  <2>5. CASE EnqueueLoad(c) \/ EnqueueClaim(c) \/ EnqueueClaimFails(c) \/ EnqueueReload(c)
    BY <2>5 DEF EnqueueLoad, EnqueueClaim, EnqueueClaimFails, EnqueueReload
  <2>6. CASE EnqueueId(c) \/ EnqueueData(c) \/ EnqueuePublish(c) \/ EnqueueFull(c)
    BY <2>6 DEF EnqueueId, EnqueueData, EnqueuePublish, EnqueueFull
  <2>7. CASE DequeueLoad(c) \/ DequeueClaim(c) \/ DequeueClaimFails(c) \/ DequeueReload(c)
    BY <2>7 DEF DequeueLoad, DequeueClaim, DequeueClaimFails, DequeueReload
  <2>8. CASE DequeueCopy(c) \/ DequeueClear(c) \/ DequeueEmpty(c)
    BY <2>8 DEF DequeueCopy, DequeueClear, DequeueEmpty
  <2> QED BY <1>1, <2>1, <2>2, <2>3, <2>4, <2>5, <2>6, <2>7, <2>8 DEF CoreStep, Step
<1>2. [Next]_vars => [Climb]_counters
  BY <1>1 DEF Next, CoreStep, vars
<1> QED BY <1>2, PTL DEF Spec, CountersClimb

-----------------------------------------------------------------------------
(* The ring implements the bag *)

\* There are TaskCount slots, which bounds the bag.
LEMMA SlotsFinite == IsFiniteSet(Slots) /\ Cardinality(Slots) = TaskCount
BY FS_Interval, TaskCountAssumption DEF Slots

\* With a slot to spare, the bag is below its capacity.
LEMMA RoomInBag ==
  ASSUME NEW s \in Slots \ Occupied
  PROVE  Cardinality(Pending) < TaskCount
<1>1. IsFiniteSet(Occupied) /\ Cardinality(Occupied) < TaskCount
  <2>1. Occupied \subseteq Slots /\ Occupied # Slots
    BY DEF Occupied
  <2>2. /\ IsFiniteSet(Occupied) /\ Cardinality(Occupied) <= TaskCount
        /\ Cardinality(Occupied) # TaskCount
    BY <2>1, SlotsFinite, FS_Subset
  <2> QED BY <2>2, FS_CardinalityType, TaskCountAssumption
<1>2. IsFiniteSet(Pending) /\ Cardinality(Pending) <= Cardinality(Occupied)
  <2> DEFINE f == [r \in Occupied |-> Contents(r)]
  <2>1. f \in Surjection(Occupied, Pending)
    BY DEF Surjection, Pending
  <2> QED BY <2>1, <1>1, FS_Surjection
<1> QED BY <1>1, <1>2, FS_CardinalityType, TaskCountAssumption

\* Every step of the ring is a step of the bag or leaves the bag alone.
LEMMA BagStep ==
  ASSUME IndInv, [Next]_vars
  PROVE  [Bag!Next]_<<Pending, taken>>
<1> USE DEF IndInv
<1>1. ASSUME NEW c \in Cores, CoreStep(c) PROVE [Bag!Next]_<<Pending, taken>>
  <2>0. Occupied \subseteq Slots
    BY DEF Occupied
  <2>1. CASE /\ Occupied' = Occupied /\ \A s \in Occupied : Contents(s)' = Contents(s)
             /\ UNCHANGED <<submitted, taken>>
    BY <2>1 DEF Pending
  <2>2. ASSUME NEW s \in Slots \ Occupied,
               Occupied' = Occupied \cup {s},
               \A r \in Slots : Contents(r)' = Contents(r),
               \A t \in submitted : t[1] # Contents(s)[1],
               submitted' = submitted \cup {Contents(s)}, UNCHANGED taken
        PROVE  Bag!Next
    <3>1. Contents(s) \notin Pending \cup taken
      BY <2>2 DEF NothingLost, Pending
    <3>2. Pending' = Pending \cup {Contents(s)}
      BY <2>0, <2>2 DEF Pending
    <3>3. Cardinality(Pending) < TaskCount
      BY RoomInBag
    <3>4. Bag!Cardinality(Pending) = Cardinality(Pending)
      BY DEF Bag!Cardinality, Cardinality
    <3>5. Bag!Add(Contents(s))
      BY <3>1, <3>2, <3>3, <3>4, <2>2 DEF Bag!Add, Pending
    <3>6. Contents(s) \in Pending'
      BY <3>2
    <3> QED BY <3>5, <3>6 DEF Bag!Next, Pending
  <2>3. ASSUME NEW s \in Occupied,
               Occupied' = Occupied \ {s},
               \A r \in Slots : Contents(r)' = Contents(r),
               taken' = taken \cup {Contents(s)}, UNCHANGED submitted
        PROVE  Bag!Next
    <3>1. Pending' = Pending \ {Contents(s)}
      BY <2>0, <2>3 DEF NothingLost, Pending
    <3>2. Bag!Take(Contents(s)) /\ Contents(s) \in Pending
      BY <3>1, <2>3 DEF Bag!Take, Pending
    <3> QED BY <3>2 DEF Bag!Next, Pending
  <2> QED BY <1>1, <2>1, <2>2, <2>3, RingStep
<1>2. CASE UNCHANGED vars
  BY <1>2 DEF vars, Pending, Occupied, Contents
<1> QED BY <1>1, <1>2 DEF Next, CoreStep

\* The ring implements the bag: its published slots behave, under every
\* interleaving of the two functions, as a bag of at most TaskCount tasks.
THEOREM ImplementsBag == Spec => RefinesBag
<1>1. Init => Bag!Init
  BY DEF Init, Bag!Init, Occupied, Pending
<1>2. IndInv /\ [Next]_vars => [Bag!Next]_<<Pending, taken>>
  BY BagStep
<1>3. Bag!Spec <=> Bag!Init /\ [][Bag!Next]_<<Pending, taken>>
  BY DEF Bag!Spec, Pending
<1> QED BY <1>1, <1>2, <1>3, Inductive, PTL DEF Spec, RefinesBag
=============================================================================
