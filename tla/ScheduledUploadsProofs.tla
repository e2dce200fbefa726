----------------------- MODULE ScheduledUploadsProofs -----------------------
(***************************************************************************)
(* Proofs about ScheduledUploads, for any number of schedules, workers,    *)
(* dispatchers, clients, tries and faults.                                 *)
(***************************************************************************)
EXTENDS ScheduledUploads, TLAPS, FiniteSetTheorems

-----------------------------------------------------------------------------
(* What the building blocks of the actions preserve.                       *)

\* A compare-and-swap writes a status of the column and keeps the types.
LEMMA TransitionTypes ==
    ASSUME RowTypes, NEW a \in Actors, NEW s \in Schedules, NEW from, NEW to \in Statuses,
           NEW reread \in SUBSET Actors, Transition(a, s, from, to, reread)
    PROVE  /\ status' \in [Schedules -> Statuses \cup {"absent", "deleted"}]
           /\ fresh' \in [Schedules -> SUBSET Actors]
           /\ aged' \in [Schedules -> BOOLEAN]
BY DEF Transition, RowTypes

\* Reading a row adds a snapshot of a known actor.
LEMMA ReadRowTypes ==
    ASSUME RowTypes, NEW a \in Actors, NEW s \in Schedules, ReadRow(a, s)
    PROVE  fresh' \in [Schedules -> SUBSET Actors]
BY DEF ReadRow, RowTypes

\* Forgetting a snapshot keeps the others.
LEMMA ForgetTypes ==
    ASSUME RowTypes, NEW a, NEW s \in Schedules, Forget(a, s)
    PROVE  fresh' \in [Schedules -> SUBSET Actors]
BY DEF Forget, RowTypes

\* What handle() threw is tried again or given up.
LEMMA ThrowEnds == \A w : Throw(w) => ThrowRequeued(w) \/ ThrowLast(w)
BY DEF Throw

\* A push or a requeue counts one more message.
LEMMA EnqueueTypes ==
    ASSUME QueueTypes, NEW s \in Schedules, NEW a \in 0..Tries, Enqueue(s, a)
    PROVE  queue' \in [Schedules -> [0..Tries -> Nat]]
<1>1. queue[s] \in [0..Tries -> Nat]
  BY DEF QueueTypes
<1>2. queue[s][a] + 1 \in Nat
  BY <1>1, TriesAssumption
<1>3. [queue[s] EXCEPT ![a] = queue[s][a] + 1] \in [0..Tries -> Nat]
  BY <1>1, <1>2
<1>4. queue' = [queue EXCEPT ![s] = [queue[s] EXCEPT ![a] = queue[s][a] + 1]]
  BY DEF Enqueue, QueueTypes
<1> QED
  BY <1>3, <1>4 DEF QueueTypes

\* Reserving a message takes it off the queue.
LEMMA DequeueTypes ==
    ASSUME QueueTypes, NEW s \in Schedules, NEW a \in 0..Tries, queue[s][a] > 0,
           queue' = [queue EXCEPT ![s][a] = @ - 1]
    PROVE  queue' \in [Schedules -> [0..Tries -> Nat]]
<1>1. queue[s] \in [0..Tries -> Nat]
  BY DEF QueueTypes
<1>2. queue[s][a] - 1 \in Nat
  BY <1>1, TriesAssumption
<1>3. [queue[s] EXCEPT ![a] = queue[s][a] - 1] \in [0..Tries -> Nat]
  BY <1>1, <1>2
<1>4. queue' = [queue EXCEPT ![s] = [queue[s] EXCEPT ![a] = queue[s][a] - 1]]
  BY DEF QueueTypes
<1> QED
  BY <1>3, <1>4 DEF QueueTypes

\* Releasing the overlap lock leaves a lock state.
LEMMA UnlockTypes ==
    ASSUME QueueTypes, NEW w \in Workers, job[w] \in Schedules, Unlock(w)
    PROVE  overlap' \in [Schedules -> Workers \cup {"free", "leaked"}]
BY DEF Unlock, QueueTypes

\* A worker that goes on keeps its delivery.
LEMMA StepTypes ==
    ASSUME WorkerTypes, NEW w \in Workers, pc[w] /= "idle",
           NEW p \in WorkerPcs \ {"idle", "refuse"}, Step(w, p)
    PROVE  WorkerTypes'
BY DEF WorkerTypes, Step, Goto

\* A worker that ends its delivery owns nothing.
LEMMA IdleTypes ==
    ASSUME WorkerTypes, NEW w \in Workers, Idle(w)
    PROVE  WorkerTypes'
<1>1. pc' \in [Workers -> WorkerPcs] /\ job' \in [Workers -> Schedules \cup {None}]
  BY DEF WorkerTypes, Idle, Goto, WorkerPcs
<1>2. try' \in [Workers -> 0..Tries] /\ owned' \in [Workers -> BOOLEAN]
  BY TriesAssumption DEF WorkerTypes, Idle
<1>3. verdict' \in [Workers -> Refusals \cup {"none"}]
  BY DEF WorkerTypes, Idle
<1>4. \A v \in Workers :
        /\ pc'[v] /= "idle" => job'[v] \in Schedules
        /\ owned'[v] => pc'[v] /= "idle"
        /\ pc'[v] = "refuse" => verdict'[v] \in Refusals
  BY DEF WorkerTypes, Idle, Goto
<1> QED
  BY <1>1, <1>2, <1>3, <1>4 DEF WorkerTypes

\* The dispatcher's loop goes on within its batch.
LEMMA NextCandidateTypes ==
    ASSUME DispatcherTypes, NEW d \in Dispatchers, NEW rest \in SUBSET Schedules,
           NextCandidate(d, rest)
    PROVE  DispatcherTypes'
BY DEF DispatcherTypes, NextCandidate, DispatcherPcs

\* A client that got its answer holds no row.
LEMMA ClientDoneTypes ==
    ASSUME ClientTypes, NEW c \in Clients, ClientDone(c)
    PROVE  ClientTypes'
BY DEF ClientTypes, ClientDone, ClientOps

\* What a step leaves alone keeps its types.
LEMMA Unchanged ==
    /\ RowTypes /\ UNCHANGED rowVars => RowTypes'
    /\ FileTypes /\ UNCHANGED fileVars => FileTypes'
    /\ QueueTypes /\ UNCHANGED queueVars => QueueTypes'
    /\ WorkerTypes /\ UNCHANGED workerVars => WorkerTypes'
    /\ DispatcherTypes /\ UNCHANGED dispVars => DispatcherTypes'
    /\ SweepTypes /\ UNCHANGED sweepVars => SweepTypes'
    /\ ClientTypes /\ UNCHANGED clientVars => ClientTypes'
<1>1. RowTypes /\ UNCHANGED rowVars => RowTypes'
  BY DEF RowTypes, rowVars
<1>2. FileTypes /\ UNCHANGED fileVars => FileTypes'
  BY DEF FileTypes, fileVars
<1>3. QueueTypes /\ UNCHANGED queueVars => QueueTypes'
  BY DEF QueueTypes, queueVars
<1>4. WorkerTypes /\ UNCHANGED workerVars => WorkerTypes'
  BY DEF WorkerTypes, workerVars
<1>5. DispatcherTypes /\ UNCHANGED dispVars => DispatcherTypes'
  BY DEF DispatcherTypes, dispVars
<1>6. SweepTypes /\ UNCHANGED sweepVars => SweepTypes'
  BY DEF SweepTypes, sweepVars
<1>7. ClientTypes /\ UNCHANGED clientVars => ClientTypes'
  BY DEF ClientTypes, clientVars
<1> QED
  BY <1>1, <1>2, <1>3, <1>4, <1>5, <1>6, <1>7

-----------------------------------------------------------------------------
\* The columns, files, queue and processes keep their types, and a process
\* under way always has a schedule, whatever the number of actors.
THEOREM TypeCorrect == Spec => []TypeOK
<1>1. Init => TypeOK
  <2> SUFFICES ASSUME Init PROVE TypeOK
    OBVIOUS
  <2>1. RowTypes /\ FileTypes
    BY DEF Init, RowTypes, FileTypes, Statuses, FailureCodes
  <2>2. QueueTypes /\ WorkerTypes
    BY TriesAssumption DEF Init, QueueTypes, WorkerTypes, WorkerPcs, Refusals
  <2>3. DispatcherTypes /\ SweepTypes /\ ClientTypes
    BY DEF Init, DispatcherTypes, SweepTypes, ClientTypes, DispatcherPcs, ClientOps
  <2> QED
    BY <2>1, <2>2, <2>3 DEF Init, TypeOK
<1>2. TypeOK /\ [Next]_vars => TypeOK'
  <2> SUFFICES ASSUME TypeOK, [Next]_vars PROVE TypeOK'
    OBVIOUS
  <2>1. ASSUME NEW s \in Schedules, Create(s)
        PROVE  TypeOK'
    <3>1. RowTypes'
      BY <2>1
      DEF Create, TypeOK, RowTypes, rowVars, Statuses
    <3>2. FileTypes'
      BY <2>1
      DEF Create, TypeOK, FileTypes, fileVars
    <3> QED
      BY <2>1, <3>1, <3>2, Unchanged DEF Create, TypeOK, Fault, rowVars, fileVars, queueVars,
          workerVars, dispVars, sweepVars, clientVars, Others
  <2>2. ASSUME NEW c \in Clients, NEW op \in ClientOps, NEW s \in Schedules, ClientRead(c, op, s)
        PROVE  TypeOK'
    <3>1. RowTypes'
      BY <2>2, ReadRowTypes
      DEF ClientRead, TypeOK, RowTypes, rowVars, Actors
    <3>2. ClientTypes'
      BY <2>2
      DEF ClientRead, TypeOK, ClientTypes, ClientOps
    <3> QED
      BY <2>2, <3>1, <3>2, Unchanged DEF ClientRead, TypeOK, Fault, rowVars, fileVars, queueVars,
          workerVars, dispVars, sweepVars, clientVars, Others
  <2>3. ASSUME NEW c \in Clients, Reschedule(c)
        PROVE  TypeOK'
    <3>0. cjob[c] \in Schedules
      BY <2>3 DEF TypeOK, ClientTypes, Reschedule
    <3>1. RowTypes'
      BY <3>0, <2>3, TransitionTypes
      DEF Reschedule, TypeOK, RowTypes, Actors, Statuses, ClientDone
    <3>2. ClientTypes'
      BY <3>0, <2>3, ClientDoneTypes
      DEF Reschedule, TypeOK, ClientTypes, ClientDone
    <3> QED
      BY <2>3, <3>1, <3>2, Unchanged DEF Reschedule, TypeOK, Fault, rowVars, fileVars, queueVars,
          workerVars, dispVars, sweepVars, clientVars, Others, ClientDone
  <2>4. ASSUME NEW c \in Clients, Cancel(c)
        PROVE  TypeOK'
    <3>0. cjob[c] \in Schedules
      BY <2>4 DEF TypeOK, ClientTypes, Cancel
    <3>1. RowTypes'
      BY <3>0, <2>4, TransitionTypes
      DEF Cancel, TypeOK, RowTypes, Actors, Statuses, ClientDone
    <3>2. ClientTypes'
      BY <3>0, <2>4, ClientDoneTypes
      DEF Cancel, TypeOK, ClientTypes, ClientDone
    <3> QED
      BY <2>4, <3>1, <3>2, Unchanged DEF Cancel, TypeOK, Fault, rowVars, fileVars, queueVars,
          workerVars, dispVars, sweepVars, clientVars, Others, ClientDone
  <2>5. ASSUME NEW c \in Clients, Retry(c)
        PROVE  TypeOK'
    <3>0. cjob[c] \in Schedules
      BY <2>5 DEF TypeOK, ClientTypes, Retry
    <3>1. RowTypes'
      BY <3>0, <2>5, TransitionTypes
      DEF Retry, TypeOK, RowTypes, Actors, Statuses, ClientDone
    <3>2. ClientTypes'
      BY <3>0, <2>5, ClientDoneTypes
      DEF Retry, TypeOK, ClientTypes, ClientDone
    <3> QED
      BY <2>5, <3>1, <3>2, Unchanged DEF Retry, TypeOK, Fault, rowVars, fileVars, queueVars,
          workerVars, dispVars, sweepVars, clientVars, Others, ClientDone
  <2>6. ASSUME NEW c \in Clients, ClientConflict(c)
        PROVE  TypeOK'
    <3>0. cjob[c] \in Schedules
      BY <2>6 DEF TypeOK, ClientTypes, ClientConflict
    <3>1. RowTypes'
      BY <3>0, <2>6
      DEF ClientConflict, TypeOK, RowTypes, rowVars, ClientDone
    <3>2. ClientTypes'
      BY <3>0, <2>6, ClientDoneTypes
      DEF ClientConflict, TypeOK, ClientTypes, ClientDone
    <3> QED
      BY <2>6, <3>1, <3>2, Unchanged DEF ClientConflict, TypeOK, Fault, rowVars, fileVars, queueVars,
          workerVars, dispVars, sweepVars, clientVars, Others, ClientDone
  <2>7. ASSUME NEW s \in Schedules, BecomeDue(s)
        PROVE  TypeOK'
    <3>1. RowTypes'
      BY <2>7
      DEF BecomeDue, TypeOK, RowTypes, rowVars
    <3> QED
      BY <2>7, <3>1, Unchanged DEF BecomeDue, TypeOK, Fault, rowVars, fileVars, queueVars,
          workerVars, dispVars, sweepVars, clientVars, Others
  <2>8. ASSUME NEW s \in Schedules, LeaseExpires(s)
        PROVE  TypeOK'
    <3>1. RowTypes'
      BY <2>8
      DEF LeaseExpires, TypeOK, RowTypes, rowVars
    <3> QED
      BY <2>8, <3>1, Unchanged DEF LeaseExpires, TypeOK, Fault, rowVars, fileVars, queueVars,
          workerVars, dispVars, sweepVars, clientVars, Others
  <2>9. ASSUME NEW s \in Schedules, RetentionPasses(s)
        PROVE  TypeOK'
    <3>1. RowTypes'
      BY <2>9
      DEF RetentionPasses, TypeOK, RowTypes, rowVars
    <3> QED
      BY <2>9, <3>1, Unchanged DEF RetentionPasses, TypeOK, Fault, rowVars, fileVars, queueVars,
          workerVars, dispVars, sweepVars, clientVars, Others
  <2>10. ASSUME NEW s \in Schedules, ArtifactFault(s)
        PROVE  TypeOK'
    <3>1. FileTypes'
      BY <2>10
      DEF ArtifactFault, TypeOK, FileTypes, fileVars
    <3> QED
      BY <2>10, <3>1, Unchanged DEF ArtifactFault, TypeOK, Fault, rowVars, fileVars, queueVars,
          workerVars, dispVars, sweepVars, clientVars, Others
  <2>11. ASSUME NEW d \in Dispatchers, DispatchScan(d)
        PROVE  TypeOK'
    <3>1. RowTypes'
      BY <2>11
      DEF DispatchScan, TypeOK, RowTypes, rowVars, Actors
    <3>2. DispatcherTypes'
      BY <2>11
      DEF DispatchScan, TypeOK, DispatcherTypes, dispVars, Candidates, DispatcherPcs
    <3> QED
      BY <2>11, <3>1, <3>2, Unchanged DEF DispatchScan, TypeOK, Fault, rowVars, fileVars, queueVars,
          workerVars, dispVars, sweepVars, clientVars, Others
  <2>12. ASSUME NEW d \in Dispatchers, NEW s \in Schedules, Claim(d, s)
        PROVE  TypeOK'
    <3>1. RowTypes'
      BY <2>12, TransitionTypes
      DEF Claim, TypeOK, RowTypes, Actors, Statuses
    <3>2. DispatcherTypes'
      BY <2>12
      DEF Claim, TypeOK, DispatcherTypes, dispVars, DispatcherPcs
    <3> QED
      BY <2>12, <3>1, <3>2, Unchanged DEF Claim, TypeOK, Fault, rowVars, fileVars, queueVars,
          workerVars, dispVars, sweepVars, clientVars, Others
  <2>13. ASSUME NEW d \in Dispatchers, NEW s \in Schedules, ClaimConflict(d, s)
        PROVE  TypeOK'
    <3>1. DispatcherTypes'
      BY <2>13, NextCandidateTypes
      DEF ClaimConflict, TypeOK, DispatcherTypes, dispVars
    <3> QED
      BY <2>13, <3>1, Unchanged DEF ClaimConflict, TypeOK, Fault, rowVars, fileVars, queueVars,
          workerVars, dispVars, sweepVars, clientVars, Others
  <2>14. ASSUME NEW d \in Dispatchers, Push(d)
        PROVE  TypeOK'
    <3>0. dcur[d] \in Schedules
      BY <2>14 DEF TypeOK, DispatcherTypes, Push
    <3>1. QueueTypes'
      BY <3>0, <2>14, EnqueueTypes, TriesAssumption
      DEF Push, TypeOK, QueueTypes, queueVars
    <3>2. DispatcherTypes'
      BY <3>0, <2>14, NextCandidateTypes
      DEF Push, TypeOK, DispatcherTypes, dispVars
    <3> QED
      BY <2>14, <3>1, <3>2, Unchanged DEF Push, TypeOK, Fault, rowVars, fileVars, queueVars,
          workerVars, dispVars, sweepVars, clientVars, Others
  <2>15. ASSUME NEW d \in Dispatchers, ReleaseRead(d)
        PROVE  TypeOK'
    <3>0. dcur[d] \in Schedules
      BY <2>15 DEF TypeOK, DispatcherTypes, ReleaseRead
    <3>1. RowTypes'
      BY <3>0, <2>15, ReadRowTypes
      DEF ReleaseRead, TypeOK, RowTypes, rowVars, Actors
    <3>2. DispatcherTypes'
      BY <3>0, <2>15
      DEF ReleaseRead, TypeOK, DispatcherTypes, dispVars, DispatcherPcs
    <3> QED
      BY <2>15, <3>1, <3>2, Unchanged DEF ReleaseRead, TypeOK, Fault, rowVars, fileVars, queueVars,
          workerVars, dispVars, sweepVars, clientVars, Others
  <2>16. ASSUME NEW d \in Dispatchers, ReleaseClaim(d)
        PROVE  TypeOK'
    <3>0. dcur[d] \in Schedules
      BY <2>16 DEF TypeOK, DispatcherTypes, ReleaseClaim
    <3>1. RowTypes'
      BY <3>0, <2>16, TransitionTypes
      DEF ReleaseClaim, TypeOK, RowTypes, Actors, Statuses
    <3>2. DispatcherTypes'
      BY <3>0, <2>16, NextCandidateTypes
      DEF ReleaseClaim, TypeOK, DispatcherTypes, dispVars
    <3> QED
      BY <2>16, <3>1, <3>2, Unchanged DEF ReleaseClaim, TypeOK, Fault, rowVars, fileVars, queueVars,
          workerVars, dispVars, sweepVars, clientVars, Others
  <2>17. ASSUME NEW d \in Dispatchers, ReleaseSkipped(d)
        PROVE  TypeOK'
    <3>1. DispatcherTypes'
      BY <2>17, NextCandidateTypes
      DEF ReleaseSkipped, TypeOK, DispatcherTypes, dispVars
    <3> QED
      BY <2>17, <3>1, Unchanged DEF ReleaseSkipped, TypeOK, Fault, rowVars, fileVars, queueVars,
          workerVars, dispVars, sweepVars, clientVars, Others
  <2>18. ASSUME NEW d \in Dispatchers, PushFails(d)
        PROVE  TypeOK'
    <3>0. dcur[d] \in Schedules
      BY <2>18 DEF TypeOK, DispatcherTypes, PushFails
    <3>1. QueueTypes'
      <4>1. CASE Enqueue(dcur[d], 0)
        <5>1. QueueTypes /\ 0 \in 0..Tries
          BY TriesAssumption DEF TypeOK
        <5>2. queue' \in [Schedules -> [0..Tries -> Nat]]
          BY <3>0, <4>1, <5>1, EnqueueTypes
        <5> QED
          BY <2>18, <5>1, <5>2 DEF PushFails, QueueTypes
      <4>2. CASE UNCHANGED queue
        BY <2>18, <4>2 DEF PushFails, TypeOK, QueueTypes
      <4> QED
        BY <2>18, <4>1, <4>2 DEF PushFails
    <3>2. DispatcherTypes'
      BY <3>0, <2>18
      DEF PushFails, TypeOK, DispatcherTypes, dispVars, DispatcherPcs
    <3> QED
      BY <2>18, <3>1, <3>2, Unchanged DEF PushFails, TypeOK, Fault, rowVars, fileVars, queueVars,
          workerVars, dispVars, sweepVars, clientVars, Others
  <2>19. ASSUME NEW d \in Dispatchers, CrashDispatcher(d)
        PROVE  TypeOK'
    <3>1. RowTypes'
      BY <2>19
      DEF CrashDispatcher, TypeOK, RowTypes, rowVars
    <3>2. DispatcherTypes'
      BY <2>19
      DEF CrashDispatcher, TypeOK, DispatcherTypes, dispVars, DispatcherPcs
    <3> QED
      BY <2>19, <3>1, <3>2, Unchanged DEF CrashDispatcher, TypeOK, Fault, rowVars, fileVars, queueVars,
          workerVars, dispVars, sweepVars, clientVars, Others
  <2>20. ASSUME RecoverScan
        PROVE  TypeOK'
    <3>1. RowTypes'
      BY <2>20
      DEF RecoverScan, TypeOK, RowTypes, rowVars, Actors
    <3>2. SweepTypes'
      BY <2>20
      DEF RecoverScan, TypeOK, SweepTypes, sweepVars, Expired
    <3> QED
      BY <2>20, <3>1, <3>2, Unchanged DEF RecoverScan, TypeOK, Fault, rowVars, fileVars, queueVars,
          workerVars, dispVars, sweepVars, clientVars, Others
  <2>21. ASSUME NEW s \in Schedules, Recover(s)
        PROVE  TypeOK'
    <3>1. RowTypes'
      BY <2>21, TransitionTypes
      DEF Recover, TypeOK, RowTypes, Actors, Statuses
    <3>2. SweepTypes'
      BY <2>21
      DEF Recover, TypeOK, SweepTypes, sweepVars
    <3> QED
      BY <2>21, <3>1, <3>2, Unchanged DEF Recover, TypeOK, Fault, rowVars, fileVars, queueVars,
          workerVars, dispVars, sweepVars, clientVars, Others
  <2>22. ASSUME NEW s \in Schedules, RecoverConflict(s)
        PROVE  TypeOK'
    <3>1. SweepTypes'
      BY <2>22
      DEF RecoverConflict, TypeOK, SweepTypes, sweepVars
    <3> QED
      BY <2>22, <3>1, Unchanged DEF RecoverConflict, TypeOK, Fault, rowVars, fileVars, queueVars,
          workerVars, dispVars, sweepVars, clientVars, Others
  <2>23. ASSUME SweepScan
        PROVE  TypeOK'
    <3>1. SweepTypes'
      BY <2>23
      DEF SweepScan, TypeOK, SweepTypes, sweepVars
    <3> QED
      BY <2>23, <3>1, Unchanged DEF SweepScan, TypeOK, Fault, rowVars, fileVars, queueVars,
          workerVars, dispVars, sweepVars, clientVars, Others
  <2>24. ASSUME NEW s \in Schedules, SweepFile(s)
        PROVE  TypeOK'
    <3>1. FileTypes'
      BY <2>24
      DEF SweepFile, TypeOK, FileTypes, fileVars
    <3>2. SweepTypes'
      BY <2>24
      DEF SweepFile, TypeOK, SweepTypes, sweepVars
    <3> QED
      BY <2>24, <3>1, <3>2, Unchanged DEF SweepFile, TypeOK, Fault, rowVars, fileVars, queueVars,
          workerVars, dispVars, sweepVars, clientVars, Others
  <2>25. ASSUME NEW s \in Schedules, SweepRow(s)
        PROVE  TypeOK'
    <3>1. RowTypes'
      BY <2>25
      DEF SweepRow, TypeOK, RowTypes, rowVars
    <3>2. SweepTypes'
      BY <2>25
      DEF SweepRow, TypeOK, SweepTypes, sweepVars
    <3> QED
      BY <2>25, <3>1, <3>2, Unchanged DEF SweepRow, TypeOK, Fault, rowVars, fileVars, queueVars,
          workerVars, dispVars, sweepVars, clientVars, Others
  <2>26. ASSUME NEW w \in Workers, NEW s \in Schedules, NEW a \in 0..Tries, Pop(w, s, a)
        PROVE  TypeOK'
    <3>1. QueueTypes'
      BY <2>26, DequeueTypes
      DEF Pop, TypeOK, QueueTypes, queueVars
    <3>2. WorkerTypes'
      BY <2>26, TriesAssumption
      DEF Pop, TypeOK, WorkerTypes, WorkerPcs, Goto
    <3> QED
      BY <2>26, <3>1, <3>2, Unchanged DEF Pop, TypeOK, Fault, rowVars, fileVars, queueVars,
          workerVars, dispVars, sweepVars, clientVars, Others
  <2>27. ASSUME NEW w \in Workers, NEW s \in Schedules, PopExhausted(w, s)
        PROVE  TypeOK'
    <3>1. QueueTypes'
      BY <2>27, DequeueTypes, TriesAssumption
      DEF PopExhausted, TypeOK, QueueTypes, queueVars
    <3>2. WorkerTypes'
      BY <2>27
      DEF PopExhausted, TypeOK, WorkerTypes, WorkerPcs, Goto
    <3> QED
      BY <2>27, <3>1, <3>2, Unchanged DEF PopExhausted, TypeOK, Fault, rowVars, fileVars, queueVars,
          workerVars, dispVars, sweepVars, clientVars, Others
  <2>28. ASSUME NEW w \in Workers, TakeOverlapLock(w)
        PROVE  TypeOK'
    <3>0. job[w] \in Schedules
      BY <2>28 DEF TypeOK, WorkerTypes, TakeOverlapLock
    <3>1. QueueTypes'
      BY <3>0, <2>28
      DEF TakeOverlapLock, TypeOK, QueueTypes, WorkerTypes, queueVars
    <3>2. WorkerTypes'
      BY <3>0, <2>28, StepTypes
      DEF TakeOverlapLock, TypeOK, WorkerTypes, WorkerPcs
    <3> QED
      BY <2>28, <3>1, <3>2, Unchanged DEF TakeOverlapLock, TypeOK, Fault, rowVars, fileVars, queueVars,
          workerVars, dispVars, sweepVars, clientVars, Others
  <2>29. ASSUME NEW w \in Workers, Overlapped(w)
        PROVE  TypeOK'
    <3>0. job[w] \in Schedules
      BY <2>29 DEF TypeOK, WorkerTypes, Overlapped
    <3>1. QueueTypes'
      BY <3>0, <2>29, EnqueueTypes
      DEF Overlapped, TypeOK, QueueTypes, WorkerTypes, queueVars
    <3>2. WorkerTypes'
      BY <3>0, <2>29, IdleTypes
      DEF Overlapped, TypeOK, WorkerTypes
    <3> QED
      BY <2>29, <3>1, <3>2, Unchanged DEF Overlapped, TypeOK, Fault, rowVars, fileVars, queueVars,
          workerVars, dispVars, sweepVars, clientVars, Others
  <2>30. ASSUME NEW w \in Workers, Read(w)
        PROVE  TypeOK'
    <3>0. job[w] \in Schedules
      BY <2>30 DEF TypeOK, WorkerTypes, Read
    <3>1. RowTypes'
      BY <3>0, <2>30, ReadRowTypes
      DEF Read, TypeOK, RowTypes, WorkerTypes, rowVars, Actors
    <3>2. WorkerTypes'
      BY <3>0, <2>30, StepTypes
      DEF Read, TypeOK, WorkerTypes, WorkerPcs
    <3> QED
      BY <2>30, <3>1, <3>2, Unchanged DEF Read, TypeOK, Fault, rowVars, fileVars, queueVars,
          workerVars, dispVars, sweepVars, clientVars, Others
  <2>31. ASSUME NEW w \in Workers, ReadSettled(w)
        PROVE  TypeOK'
    <3>0. job[w] \in Schedules
      BY <2>31 DEF TypeOK, WorkerTypes, ReadSettled
    <3>1. WorkerTypes'
      BY <3>0, <2>31, StepTypes
      DEF ReadSettled, TypeOK, WorkerTypes, WorkerPcs
    <3> QED
      BY <2>31, <3>1, Unchanged DEF ReadSettled, TypeOK, Fault, rowVars, fileVars, queueVars,
          workerVars, dispVars, sweepVars, clientVars, Others
  <2>32. ASSUME NEW w \in Workers, Begin(w)
        PROVE  TypeOK'
    <3>0. job[w] \in Schedules
      BY <2>32 DEF TypeOK, WorkerTypes, Begin
    <3>1. RowTypes'
      BY <3>0, <2>32, TransitionTypes
      DEF Begin, TypeOK, RowTypes, WorkerTypes, Actors, Statuses
    <3>2. WorkerTypes'
      BY <3>0, <2>32, StepTypes
      DEF Begin, TypeOK, WorkerTypes, WorkerPcs
    <3> QED
      BY <2>32, <3>1, <3>2, Unchanged DEF Begin, TypeOK, Fault, rowVars, fileVars, queueVars,
          workerVars, dispVars, sweepVars, clientVars, Others
  <2>33. ASSUME NEW w \in Workers, Begun(w)
        PROVE  TypeOK'
    <3>0. job[w] \in Schedules
      BY <2>33 DEF TypeOK, WorkerTypes, Begun
    <3>1. RowTypes'
      BY <3>0, <2>33, ReadRowTypes
      DEF Begun, TypeOK, RowTypes, WorkerTypes, rowVars, Actors
    <3>2. WorkerTypes'
      BY <3>0, <2>33, StepTypes
      DEF Begun, TypeOK, WorkerTypes, WorkerPcs
    <3> QED
      BY <2>33, <3>1, <3>2, Unchanged DEF Begun, TypeOK, Fault, rowVars, fileVars, queueVars,
          workerVars, dispVars, sweepVars, clientVars, Others
  <2>34. ASSUME NEW w \in Workers, BeginConflict(w)
        PROVE  TypeOK'
    <3>0. job[w] \in Schedules
      BY <2>34 DEF TypeOK, WorkerTypes, BeginConflict
    <3>1. WorkerTypes'
      BY <3>0, <2>34, StepTypes
      DEF BeginConflict, TypeOK, WorkerTypes, WorkerPcs
    <3> QED
      BY <2>34, <3>1, Unchanged DEF BeginConflict, TypeOK, Fault, rowVars, fileVars, queueVars,
          workerVars, dispVars, sweepVars, clientVars, Others
  <2>35. ASSUME NEW w \in Workers, NEW v \in Refusals, CheckFails(w, v)
        PROVE  TypeOK'
    <3>1. WorkerTypes'
      BY <2>35
      DEF CheckFails, TypeOK, WorkerTypes, WorkerPcs, Goto
    <3>2. faults' \in Nat
      BY <2>35 DEF CheckFails, Unlike, TypeOK, Fault
    <3> QED
      BY <2>35, <3>1, <3>2, Unchanged DEF CheckFails, TypeOK, rowVars, fileVars, queueVars,
          workerVars, dispVars, sweepVars, clientVars, Others
  <2>36. ASSUME NEW w \in Workers, CheckPasses(w)
        PROVE  TypeOK'
    <3>0. job[w] \in Schedules
      BY <2>36 DEF TypeOK, WorkerTypes, CheckPasses
    <3>1. WorkerTypes'
      BY <3>0, <2>36, StepTypes
      DEF CheckPasses, TypeOK, WorkerTypes, WorkerPcs
    <3> QED
      BY <2>36, <3>1, Unchanged DEF CheckPasses, TypeOK, Fault, rowVars, fileVars, queueVars,
          workerVars, dispVars, sweepVars, clientVars, Others
  <2>37. ASSUME NEW w \in Workers, Refuse(w)
        PROVE  TypeOK'
    <3>0. job[w] \in Schedules
      BY <2>37 DEF TypeOK, WorkerTypes, Refuse
    <3>1. RowTypes'
      BY <3>0, <2>37, TransitionTypes
      DEF Refuse, TypeOK, RowTypes, WorkerTypes, Actors, Statuses, FailureCodes
    <3>2. WorkerTypes'
      BY <3>0, <2>37
      DEF Refuse, TypeOK, WorkerTypes, WorkerPcs, Goto, Refused
    <3> QED
      BY <2>37, <3>1, <3>2, Unchanged DEF Refuse, TypeOK, Fault, rowVars, fileVars, queueVars,
          workerVars, dispVars, sweepVars, clientVars, Others
  <2>38. ASSUME NEW w \in Workers, RefuseConflict(w)
        PROVE  TypeOK'
    <3>0. job[w] \in Schedules
      BY <2>38 DEF TypeOK, WorkerTypes, RefuseConflict
    <3>1. WorkerTypes'
      BY <3>0, <2>38
      DEF RefuseConflict, TypeOK, WorkerTypes, WorkerPcs, Goto, Refused
    <3> QED
      BY <2>38, <3>1, Unchanged DEF RefuseConflict, TypeOK, Fault, rowVars, fileVars, queueVars,
          workerVars, dispVars, sweepVars, clientVars, Others
  <2>39. ASSUME NEW w \in Workers, Move(w)
        PROVE  TypeOK'
    <3>0. job[w] \in Schedules
      BY <2>39 DEF TypeOK, WorkerTypes, Move
    <3>1. FileTypes'
      BY <3>0, <2>39
      DEF Move, TypeOK, FileTypes, WorkerTypes, fileVars
    <3>2. WorkerTypes'
      BY <3>0, <2>39, StepTypes
      DEF Move, TypeOK, WorkerTypes, WorkerPcs
    <3> QED
      BY <2>39, <3>1, <3>2, Unchanged DEF Move, TypeOK, Fault, rowVars, fileVars, queueVars,
          workerVars, dispVars, sweepVars, clientVars, Others
  <2>40. ASSUME NEW w \in Workers, HandleThrows(w)
        PROVE  TypeOK'
    <3>0. job[w] \in Schedules
      BY <2>40 DEF TypeOK, WorkerTypes, HandleThrows
    <3>1. WorkerTypes'
      BY <3>0, <2>40
      DEF HandleThrows, TypeOK, WorkerTypes, WorkerPcs, Goto
    <3> QED
      BY <2>40, <3>1, Unchanged DEF HandleThrows, TypeOK, Fault, rowVars, fileVars, queueVars,
          workerVars, dispVars, sweepVars, clientVars, Others
  <2>41. ASSUME NEW w \in Workers, MoveUnnoticed(w)
        PROVE  TypeOK'
    <3>0. job[w] \in Schedules
      BY <2>41 DEF TypeOK, WorkerTypes, MoveUnnoticed
    <3>1. WorkerTypes'
      BY <3>0, <2>41, StepTypes
      DEF MoveUnnoticed, TypeOK, WorkerTypes, WorkerPcs
    <3> QED
      BY <2>41, <3>1, Unchanged DEF MoveUnnoticed, TypeOK, Fault, rowVars, fileVars, queueVars,
          workerVars, dispVars, sweepVars, clientVars, Others
  <2>42. ASSUME NEW w \in Workers, Commit(w)
        PROVE  TypeOK'
    <3>0. job[w] \in Schedules
      BY <2>42 DEF TypeOK, WorkerTypes, Commit
    <3>1. RowTypes'
      BY <3>0, <2>42, TransitionTypes
      DEF Commit, TypeOK, RowTypes, WorkerTypes, Actors, Statuses
    <3>2. FileTypes'
      BY <3>0, <2>42
      DEF Commit, TypeOK, FileTypes, WorkerTypes, fileVars
    <3>3. WorkerTypes'
      BY <3>0, <2>42, StepTypes
      DEF Commit, TypeOK, WorkerTypes, WorkerPcs
    <3> QED
      BY <2>42, <3>1, <3>2, <3>3, Unchanged DEF Commit, TypeOK, Fault, rowVars, fileVars, queueVars,
          workerVars, dispVars, sweepVars, clientVars, Others
  <2>43. ASSUME NEW w \in Workers, Rollback(w)
        PROVE  TypeOK'
    <3>0. job[w] \in Schedules
      BY <2>43 DEF TypeOK, WorkerTypes, Rollback
    <3>1. WorkerTypes'
      BY <3>0, <2>43, StepTypes
      DEF Rollback, TypeOK, WorkerTypes, WorkerPcs
    <3> QED
      BY <2>43, <3>1, Unchanged DEF Rollback, TypeOK, Fault, rowVars, fileVars, queueVars,
          workerVars, dispVars, sweepVars, clientVars, Others
  <2>44. ASSUME NEW w \in Workers, Throw(w), ThrowRequeued(w)
        PROVE  TypeOK'
    <3>0. job[w] \in Schedules
      BY <2>44 DEF TypeOK, WorkerTypes, Throw, ThrowRequeued
    <3>1. RowTypes'
      BY <3>0, <2>44, ForgetTypes
      DEF Throw, ThrowRequeued, TypeOK, RowTypes, WorkerTypes, rowVars
    <3>2. QueueTypes'
      BY <3>0, <2>44, EnqueueTypes, UnlockTypes
      DEF Throw, ThrowRequeued, TypeOK, QueueTypes, WorkerTypes, queueVars
    <3>3. WorkerTypes'
      BY <3>0, <2>44, IdleTypes
      DEF Throw, ThrowRequeued, TypeOK, WorkerTypes
    <3> QED
      BY <2>44, <3>1, <3>2, <3>3, Unchanged DEF Throw, ThrowRequeued, TypeOK, Fault, rowVars, fileVars, queueVars,
          workerVars, dispVars, sweepVars, clientVars, Others
  <2>45. ASSUME NEW w \in Workers, Throw(w), ThrowLast(w)
        PROVE  TypeOK'
    <3>0. job[w] \in Schedules
      BY <2>45 DEF TypeOK, WorkerTypes, Throw, ThrowLast
    <3>1. RowTypes'
      BY <3>0, <2>45, ForgetTypes
      DEF Throw, ThrowLast, TypeOK, RowTypes, WorkerTypes, rowVars
    <3>2. QueueTypes'
      BY <3>0, <2>45, UnlockTypes
      DEF Throw, ThrowLast, TypeOK, QueueTypes, WorkerTypes, queueVars
    <3>3. WorkerTypes'
      BY <3>0, <2>45
      DEF Throw, ThrowLast, TypeOK, WorkerTypes, WorkerPcs, Goto
    <3> QED
      BY <2>45, <3>1, <3>2, <3>3, Unchanged DEF Throw, ThrowLast, TypeOK, Fault, rowVars, fileVars, queueVars,
          workerVars, dispVars, sweepVars, clientVars, Others
  <2>46. ASSUME NEW w \in Workers, Finish(w)
        PROVE  TypeOK'
    <3>0. job[w] \in Schedules
      BY <2>46 DEF TypeOK, WorkerTypes, Finish
    <3>1. RowTypes'
      BY <3>0, <2>46, ForgetTypes
      DEF Finish, TypeOK, RowTypes, WorkerTypes, rowVars
    <3>2. QueueTypes'
      BY <3>0, <2>46, UnlockTypes
      DEF Finish, TypeOK, QueueTypes, WorkerTypes, queueVars
    <3>3. WorkerTypes'
      BY <3>0, <2>46, IdleTypes
      DEF Finish, TypeOK, WorkerTypes
    <3> QED
      BY <2>46, <3>1, <3>2, <3>3, Unchanged DEF Finish, TypeOK, Fault, rowVars, fileVars, queueVars,
          workerVars, dispVars, sweepVars, clientVars, Others
  <2>47. ASSUME NEW w \in Workers, FailedRead(w)
        PROVE  TypeOK'
    <3>0. job[w] \in Schedules
      BY <2>47 DEF TypeOK, WorkerTypes, FailedRead
    <3>1. RowTypes'
      BY <3>0, <2>47, ReadRowTypes
      DEF FailedRead, TypeOK, RowTypes, WorkerTypes, rowVars, Actors
    <3>2. WorkerTypes'
      BY <3>0, <2>47, StepTypes
      DEF FailedRead, TypeOK, WorkerTypes, WorkerPcs
    <3> QED
      BY <2>47, <3>1, <3>2, Unchanged DEF FailedRead, TypeOK, Fault, rowVars, fileVars, queueVars,
          workerVars, dispVars, sweepVars, clientVars, Others
  <2>48. ASSUME NEW w \in Workers, FailedSettled(w)
        PROVE  TypeOK'
    <3>0. job[w] \in Schedules
      BY <2>48 DEF TypeOK, WorkerTypes, FailedSettled
    <3>1. WorkerTypes'
      BY <3>0, <2>48, IdleTypes
      DEF FailedSettled, TypeOK, WorkerTypes
    <3> QED
      BY <2>48, <3>1, Unchanged DEF FailedSettled, TypeOK, Fault, rowVars, fileVars, queueVars,
          workerVars, dispVars, sweepVars, clientVars, Others
  <2>49. ASSUME NEW w \in Workers, MarkFailed(w)
        PROVE  TypeOK'
    <3>0. job[w] \in Schedules
      BY <2>49 DEF TypeOK, WorkerTypes, MarkFailed
    <3>1. RowTypes'
      <4>1. Transition(w, job[w], status[job[w]], "failed", {})
        BY <2>49 DEF MarkFailed
      <4>2. w \in Actors /\ "failed" \in Statuses /\ RowTypes
        BY DEF Actors, Statuses, TypeOK
      <4>3. /\ status' \in [Schedules -> Statuses \cup {"absent", "deleted"}]
            /\ fresh' \in [Schedules -> SUBSET Actors]
            /\ aged' \in [Schedules -> BOOLEAN]
        BY <3>0, <4>1, <4>2 DEF Transition, RowTypes
      <4> QED
        BY <2>49, <3>0, <4>3, <4>2 DEF MarkFailed, RowTypes, FailureCodes
    <3>2. WorkerTypes'
      BY <3>0, <2>49, IdleTypes
      DEF MarkFailed, TypeOK, WorkerTypes
    <3> QED
      BY <2>49, <3>1, <3>2, Unchanged DEF MarkFailed, TypeOK, Fault, rowVars, fileVars, queueVars,
          workerVars, dispVars, sweepVars, clientVars, Others
  <2>50. ASSUME NEW w \in Workers, MarkIgnored(w)
        PROVE  TypeOK'
    <3>0. job[w] \in Schedules
      BY <2>50 DEF TypeOK, WorkerTypes, MarkIgnored
    <3>1. RowTypes'
      BY <3>0, <2>50, ForgetTypes
      DEF MarkIgnored, TypeOK, RowTypes, WorkerTypes, rowVars
    <3>2. WorkerTypes'
      BY <3>0, <2>50, IdleTypes
      DEF MarkIgnored, TypeOK, WorkerTypes
    <3> QED
      BY <2>50, <3>1, <3>2, Unchanged DEF MarkIgnored, TypeOK, Fault, rowVars, fileVars, queueVars,
          workerVars, dispVars, sweepVars, clientVars, Others
  <2>51. ASSUME NEW w \in Workers, Redeliver(w)
        PROVE  TypeOK'
    <3>0. job[w] \in Schedules
      BY <2>51 DEF TypeOK, WorkerTypes, Redeliver
    <3>1. QueueTypes'
      BY <3>0, <2>51, EnqueueTypes
      DEF Redeliver, TypeOK, QueueTypes, WorkerTypes, queueVars
    <3>2. WorkerTypes'
      BY <3>0, <2>51
      DEF Redeliver, TypeOK, WorkerTypes
    <3> QED
      BY <2>51, <3>1, <3>2, Unchanged DEF Redeliver, TypeOK, Fault, rowVars, fileVars, queueVars,
          workerVars, dispVars, sweepVars, clientVars, Others
  <2>52. ASSUME NEW w \in Workers, Crash(w)
        PROVE  TypeOK'
    <3>0. job[w] \in Schedules
      BY <2>52 DEF TypeOK, WorkerTypes, Crash
    <3>1. RowTypes'
      BY <3>0, <2>52, ForgetTypes
      DEF Crash, TypeOK, RowTypes, WorkerTypes, rowVars
    <3>2. QueueTypes'
      BY <3>0, <2>52, EnqueueTypes
      DEF Crash, TypeOK, QueueTypes, WorkerTypes, queueVars
    <3>3. WorkerTypes'
      BY <3>0, <2>52, IdleTypes
      DEF Crash, TypeOK, WorkerTypes
    <3> QED
      BY <2>52, <3>1, <3>2, <3>3, Unchanged DEF Crash, TypeOK, Fault, rowVars, fileVars, queueVars,
          workerVars, dispVars, sweepVars, clientVars, Others
  <2>53. CASE UNCHANGED vars
    BY <2>53, Unchanged DEF vars, TypeOK, rowVars, fileVars, queueVars, workerVars, dispVars,
       sweepVars, clientVars
  <2> QED
    BY ThrowEnds, <2>1, <2>2, <2>3, <2>4, <2>5, <2>6, <2>7, <2>8, <2>9, <2>10, <2>11,
       <2>12, <2>13, <2>14, <2>15, <2>16, <2>17, <2>18, <2>19, <2>20, <2>21,
       <2>22, <2>23, <2>24, <2>25, <2>26, <2>27, <2>28, <2>29, <2>30, <2>31,
       <2>32, <2>33, <2>34, <2>35, <2>36, <2>37, <2>38, <2>39, <2>40, <2>41,
       <2>42, <2>43, <2>44, <2>45, <2>46, <2>47, <2>48, <2>49, <2>50, <2>51,
       <2>52, <2>53
       DEF Next, ClientNext, TimeNext, DispatcherNext, DispatcherStep, WatchdogNext,
           SweepNext, WorkerNext, WorkerStep
<1> QED
  BY <1>1, <1>2, PTL DEF Spec

-----------------------------------------------------------------------------
(* The life of a row.                                                      *)

\* Nobody holds a current snapshot of a row that is not there.
Live == \A s \in Schedules : status[s] \in {"absent", "deleted"} => fresh[s] = {}

RowWrites ==
    \/ \E s \in Schedules : Create(s)
    \/ \E c \in Clients : Reschedule(c)
    \/ \E c \in Clients : Cancel(c)
    \/ \E c \in Clients : Retry(c)
    \/ \E s \in Schedules : LeaseExpires(s)
    \/ \E d \in Dispatchers, s \in Schedules : Claim(d, s)
    \/ \E d \in Dispatchers : ReleaseClaim(d)
    \/ \E s \in Schedules : Recover(s)
    \/ \E s \in Schedules : SweepRow(s)
    \/ \E w \in Workers : Begin(w)
    \/ \E w \in Workers : Refuse(w)
    \/ \E w \in Workers : Commit(w)
    \/ \E w \in Workers : MarkFailed(w)

\* Every other step leaves what the life of a row is made of alone.
LEMMA QuietSteps ==
    ASSUME [Next]_vars, ~RowWrites
    PROVE  UNCHANGED <<status, lease, recordId, records>>
<1>1. CASE ClientNext
  BY <1>1
  DEF ClientNext, RowWrites, ClientRead, ClientConflict, rowVars, fileVars,
      ClientDone
<1>2. CASE TimeNext
  BY <1>2
  DEF TimeNext, RowWrites, BecomeDue, RetentionPasses, ArtifactFault, rowVars,
      fileVars
<1>3. CASE DispatcherNext
  BY <1>3
  DEF DispatcherNext, DispatcherStep, RowWrites, DispatchScan, ClaimConflict,
      Push, ReleaseRead, ReleaseSkipped, PushFails, CrashDispatcher, rowVars,
      fileVars
<1>4. CASE WatchdogNext
  BY <1>4
  DEF WatchdogNext, RowWrites, RecoverScan, RecoverConflict, rowVars, fileVars
<1>5. CASE SweepNext
  BY <1>5
  DEF SweepNext, RowWrites, SweepScan, SweepFile, rowVars, fileVars
<1>6. CASE WorkerNext
  BY <1>6
  DEF WorkerNext, WorkerStep, RowWrites, Pop, PopExhausted, TakeOverlapLock,
      Overlapped, Read, ReadSettled, Begun, BeginConflict, CheckFails,
      CheckPasses, RefuseConflict, Move, HandleThrows, MoveUnnoticed,
      Rollback, Throw, ThrowRequeued, ThrowLast, Finish, FailedRead, FailedSettled,
      MarkIgnored, Redeliver, Crash, rowVars, fileVars
<1>7. CASE UNCHANGED vars
  BY <1>7 DEF vars, rowVars, fileVars
<1> QED
  BY <1>1, <1>2, <1>3, <1>4, <1>5, <1>6, <1>7 DEF Next

\* A snapshot is taken of a row in its life only, and every write ends the rest.
LEMMA LiveStep ==
    ASSUME TypeOK, Live, [Next]_vars
    PROVE  Live'
<1> SUFFICES ASSUME NEW s \in Schedules, status'[s] \in {"absent", "deleted"}
             PROVE  fresh'[s] = {}
  BY DEF Live
<1> USE DEF TypeOK, RowTypes
<1>1. ASSUME NEW r \in Schedules, Create(r)
      PROVE  fresh'[s] = {}
  BY <1>1 DEF Live, Create
<1>2. ASSUME NEW c \in Clients, Reschedule(c)
      PROVE  fresh'[s] = {}
  <2>1. cjob[c] \in Schedules
    BY <1>2 DEF ClientTypes, Reschedule
  <2> QED
    BY <2>1, <1>2 DEF Live, Reschedule, Transition, ClientDone
<1>3. ASSUME NEW c \in Clients, Cancel(c)
      PROVE  fresh'[s] = {}
  <2>1. cjob[c] \in Schedules
    BY <1>3 DEF ClientTypes, Cancel
  <2> QED
    BY <2>1, <1>3 DEF Live, Cancel, Transition, ClientDone
<1>4. ASSUME NEW c \in Clients, Retry(c)
      PROVE  fresh'[s] = {}
  <2>1. cjob[c] \in Schedules
    BY <1>4 DEF ClientTypes, Retry
  <2> QED
    BY <2>1, <1>4 DEF Live, Retry, Transition, ClientDone
<1>5. ASSUME NEW r \in Schedules, LeaseExpires(r)
      PROVE  fresh'[s] = {}
  BY <1>5 DEF Live, LeaseExpires
<1>6. ASSUME NEW d \in Dispatchers, NEW r \in Schedules, Claim(d, r)
      PROVE  fresh'[s] = {}
  BY <1>6 DEF Live, Claim, Transition
<1>7. ASSUME NEW d \in Dispatchers, ReleaseClaim(d)
      PROVE  fresh'[s] = {}
  <2>1. dcur[d] \in Schedules
    BY <1>7 DEF DispatcherTypes, ReleaseClaim
  <2> QED
    BY <2>1, <1>7 DEF Live, ReleaseClaim, Transition
<1>8. ASSUME NEW r \in Schedules, Recover(r)
      PROVE  fresh'[s] = {}
  BY <1>8 DEF Live, Recover, Transition
<1>9. ASSUME NEW r \in Schedules, SweepRow(r)
      PROVE  fresh'[s] = {}
  BY <1>9 DEF Live, SweepRow
<1>10. ASSUME NEW w \in Workers, Begin(w)
      PROVE  fresh'[s] = {}
  <2>1. job[w] \in Schedules
    BY <1>10 DEF WorkerTypes, Begin
  <2> QED
    BY <2>1, <1>10 DEF Live, Begin, Transition
<1>11. ASSUME NEW w \in Workers, Refuse(w)
      PROVE  fresh'[s] = {}
  <2>1. job[w] \in Schedules
    BY <1>11 DEF WorkerTypes, Refuse
  <2> QED
    BY <2>1, <1>11 DEF Live, Refuse, Transition
<1>12. ASSUME NEW w \in Workers, Commit(w)
      PROVE  fresh'[s] = {}
  <2>1. job[w] \in Schedules
    BY <1>12 DEF WorkerTypes, Commit
  <2> QED
    BY <2>1, <1>12 DEF Live, Commit, Transition
<1>13. ASSUME NEW w \in Workers, MarkFailed(w)
      PROVE  fresh'[s] = {}
  <2>1. job[w] \in Schedules
    BY <1>13 DEF WorkerTypes, MarkFailed
  <2> QED
    BY <2>1, <1>13 DEF Live, MarkFailed, Transition
<1>14. ASSUME ~RowWrites
      PROVE  fresh'[s] = {}
  <2>0. status'[s] = status[s] /\ fresh[s] = {}
    BY <1>14, QuietSteps DEF Live
  <2>1. CASE ClientNext
    BY <1>14, <2>0, <2>1
    DEF ClientNext, RowWrites, ClientRead, ClientConflict, rowVars,
        ClientDone, ReadRow, Offered, ClientOps
  <2>2. CASE TimeNext
    BY <1>14, <2>0, <2>2
    DEF TimeNext, RowWrites, BecomeDue, RetentionPasses, ArtifactFault,
        rowVars
  <2>3. CASE DispatcherNext
    <3>1. ASSUME NEW d \in Dispatchers, DispatchScan(d)
          PROVE  fresh'[s] = {}
      BY <2>0, <3>1 DEF DispatchScan, Candidates
    <3>2. ASSUME NEW d \in Dispatchers, NEW r \in Schedules, ClaimConflict(d, r)
          PROVE  fresh'[s] = {}
      BY <2>0, <3>2 DEF ClaimConflict, rowVars
    <3>3. ASSUME NEW d \in Dispatchers, Push(d)
          PROVE  fresh'[s] = {}
      BY <2>0, <3>3 DEF Push, rowVars
    <3>4. ASSUME NEW d \in Dispatchers, ReleaseRead(d)
          PROVE  fresh'[s] = {}
      BY <2>0, <3>4 DEF ReleaseRead, ReadRow, DispatcherTypes
    <3>5. ASSUME NEW d \in Dispatchers, ReleaseSkipped(d)
          PROVE  fresh'[s] = {}
      BY <2>0, <3>5 DEF ReleaseSkipped, rowVars
    <3>6. ASSUME NEW d \in Dispatchers, PushFails(d)
          PROVE  fresh'[s] = {}
      BY <2>0, <3>6 DEF PushFails, rowVars
    <3>7. ASSUME NEW d \in Dispatchers, CrashDispatcher(d)
          PROVE  fresh'[s] = {}
      BY <2>0, <3>7 DEF CrashDispatcher, rowVars
    <3> QED
      BY <1>14, <2>3, <3>1, <3>2, <3>3, <3>4, <3>5, <3>6, <3>7
      DEF DispatcherNext, DispatcherStep, RowWrites
  <2>4. CASE WatchdogNext
    BY <1>14, <2>0, <2>4
    DEF WatchdogNext, RowWrites, RecoverScan, RecoverConflict, rowVars,
        Expired
  <2>5. CASE SweepNext
    BY <1>14, <2>0, <2>5
    DEF SweepNext, RowWrites, SweepScan, SweepFile, rowVars
  <2>6. CASE WorkerNext
    <3>1. ASSUME NEW w \in Workers, Read(w)
          PROVE  fresh'[s] = {}
      BY <2>0, <3>1 DEF Read, ReadRow, Statuses, WorkerTypes
    <3>2. ASSUME NEW w \in Workers, Begun(w)
          PROVE  fresh'[s] = {}
      BY <2>0, <3>2 DEF Begun, ReadRow, Statuses, WorkerTypes
    <3>3. ASSUME NEW w \in Workers, FailedRead(w)
          PROVE  fresh'[s] = {}
      BY <2>0, <3>3 DEF FailedRead, ReadRow, Statuses, WorkerTypes
    <3>4. ASSUME NEW w \in Workers, Throw(w), ThrowRequeued(w)
          PROVE  fresh'[s] = {}
      BY <2>0, <3>4 DEF Throw, ThrowRequeued, Forget, WorkerTypes
    <3>5. ASSUME NEW w \in Workers, Throw(w), ThrowLast(w)
          PROVE  fresh'[s] = {}
      BY <2>0, <3>5 DEF Throw, ThrowLast, Forget, WorkerTypes
    <3>6. ASSUME NEW w \in Workers, Finish(w)
          PROVE  fresh'[s] = {}
      BY <2>0, <3>6 DEF Finish, Forget, WorkerTypes
    <3>7. ASSUME NEW w \in Workers, MarkIgnored(w)
          PROVE  fresh'[s] = {}
      BY <2>0, <3>7 DEF MarkIgnored, Forget, WorkerTypes
    <3>8. ASSUME NEW w \in Workers, Crash(w)
          PROVE  fresh'[s] = {}
      BY <2>0, <3>8 DEF Crash, Forget, WorkerTypes
    <3>9. CASE fresh' = fresh
      BY <2>0, <3>9
    <3> QED
      BY ThrowEnds, <1>14, <2>6, <3>1, <3>2, <3>3, <3>4, <3>5, <3>6, <3>7, <3>8, <3>9
      DEF WorkerNext, WorkerStep, RowWrites, rowVars, Pop, PopExhausted,
          TakeOverlapLock, Overlapped, ReadSettled, BeginConflict, CheckFails,
          CheckPasses, RefuseConflict, Move, HandleThrows, MoveUnnoticed,
          Rollback, FailedSettled, Redeliver
  <2>7. CASE UNCHANGED vars
    BY <2>0, <2>7 DEF vars, rowVars
  <2> QED
    BY <2>1, <2>2, <2>3, <2>4, <2>5, <2>6, <2>7 DEF Next
<1> QED
  BY <1>1, <1>2, <1>3, <1>4, <1>5, <1>6, <1>7, <1>8, <1>9, <1>10, <1>11,
       <1>12, <1>13, <1>14 DEF RowWrites

\* The sweep has read the rows it is about to delete.
SweptExist == \A s \in sweep \cup swept : status[s] /= "absent"

\* No step takes a row back to where it had not been inserted.
LEMMA SweptStep ==
    ASSUME TypeOK, SweptExist, [Next]_vars
    PROVE  SweptExist'
<1>1. ASSUME NEW s \in Schedules, status[s] /= "absent"
      PROVE  status'[s] /= "absent"
  <2>1. CASE RowWrites
    BY <1>1, <2>1 DEF TypeOK, RowTypes, Transition, ClientDone, RowWrites, Create, Reschedule, Cancel, Retry, LeaseExpires, Claim,
        ReleaseClaim, Recover, SweepRow, Begin, Refuse, Commit,
        MarkFailed
  <2>2. CASE ~RowWrites
    BY <1>1, <2>2, QuietSteps
  <2> QED
    BY <2>1, <2>2
<1>2. \A s \in sweep' \cup swept' :
        s \in Schedules /\ (s \in sweep \cup swept \/ status[s] /= "absent")
  <2>1. CASE ClientNext
    BY <2>1
    DEF ClientNext, Create, ClientRead, Reschedule, Cancel, Retry,
        ClientConflict, sweepVars, TypeOK, SweepTypes, ClientDone
  <2>2. CASE TimeNext
    BY <2>2
    DEF TimeNext, BecomeDue, LeaseExpires, RetentionPasses, ArtifactFault,
        sweepVars, TypeOK, SweepTypes
  <2>3. CASE DispatcherNext
    BY <2>3
    DEF DispatcherNext, DispatcherStep, DispatchScan, Claim, ClaimConflict,
        Push, ReleaseRead, ReleaseClaim, ReleaseSkipped, PushFails,
        CrashDispatcher, sweepVars, TypeOK, SweepTypes
  <2>4. CASE WatchdogNext
    BY <2>4
    DEF WatchdogNext, RecoverScan, Recover, RecoverConflict, sweepVars,
        TypeOK, SweepTypes
  <2>5. CASE SweepNext
    BY <2>5
    DEF SweepNext, SweepScan, SweepFile, SweepRow, sweepVars, TypeOK,
        SweepTypes
  <2>6. CASE WorkerNext
    BY <2>6
    DEF WorkerNext, WorkerStep, Pop, PopExhausted, TakeOverlapLock,
        Overlapped, Read, ReadSettled, Begin, Begun, BeginConflict,
        CheckFails, CheckPasses, Refuse, RefuseConflict, Move, HandleThrows,
        MoveUnnoticed, Commit, Rollback, Throw, ThrowRequeued, ThrowLast, Finish,
        FailedRead, FailedSettled, MarkFailed, MarkIgnored, Redeliver, Crash,
        sweepVars, TypeOK, SweepTypes, Others
  <2>7. CASE UNCHANGED vars
    BY <2>7 DEF vars, sweepVars, TypeOK, SweepTypes
  <2> QED
    BY <2>1, <2>2, <2>3, <2>4, <2>5, <2>6, <2>7 DEF Next
<1> QED
  BY <1>1, <1>2 DEF SweptExist

\* A row is read and written in its life only, and swept after its insert.
THEOREM SnapshotsOfLiveRows == Spec => [](TypeOK /\ Live /\ SweptExist)
<1>1. Init => Live /\ SweptExist
  BY DEF Init, Live, SweptExist
<1>2. TypeOK /\ Live /\ SweptExist /\ [Next]_vars => (Live /\ SweptExist)'
  BY LiveStep, SweptStep
<1> QED
  BY <1>1, <1>2, TypeCorrect, PTL DEF Spec

\* Every step of the pipeline is a step in the life of one row, or none.
LEMMA LifecycleStep ==
    ASSUME TypeOK, Live, SweptExist, [Next]_vars
    PROVE  [Lifecycle!Next]_(Lifecycle!vars)
<1> DEFINE leased == [s \in Schedules |-> lease[s] /= "null"]
<1> USE DEF TypeOK, RowTypes, FileTypes
<1>1. ASSUME NEW s \in Schedules, Create(s)
      PROVE  [Lifecycle!Next]_(Lifecycle!vars)
  <2>9. Lifecycle!Insert(s)
    BY <1>1
    DEF Create, fileVars, Lifecycle!Insert, Lifecycle!Turn,
        Lifecycle!Unrecorded
  <2> QED
    BY <2>9 DEF Lifecycle!Next
<1>2. ASSUME NEW c \in Clients, Reschedule(c)
      PROVE  [Lifecycle!Next]_(Lifecycle!vars)
  <2>1. cjob[c] \in Schedules
    BY <1>2 DEF ClientTypes, Reschedule
  <2> QED
    BY <2>1, <1>2 DEF Reschedule, Transition, ClientDone, fileVars, CanTransition, Lifecycle!vars
<1>3. ASSUME NEW c \in Clients, Cancel(c)
      PROVE  [Lifecycle!Next]_(Lifecycle!vars)
  <2>1. cjob[c] \in Schedules
    BY <1>3 DEF ClientTypes, Cancel
  <2>9. Lifecycle!Cancel(cjob[c])
    BY <2>1, <1>3
    DEF Cancel, Transition, ClientDone, fileVars, CanTransition,
        Lifecycle!Cancel, Lifecycle!Turn, Lifecycle!Unrecorded
  <2> QED
    BY <2>1, <2>9 DEF Lifecycle!Next
<1>4. ASSUME NEW c \in Clients, Retry(c)
      PROVE  [Lifecycle!Next]_(Lifecycle!vars)
  <2>1. cjob[c] \in Schedules
    BY <1>4 DEF ClientTypes, Retry
  <2>9. Lifecycle!Retry(cjob[c])
    BY <2>1, <1>4
    DEF Retry, Transition, ClientDone, fileVars, CanTransition,
        Lifecycle!Retry, Lifecycle!Turn, Lifecycle!Unrecorded
  <2> QED
    BY <2>1, <2>9 DEF Lifecycle!Next
<1>5. ASSUME NEW s \in Schedules, LeaseExpires(s)
      PROVE  [Lifecycle!Next]_(Lifecycle!vars)
  BY <1>5 DEF LeaseExpires, fileVars, Lifecycle!vars
<1>6. ASSUME NEW d \in Dispatchers, NEW s \in Schedules, Claim(d, s)
      PROVE  [Lifecycle!Next]_(Lifecycle!vars)
  <2>9. Lifecycle!Claim(s)
    BY <1>6
    DEF Claim, Transition, fileVars, CanTransition, Lifecycle!Claim,
        Lifecycle!Turn, Lifecycle!Unrecorded
  <2> QED
    BY <2>9 DEF Lifecycle!Next
<1>7. ASSUME NEW d \in Dispatchers, ReleaseClaim(d)
      PROVE  [Lifecycle!Next]_(Lifecycle!vars)
  <2>1. dcur[d] \in Schedules
    BY <1>7 DEF DispatcherTypes, ReleaseClaim
  <2>2. PICK s \in Schedules : s = dcur[d]
    BY <2>1
  <2>9. Lifecycle!Release(s)
    BY <2>2, <1>7
    DEF ReleaseClaim, Transition, fileVars, CanTransition, Lifecycle!Release,
        Lifecycle!Turn, Lifecycle!Unrecorded
  <2> QED
    BY <2>1, <2>9 DEF Lifecycle!Next
<1>8. ASSUME NEW s \in Schedules, Recover(s)
      PROVE  [Lifecycle!Next]_(Lifecycle!vars)
  <2>9. Lifecycle!Release(s)
    BY <1>8
    DEF Recover, Transition, fileVars, CanTransition, Lifecycle!Release,
        Lifecycle!Turn, Lifecycle!Unrecorded
  <2> QED
    BY <2>9 DEF Lifecycle!Next
<1>9. ASSUME NEW s \in Schedules, SweepRow(s)
      PROVE  [Lifecycle!Next]_(Lifecycle!vars)
  <2>9. Lifecycle!Delete(s)
    BY <1>9
    DEF SweptExist, SweepRow, fileVars, Lifecycle!Delete, Lifecycle!Unrecorded
  <2> QED
    BY <2>9 DEF Lifecycle!Next
<1>10. ASSUME NEW w \in Workers, Begin(w)
      PROVE  [Lifecycle!Next]_(Lifecycle!vars)
  <2>1. job[w] \in Schedules
    BY <1>10 DEF WorkerTypes, Begin
  <2>9. Lifecycle!Begin(job[w])
    BY <2>1, <1>10
    DEF Begin, Transition, fileVars, CanTransition, Lifecycle!Begin,
        Lifecycle!Turn, Lifecycle!Unrecorded
  <2> QED
    BY <2>1, <2>9 DEF Lifecycle!Next
<1>11. ASSUME NEW w \in Workers, Refuse(w)
      PROVE  [Lifecycle!Next]_(Lifecycle!vars)
  <2>1. job[w] \in Schedules
    BY <1>11 DEF WorkerTypes, Refuse
  <2>9. Lifecycle!Fail(job[w])
    BY <2>1, <1>11
    DEF Refuse, Transition, fileVars, CanTransition, Lifecycle!Fail,
        Lifecycle!Turn, Lifecycle!Unrecorded
  <2> QED
    BY <2>1, <2>9 DEF Lifecycle!Next
<1>12. ASSUME NEW w \in Workers, Commit(w)
      PROVE  [Lifecycle!Next]_(Lifecycle!vars)
  <2>1. job[w] \in Schedules
    BY <1>12 DEF WorkerTypes, Commit
  <2>9. Lifecycle!Complete(job[w])
    BY <2>1, <1>12
    DEF Commit, Transition, CanTransition, Lifecycle!Complete, Lifecycle!Turn
  <2> QED
    BY <2>1, <2>9 DEF Lifecycle!Next
<1>13. ASSUME NEW w \in Workers, MarkFailed(w)
      PROVE  [Lifecycle!Next]_(Lifecycle!vars)
  <2>1. job[w] \in Schedules
    BY <1>13 DEF WorkerTypes, MarkFailed
  <2>2. status[job[w]] = "processing"
    <3>1. status[job[w]] \in Statuses /\ "failed" \in LEGAL[status[job[w]]]
      BY <1>13, <2>1 DEF MarkFailed, Transition, CanTransition, Live
    <3> QED
      BY <3>1 DEF Statuses, LEGAL
  <2>9. Lifecycle!Fail(job[w])
    BY <2>1, <2>2, <1>13
    DEF MarkFailed, Transition, fileVars, CanTransition, Lifecycle!Fail,
        Lifecycle!Turn, Lifecycle!Unrecorded
  <2> QED
    BY <2>1, <2>9 DEF Lifecycle!Next
<1>14. CASE ~RowWrites
  BY <1>14, QuietSteps DEF Lifecycle!vars
<1> QED
  BY <1>1, <1>2, <1>3, <1>4, <1>5, <1>6, <1>7, <1>8, <1>9, <1>10, <1>11,
       <1>12, <1>13, <1>14 DEF RowWrites

\* The pipeline implements the life of a row: initial states map to initial
\* states and every step to a step or a stutter.
THEOREM LifecycleImplemented == Spec => ImplementsLifecycle
<1>1. Init => Lifecycle!Init
  <2> SUFFICES ASSUME Init PROVE Lifecycle!Init
    OBVIOUS
  <2>1. [s \in Schedules |-> lease[s] /= "null"] = [s \in Schedules |-> FALSE]
    BY DEF Init
  <2> QED
    BY <2>1 DEF Init, Lifecycle!Init
<1>2. TypeOK /\ Live /\ SweptExist /\ [Next]_vars => [Lifecycle!Next]_(Lifecycle!vars)
  BY LifecycleStep
<1> QED
  BY <1>1, <1>2, SnapshotsOfLiveRows, PTL DEF Spec, ImplementsLifecycle, Lifecycle!Spec

\* One step in the life of a row makes its record, and that step ends the life.
LEMMA OneRecordStep ==
    ASSUME TypeOK, AtMostOneRecord, [Lifecycle!Next]_(Lifecycle!vars)
    PROVE  AtMostOneRecord'
<1> USE DEF TypeOK, RowTypes, FileTypes, AtMostOneRecord
<1>1. ASSUME NEW s \in Schedules, Lifecycle!Complete(s)
      PROVE  AtMostOneRecord'
  <2>1. records[s] = 0 /\ status[s] = "processing"
    BY <1>1 DEF Lifecycle!Complete, Lifecycle!Turn
  <2> QED
    BY <1>1, <2>1 DEF Lifecycle!Complete, Lifecycle!Turn
<1>2. ASSUME NEW s \in Schedules, Lifecycle!Delete(s)
      PROVE  AtMostOneRecord'
  BY <1>2 DEF Lifecycle!Delete, Lifecycle!Unrecorded
<1>3. ASSUME NEW s \in Schedules, NEW from, NEW to, Lifecycle!Turn(s, from, to),
             Lifecycle!Unrecorded, from \notin {"completed", "deleted"}, to /= "completed"
      PROVE  AtMostOneRecord'
  BY <1>3 DEF Lifecycle!Turn, Lifecycle!Unrecorded
<1>4. CASE UNCHANGED Lifecycle!vars
  BY <1>4 DEF Lifecycle!vars
<1> QED
  BY <1>1, <1>2, <1>3, <1>4
  DEF Lifecycle!Next, Lifecycle!Insert, Lifecycle!Claim, Lifecycle!Release, Lifecycle!Cancel,
      Lifecycle!Begin, Lifecycle!Fail, Lifecycle!Retry

\* However often a schedule is claimed, delivered, redelivered, crashed and
\* retried, at most one archive record is made from it.
THEOREM OneRecord == Spec => []AtMostOneRecord
<1>1. Init => AtMostOneRecord
  BY DEF Init, AtMostOneRecord
<1>2. TypeOK /\ Live /\ SweptExist /\ AtMostOneRecord /\ [Next]_vars => AtMostOneRecord'
  BY LifecycleStep, OneRecordStep
<1> QED
  BY <1>1, <1>2, SnapshotsOfLiveRows, PTL DEF Spec

\* A claimed row has a lease, so the watchdog can find every claim.
THEOREM ClaimsAreLeased == Spec => []ClaimHasLease
<1>1. Init => ClaimHasLease
  BY DEF Init, ClaimHasLease
<1>2. ASSUME TypeOK, Live, SweptExist, ClaimHasLease, [Next]_vars
      PROVE  ClaimHasLease'
  <2> DEFINE leased == [s \in Schedules |-> lease[s] /= "null"]
  <2> SUFFICES ASSUME NEW s \in Schedules, status'[s] = "claimed"
               PROVE  leased'[s]
    BY DEF ClaimHasLease
  <2> USE DEF TypeOK, RowTypes, ClaimHasLease, Lifecycle!Unrecorded
  <2>1. [Lifecycle!Next]_(Lifecycle!vars)
    BY <1>2, LifecycleStep
  <2>2. ASSUME NEW r \in Schedules, Lifecycle!Claim(r)
        PROVE  leased'[s]
    BY <1>2, <2>2 DEF Lifecycle!Claim, Lifecycle!Turn
  <2>3. ASSUME NEW r \in Schedules, Lifecycle!Release(r)
        PROVE  leased'[s]
    BY <1>2, <2>3 DEF Lifecycle!Release, Lifecycle!Turn
  <2>4. ASSUME NEW r \in Schedules, NEW from, NEW to, Lifecycle!Turn(r, from, to),
               leased' = leased, to /= "claimed"
        PROVE  leased'[s]
    BY <1>2, <2>4 DEF Lifecycle!Turn
  <2>5. ASSUME NEW r \in Schedules, Lifecycle!Delete(r)
        PROVE  leased'[s]
    BY <1>2, <2>5 DEF Lifecycle!Delete
  <2>6. CASE UNCHANGED Lifecycle!vars
    BY <1>2, <2>6 DEF Lifecycle!vars
  <2> QED
    BY <2>1, <2>2, <2>3, <2>4, <2>5, <2>6
    DEF Lifecycle!Next, Lifecycle!Insert, Lifecycle!Cancel, Lifecycle!Begin, Lifecycle!Fail,
        Lifecycle!Retry, Lifecycle!Complete
<1> QED
  BY <1>1, <1>2, SnapshotsOfLiveRows, PTL DEF Spec

\* No retry, recovery, release or late worker takes a completed or cancelled
\* row back into the pipeline.
THEOREM SettledStaysSettled == Spec => SettledIsFinal
<1> DEFINE Final == \A s \in Schedules :
              status[s] \in {"completed", "cancelled", "deleted"} =>
                  status'[s] \in {status[s], "deleted"}
<1>1. ASSUME TypeOK, Live, SweptExist, [Next]_vars
      PROVE  Final
  <2> USE DEF TypeOK, RowTypes
  <2>1. [Lifecycle!Next]_(Lifecycle!vars)
    BY <1>1, LifecycleStep
  <2>2. ASSUME NEW r \in Schedules, NEW from, NEW to, Lifecycle!Turn(r, from, to),
               from \notin {"completed", "cancelled", "deleted"}
        PROVE  Final
    BY <1>1, <2>2 DEF Lifecycle!Turn
  <2>3. ASSUME NEW r \in Schedules, Lifecycle!Delete(r)
        PROVE  Final
    BY <1>1, <2>3 DEF Lifecycle!Delete
  <2>4. CASE UNCHANGED Lifecycle!vars
    BY <2>4 DEF Lifecycle!vars
  <2> QED
    BY <2>1, <2>2, <2>3, <2>4
    DEF Lifecycle!Next, Lifecycle!Insert, Lifecycle!Claim, Lifecycle!Release, Lifecycle!Cancel,
        Lifecycle!Begin, Lifecycle!Fail, Lifecycle!Retry, Lifecycle!Complete
<1>2. TypeOK /\ Live /\ SweptExist /\ [Next]_vars => [Final]_vars
  BY <1>1
<1> QED
  BY <1>2, SnapshotsOfLiveRows, PTL DEF Spec, SettledIsFinal

-----------------------------------------------------------------------------
(* The overlap lock.                                                       *)

\* A worker between taking the lock and giving it back is the one it names.
LockHeld == \A w \in Workers : Finalizing(w) => overlap[job[w]] = w

\* What keeps the lock with its holders: the step leaves the locks alone, and the
\* worker it moves does not enter the guarded part.
LEMMA LockKept ==
    ASSUME LockHeld, WorkerTypes, NEW v \in Workers, UNCHANGED overlap,
           \A w \in Workers \ {v} : pc'[w] = pc[w] /\ job'[w] = job[w],
           Finalizing(v)' => Finalizing(v) /\ job'[v] = job[v]
    PROVE  LockHeld'
BY DEF LockHeld, Finalizing

\* A worker that gives its lock back leaves the guarded part.
LEMMA LockReleased ==
    ASSUME LockHeld, QueueTypes, WorkerTypes, NEW v \in Workers, job[v] \in Schedules,
           \A w \in Workers \ {v} : pc'[w] = pc[w] /\ job'[w] = job[w],
           ~ Finalizing(v)',
           \E free : overlap' = [overlap EXCEPT ![job[v]] = IF @ = v THEN free ELSE @]
    PROVE  LockHeld'
<1> SUFFICES ASSUME NEW w \in Workers, Finalizing(w)'
             PROVE  overlap'[job'[w]] = w
  BY DEF LockHeld
<1>1. w /= v /\ Finalizing(w) /\ job'[w] = job[w]
  BY DEF Finalizing
<1>2. overlap[job[w]] = w
  BY <1>1 DEF LockHeld
<1>3. job[w] \in Schedules
  BY <1>1 DEF WorkerTypes, Finalizing
<1> QED
  BY <1>1, <1>2, <1>3 DEF QueueTypes

\* Each step keeps the locks of the workers in the guarded part.
LEMMA LockStep ==
    ASSUME TypeOK, LockHeld, [Next]_vars
    PROVE  LockHeld'
<1> USE DEF TypeOK
<1>1. ASSUME NEW w \in Workers, TakeOverlapLock(w)
      PROVE  LockHeld'
  <2>1. job[w] \in Schedules /\ overlap[job[w]] = "free"
    BY <1>1 DEF TakeOverlapLock, WorkerTypes
  <2>2. overlap'[job[w]] = w /\ pc' = [pc EXCEPT ![w] = "read"] /\ job' = job
    BY <1>1, <2>1 DEF TakeOverlapLock, Step, Goto, QueueTypes
  <2>3. ASSUME NEW v \in Workers, Finalizing(v)', v /= w
        PROVE  overlap'[job'[v]] = v
    <3>1. Finalizing(v) /\ overlap[job[v]] = v
      BY <2>2, <2>3 DEF LockHeld, Finalizing, WorkerTypes
    <3>2. job[v] /= job[w]
      BY <2>1, <3>1, LeakedAssumption
    <3> QED
      BY <1>1, <2>1, <2>2, <3>1, <3>2 DEF TakeOverlapLock, QueueTypes
  <2> QED
    BY <2>2, <2>3 DEF LockHeld
<1>2. ASSUME NEW w \in Workers, Throw(w), ThrowRequeued(w)
      PROVE  LockHeld'
  <2>1. job[w] \in Schedules
    BY <1>2 DEF Throw, ThrowRequeued, WorkerTypes
  <2>2. \A v \in Workers \ {w} : pc'[v] = pc[v] /\ job'[v] = job[v]
    BY <1>2 DEF Throw, ThrowRequeued, Idle, Goto, WorkerTypes
  <2>3. ~ Finalizing(w)'
    BY <1>2 DEF Throw, ThrowRequeued, Idle, Goto, WorkerTypes, Finalizing
  <2> QED
    BY <1>2, <2>1, <2>2, <2>3, LockReleased DEF Throw, ThrowRequeued, Unlock
<1>3. ASSUME NEW w \in Workers, Throw(w), ThrowLast(w)
      PROVE  LockHeld'
  <2>1. job[w] \in Schedules
    BY <1>3 DEF Throw, ThrowLast, WorkerTypes
  <2>2. \A v \in Workers \ {w} : pc'[v] = pc[v] /\ job'[v] = job[v]
    BY <1>3 DEF Throw, ThrowLast, Goto, WorkerTypes
  <2>3. ~ Finalizing(w)'
    BY <1>3 DEF Throw, ThrowLast, Goto, WorkerTypes, Finalizing
  <2> QED
    BY <1>3, <2>1, <2>2, <2>3, LockReleased DEF Throw, ThrowLast, Unlock
<1>4. ASSUME NEW w \in Workers, Finish(w)
      PROVE  LockHeld'
  <2>1. job[w] \in Schedules
    BY <1>4 DEF Finish, WorkerTypes
  <2>2. \A v \in Workers \ {w} : pc'[v] = pc[v] /\ job'[v] = job[v]
    BY <1>4 DEF Finish, Idle, Goto, WorkerTypes
  <2>3. ~ Finalizing(w)'
    BY <1>4 DEF Finish, Idle, Goto, WorkerTypes, Finalizing
  <2> QED
    BY <1>4, <2>1, <2>2, <2>3, LockReleased DEF Finish, Unlock
<1>5. ASSUME NEW w \in Workers, Crash(w)
      PROVE  LockHeld'
  <2>1. job[w] \in Schedules
    BY <1>5 DEF Crash, WorkerTypes
  <2>2. \A v \in Workers \ {w} : pc'[v] = pc[v] /\ job'[v] = job[v]
    BY <1>5 DEF Crash, Idle, Goto, WorkerTypes
  <2>3. ~ Finalizing(w)'
    BY <1>5 DEF Crash, Idle, Goto, WorkerTypes, Finalizing
  <2> QED
    BY <1>5, <2>1, <2>2, <2>3, LockReleased DEF Crash, Unlock
<1>6. ASSUME NEW w \in Workers, NEW s \in Schedules, NEW a \in 0..Tries, Pop(w, s, a)
      PROVE  LockHeld'
  BY <1>6, LockKept DEF Pop, Goto, queueVars, WorkerTypes, Finalizing
<1>7. ASSUME NEW w \in Workers, NEW s \in Schedules, PopExhausted(w, s)
      PROVE  LockHeld'
  BY <1>7, LockKept DEF PopExhausted, Goto, queueVars, WorkerTypes, Finalizing
<1>8. ASSUME NEW w \in Workers, Overlapped(w)
      PROVE  LockHeld'
  BY <1>8, LockKept DEF Overlapped, Idle, Goto, queueVars, WorkerTypes, Finalizing
<1>9. ASSUME NEW w \in Workers, Read(w)
      PROVE  LockHeld'
  BY <1>9, LockKept DEF Read, Step, Goto, queueVars, WorkerTypes, Finalizing
<1>10. ASSUME NEW w \in Workers, ReadSettled(w)
      PROVE  LockHeld'
  BY <1>10, LockKept DEF ReadSettled, Step, Goto, queueVars, WorkerTypes, Finalizing
<1>11. ASSUME NEW w \in Workers, Begin(w)
      PROVE  LockHeld'
  BY <1>11, LockKept DEF Begin, Step, Goto, queueVars, WorkerTypes, Finalizing
<1>12. ASSUME NEW w \in Workers, BeginConflict(w)
      PROVE  LockHeld'
  BY <1>12, LockKept DEF BeginConflict, Step, Goto, queueVars, WorkerTypes, Finalizing
<1>13. ASSUME NEW w \in Workers, NEW r \in Refusals, CheckFails(w, r)
      PROVE  LockHeld'
  BY <1>13, LockKept DEF CheckFails, Goto, queueVars, WorkerTypes, Finalizing
<1>14. ASSUME NEW w \in Workers, CheckPasses(w)
      PROVE  LockHeld'
  BY <1>14, LockKept DEF CheckPasses, Step, Goto, queueVars, WorkerTypes, Finalizing
<1>15. ASSUME NEW w \in Workers, Refuse(w)
      PROVE  LockHeld'
  BY <1>15, LockKept DEF Refuse, Refused, Goto, queueVars, WorkerTypes, Finalizing
<1>16. ASSUME NEW w \in Workers, RefuseConflict(w)
      PROVE  LockHeld'
  BY <1>16, LockKept DEF RefuseConflict, Refused, Goto, queueVars, WorkerTypes, Finalizing
<1>17. ASSUME NEW w \in Workers, Move(w)
      PROVE  LockHeld'
  BY <1>17, LockKept DEF Move, Step, Goto, queueVars, WorkerTypes, Finalizing
<1>18. ASSUME NEW w \in Workers, HandleThrows(w)
      PROVE  LockHeld'
  BY <1>18, LockKept DEF HandleThrows, Goto, queueVars, WorkerTypes, Finalizing
<1>19. ASSUME NEW w \in Workers, MoveUnnoticed(w)
      PROVE  LockHeld'
  BY <1>19, LockKept DEF MoveUnnoticed, Step, Goto, queueVars, WorkerTypes, Finalizing
<1>20. ASSUME NEW w \in Workers, Commit(w)
      PROVE  LockHeld'
  BY <1>20, LockKept DEF Commit, Step, Goto, queueVars, WorkerTypes, Finalizing
<1>21. ASSUME NEW w \in Workers, Rollback(w)
      PROVE  LockHeld'
  BY <1>21, LockKept DEF Rollback, Step, Goto, queueVars, WorkerTypes, Finalizing
<1>22. ASSUME NEW w \in Workers, FailedRead(w)
      PROVE  LockHeld'
  BY <1>22, LockKept DEF FailedRead, Step, Goto, queueVars, WorkerTypes, Finalizing
<1>23. ASSUME NEW w \in Workers, FailedSettled(w)
      PROVE  LockHeld'
  BY <1>23, LockKept DEF FailedSettled, Idle, Goto, queueVars, WorkerTypes, Finalizing
<1>24. ASSUME NEW w \in Workers, MarkFailed(w)
      PROVE  LockHeld'
  BY <1>24, LockKept DEF MarkFailed, Idle, Goto, queueVars, WorkerTypes, Finalizing
<1>25. ASSUME NEW w \in Workers, MarkIgnored(w)
      PROVE  LockHeld'
  BY <1>25, LockKept DEF MarkIgnored, Idle, Goto, queueVars, WorkerTypes, Finalizing
<1>26. ASSUME NEW w \in Workers, Redeliver(w)
      PROVE  LockHeld'
  BY <1>26, LockKept DEF Redeliver, queueVars, WorkerTypes, Finalizing
<1>27. ASSUME NEW w \in Workers, Begun(w)
      PROVE  LockHeld'
  BY <1>27, LockKept DEF Begun, Step, Goto, queueVars, WorkerTypes, Finalizing
<1>28. CASE UNCHANGED <<pc, job, overlap>>
  BY <1>28 DEF LockHeld, Finalizing
<1>29. CASE ClientNext \/ TimeNext
  BY <1>28, <1>29
  DEF ClientNext, TimeNext, Create, ClientRead, Reschedule, Cancel, Retry, ClientConflict,
      ClientDone, BecomeDue, LeaseExpires, RetentionPasses, ArtifactFault, queueVars, workerVars
<1>30. CASE DispatcherNext
  BY <1>28, <1>30
  DEF DispatcherNext, DispatcherStep, DispatchScan, Claim, ClaimConflict, Push, ReleaseRead,
      ReleaseClaim, ReleaseSkipped, PushFails, CrashDispatcher, queueVars, workerVars
<1>31. CASE WatchdogNext \/ SweepNext
  BY <1>28, <1>31
  DEF WatchdogNext, SweepNext, RecoverScan, Recover, RecoverConflict, SweepScan, SweepFile,
      SweepRow, queueVars, workerVars
<1>32. CASE WorkerNext
  BY ThrowEnds, <1>32, <1>1, <1>2, <1>3, <1>4, <1>5, <1>6, <1>7, <1>8, <1>9, <1>10,
              <1>11, <1>12, <1>13, <1>14, <1>15, <1>16, <1>17, <1>18, <1>19,
              <1>20, <1>21, <1>22, <1>23, <1>24, <1>25, <1>26, <1>27
  DEF WorkerNext, WorkerStep
<1>33. CASE UNCHANGED vars
  BY <1>28, <1>33 DEF vars, queueVars, workerVars
<1> QED
  BY <1>29, <1>30, <1>31, <1>32, <1>33 DEF Next

\* Two workers are never in one schedule's artifact, whatever is redelivered.
THEOREM FinalizersExclude == Spec => []OneFinalizer
<1>1. Init => LockHeld
  BY DEF Init, LockHeld, Finalizing
<1>2. TypeOK /\ LockHeld /\ [Next]_vars => LockHeld'
  BY LockStep
<1>3. LockHeld => OneFinalizer
  BY DEF LockHeld, OneFinalizer
<1> QED
  BY <1>1, <1>2, <1>3, TypeCorrect, PTL DEF Spec

-----------------------------------------------------------------------------
(* The file of a completed schedule.                                       *)

\* Faults are only ever counted up.
LEMMA FaultsCount ==
    ASSUME [Next]_vars
    PROVE  UNCHANGED faults \/ Fault
<1>1. CASE ClientNext
  BY <1>1 DEF ClientNext, Create, ClientRead, Reschedule, Cancel, Retry, ClientConflict, ClientDone
<1>2. CASE TimeNext
  BY <1>2 DEF TimeNext, BecomeDue, LeaseExpires, RetentionPasses, ArtifactFault
<1>3. CASE DispatcherNext
  BY <1>3
  DEF DispatcherNext, DispatcherStep, DispatchScan, Claim, ClaimConflict, Push, ReleaseRead,
      ReleaseClaim, ReleaseSkipped, PushFails, CrashDispatcher
<1>4. CASE WatchdogNext
  BY <1>4 DEF WatchdogNext, RecoverScan, Recover, RecoverConflict
<1>5. CASE SweepNext
  BY <1>5 DEF SweepNext, SweepScan, SweepFile, SweepRow
<1>6. CASE WorkerNext
  BY <1>6
  DEF WorkerNext, WorkerStep, Pop, PopExhausted, TakeOverlapLock, Overlapped, Read,
      ReadSettled, Begin, Begun, BeginConflict, CheckFails, Unlike, CheckPasses, Refuse,
      RefuseConflict, Move, HandleThrows, MoveUnnoticed, Commit, Rollback, Throw, Finish,
      FailedRead, FailedSettled, MarkFailed, MarkIgnored, Redeliver, Crash
<1>7. CASE UNCHANGED vars
  BY <1>7 DEF vars
<1> QED
  BY <1>1, <1>2, <1>3, <1>4, <1>5, <1>6, <1>7 DEF Next

\* A row once inserted is never as if it had not been.
LEMMA InsertedForGood ==
    ASSUME TypeOK, [Next]_vars, NEW s \in Schedules, status'[s] = "absent"
    PROVE  status[s] = "absent"
<1> USE DEF TypeOK, RowTypes
<1>1. CASE ~ RowWrites
  BY <1>1, QuietSteps
<1>2. CASE RowWrites
  BY <1>2
  DEF RowWrites, Create, Reschedule, Cancel, Retry, LeaseExpires, Claim, ReleaseClaim, Recover,
      SweepRow, Begin, Refuse, Commit, MarkFailed, Transition
<1> QED
  BY <1>1, <1>2

\* What a worker has read has been inserted.
Inserted ==
    \A w \in Workers :
        pc[w] \in {"begin", "begun", "check", "refuse", "move", "commit"}
            => status[job[w]] /= "absent"

\* Without a fault, a worker about to commit has moved its file.
FileMoved ==
    \A w \in Workers :
        pc[w] = "commit" => stored[job[w]] /\ staged[job[w]] = "absent"

\* Only these steps touch a file.
FileWrites ==
    \/ \E s \in Schedules : Create(s) \/ ArtifactFault(s) \/ SweepFile(s)
    \/ \E w \in Workers : Move(w)

\* Where no file is written, the files stay.
LEMMA QuietFiles ==
    ASSUME [Next]_vars, ~FileWrites
    PROVE  UNCHANGED <<staged, stored>>
<1>1. CASE ClientNext
  BY <1>1
  DEF ClientNext, FileWrites, ClientRead, Reschedule, Cancel, Retry, ClientConflict, ClientDone, fileVars
<1>2. CASE TimeNext
  BY <1>2 DEF TimeNext, FileWrites, BecomeDue, LeaseExpires, RetentionPasses, fileVars
<1>3. CASE DispatcherNext
  BY <1>3
  DEF DispatcherNext, DispatcherStep, DispatchScan, Claim, ClaimConflict, Push, ReleaseRead,
      ReleaseClaim, ReleaseSkipped, PushFails, CrashDispatcher, fileVars
<1>4. CASE WatchdogNext
  BY <1>4 DEF WatchdogNext, RecoverScan, Recover, RecoverConflict, fileVars
<1>5. CASE SweepNext
  BY <1>5 DEF SweepNext, FileWrites, SweepScan, SweepRow, fileVars
<1>6. CASE WorkerNext
  BY <1>6
  DEF WorkerNext, WorkerStep, FileWrites, Pop, PopExhausted, TakeOverlapLock, Overlapped, Read,
      ReadSettled, Begin, Begun, BeginConflict, CheckFails, CheckPasses, Refuse,
      RefuseConflict, HandleThrows, MoveUnnoticed, Commit, Rollback, Throw, Finish,
      FailedRead, FailedSettled, MarkFailed, MarkIgnored, Redeliver, Crash, fileVars
<1>7. CASE UNCHANGED vars
  BY <1>7 DEF vars, fileVars
<1> QED
  BY <1>1, <1>2, <1>3, <1>4, <1>5, <1>6, <1>7 DEF Next

\* How a worker comes to stand at a step of handle().
LEMMA ReadBefore ==
    ASSUME TypeOK, [Next]_vars, NEW w \in Workers,
           pc'[w] \in {"begin", "begun", "check", "refuse", "move", "commit"}
    PROVE  /\ job'[w] = job[w] /\ job[w] \in Schedules
           /\ \/ pc[w] \in {"begin", "begun", "check", "refuse", "move", "commit"}
              \/ Read(w)
           /\ \/ pc'[w] = "commit" => pc[w] = "commit"
              \/ Move(w) \/ MoveUnnoticed(w)
<1> USE DEF TypeOK, WorkerTypes
<1>0. CASE UNCHANGED workerVars
  BY <1>0 DEF workerVars
<1>1. CASE ClientNext \/ TimeNext
  BY <1>0, <1>1
  DEF ClientNext, TimeNext, Create, ClientRead, Reschedule, Cancel, Retry, ClientConflict,
      ClientDone, BecomeDue, LeaseExpires, RetentionPasses, ArtifactFault
<1>2. CASE DispatcherNext
  BY <1>0, <1>2
  DEF DispatcherNext, DispatcherStep, DispatchScan, Claim, ClaimConflict, Push, ReleaseRead,
      ReleaseClaim, ReleaseSkipped, PushFails, CrashDispatcher
<1>3. CASE WatchdogNext \/ SweepNext
  BY <1>0, <1>3
  DEF WatchdogNext, SweepNext, RecoverScan, Recover, RecoverConflict, SweepScan, SweepFile, SweepRow
<1>4. CASE WorkerNext
  BY <1>4
  DEF WorkerNext, WorkerStep, Pop, PopExhausted, TakeOverlapLock, Overlapped, Read,
      ReadSettled, Begin, Begun, BeginConflict, CheckFails, CheckPasses, Refuse, Refused,
      RefuseConflict, Move, HandleThrows, MoveUnnoticed, Commit, Rollback, Throw,
      ThrowRequeued, ThrowLast, Finish, FailedRead, FailedSettled, MarkFailed, MarkIgnored,
      Redeliver, Crash, Goto, Idle, Step
<1>5. CASE UNCHANGED vars
  BY <1>0, <1>5 DEF vars
<1> QED
  BY <1>1, <1>2, <1>3, <1>4, <1>5 DEF Next

\* The rows and files of the workers that have moved theirs stay as they are.
LEMMA FileStep ==
    ASSUME TypeOK, Inserted, [Next]_vars,
           faults = 0 => FileMoved /\ CompletedHasFile
    PROVE  Inserted' /\ (faults' = 0 => FileMoved' /\ CompletedHasFile')
<1> USE DEF TypeOK, RowTypes, FileTypes
<1>1. Inserted'
  <2> SUFFICES ASSUME NEW w \in Workers,
                      pc'[w] \in {"begin", "begun", "check", "refuse", "move", "commit"}
               PROVE  status[job[w]] /= "absent" /\ job'[w] = job[w] /\ job[w] \in Schedules
    BY InsertedForGood DEF Inserted
  <2> QED
    BY ReadBefore DEF Inserted, Read
<1>2. ASSUME faults' = 0
      PROVE  /\ faults = 0 /\ ~ Fault
             /\ FileMoved /\ CompletedHasFile
  BY <1>2, FaultsCount DEF Fault
<1>3. ASSUME faults' = 0, NEW s \in Schedules, stored[s], staged[s] = "absent",
             status[s] /= "absent"
      PROVE  stored'[s] /\ staged'[s] = "absent"
  <2>1. CASE ~ FileWrites
    BY <2>1, <1>3, QuietFiles
  <2>2. CASE FileWrites
    BY <2>2, <1>3, <1>2 DEF FileWrites, Create, ArtifactFault, SweepFile, Move
  <2> QED
    BY <2>1, <2>2
<1>4. ASSUME faults' = 0
      PROVE  FileMoved'
  <2> SUFFICES ASSUME NEW w \in Workers, pc'[w] = "commit"
               PROVE  stored'[job'[w]] /\ staged'[job'[w]] = "absent"
    BY DEF FileMoved
  <2>1. job'[w] = job[w] /\ job[w] \in Schedules
    BY ReadBefore
  <2>2. CASE Move(w)
    BY <2>1, <2>2 DEF Move
  <2>3. CASE pc[w] = "commit"
    BY <2>1, <2>3, <1>2, <1>3, <1>4 DEF FileMoved, Inserted
  <2> QED
    BY <2>2, <2>3, <1>2, <1>4, ReadBefore DEF MoveUnnoticed
<1>5. ASSUME faults' = 0
      PROVE  CompletedHasFile'
  <2> SUFFICES ASSUME NEW s \in Schedules, status'[s] = "completed"
               PROVE  stored'[s] /\ staged'[s] = "absent"
    BY DEF CompletedHasFile
  <2>1. CASE status[s] = "completed"
    BY <2>1, <1>2, <1>3, <1>5 DEF CompletedHasFile
  <2>2. ASSUME NEW w \in Workers, Commit(w), job[w] = s
        PROVE  stored'[s] /\ staged'[s] = "absent"
    BY <2>2, <1>2, <1>3, <1>5 DEF Commit, FileMoved, Inserted
  <2>3. ASSUME status[s] /= "completed"
        PROVE  \E w \in Workers : Commit(w) /\ job[w] = s
    <3>1. RowWrites
      BY <2>3, QuietSteps
    <3> QED
      BY <2>3, <3>1
      DEF RowWrites, Create, Reschedule, Cancel, Retry, LeaseExpires, Claim, ReleaseClaim, Recover,
          SweepRow, Begin, Refuse, Commit, MarkFailed, Transition, WorkerTypes
  <2> QED
    BY <2>1, <2>2, <2>3
<1> QED
  BY <1>1, <1>4, <1>5

\* A completed upload is where its record says, as long as nothing has failed.
THEOREM CompletedIsStored == Spec => [](faults = 0 => CompletedHasFile)
<1> DEFINE IInv == Inserted /\ (faults = 0 => FileMoved /\ CompletedHasFile)
<1>1. Init => IInv
  BY DEF Init, Inserted, FileMoved, CompletedHasFile
<1>2. TypeOK /\ IInv /\ [Next]_vars => IInv'
  BY FileStep
<1>3. IInv => (faults = 0 => CompletedHasFile)
  OBVIOUS
<1> QED
  BY <1>1, <1>2, <1>3, TypeCorrect, PTL DEF Spec

-----------------------------------------------------------------------------
(* One delivery of a schedule at a time.                                   *)

\* A schedule has one carrier at most: a dispatcher about to push it, a message
\* or a worker.
OneCarrier(s) ==
    /\ \A c, d \in Dispatchers : dcur[c] = s /\ dcur[d] = s => c = d
    /\ \A v, w \in Workers : job[v] = s /\ job[w] = s => v = w
    /\ \A a, b \in 0..Tries : queue[s][a] > 0 /\ queue[s][b] > 0 => a = b
    /\ \A a \in 0..Tries : queue[s][a] <= 1
    /\ \A d \in Dispatchers, w \in Workers : ~ (dcur[d] = s /\ job[w] = s)
    /\ \A d \in Dispatchers, a \in 0..Tries : ~ (dcur[d] = s /\ queue[s][a] > 0)
    /\ \A w \in Workers, a \in 0..Tries : ~ (job[w] = s /\ queue[s][a] > 0)

\* Nothing carries a schedule that may be claimed, now or after a recovery or a
\* retry.
Claimable(s) ==
    \/ status[s] \in {"absent", "scheduled"}
    \/ status[s] = "claimed" /\ lease[s] = "expired"
    \/ status[s] = "failed" /\ failure[s] = "infrastructure_finalize_failed"

CarriedOnce ==
    \A s \in Schedules : OneCarrier(s) /\ (Claimable(s) => ~ Delivering(s))

\* Without faults a dispatcher releases no claim, and has a current schedule
\* only to push it.
DispatchersPush ==
    \A d \in Dispatchers :
        /\ dpc[d] \in {"idle", "claim", "push"}
        /\ dpc[d] /= "push" => dcur[d] = None

\* A current snapshot of the watchdog, or of a client that retries, is of a row
\* that it may take back.
TakenBack ==
    /\ \A s \in Schedules :
          Watchdog \in fresh[s] => status[s] = "claimed" /\ lease[s] = "expired"
    /\ \A c \in Clients :
          cop[c] = "retry" /\ c \in fresh[cjob[c]] =>
              /\ status[cjob[c]] = "failed"
              /\ failure[cjob[c]] = "infrastructure_finalize_failed"

\* Only these steps move a schedule from one carrier to another.
CarrierMoves ==
    \/ \E d \in Dispatchers, s \in Schedules : Claim(d, s) \/ ClaimConflict(d, s)
    \/ \E d \in Dispatchers :
          Push(d) \/ PushFails(d) \/ ReleaseClaim(d) \/ ReleaseSkipped(d) \/ CrashDispatcher(d)
    \/ \E w \in Workers, s \in Schedules, a \in 0..Tries : Pop(w, s, a)
    \/ \E w \in Workers, s \in Schedules : PopExhausted(w, s)
    \/ \E w \in Workers :
          \/ Overlapped(w) \/ Throw(w) \/ Finish(w) \/ FailedSettled(w) \/ MarkFailed(w)
          \/ MarkIgnored(w) \/ Redeliver(w) \/ Crash(w)

\* Where no schedule is claimed, pushed or carried, what carries them stays.
LEMMA QuietCarriers ==
    ASSUME [Next]_vars, ~ CarrierMoves
    PROVE  UNCHANGED <<dcur, job, queue>>
<1>1. CASE ClientNext \/ TimeNext
  BY <1>1
  DEF ClientNext, TimeNext, Create, ClientRead, Reschedule, Cancel, Retry, ClientConflict,
      ClientDone, BecomeDue, LeaseExpires, RetentionPasses, ArtifactFault, queueVars,
      workerVars, dispVars
<1>2. CASE DispatcherNext
  BY <1>2
  DEF DispatcherNext, DispatcherStep, CarrierMoves, DispatchScan, ReleaseRead, queueVars, workerVars
<1>3. CASE WatchdogNext \/ SweepNext
  BY <1>3
  DEF WatchdogNext, SweepNext, RecoverScan, Recover, RecoverConflict, SweepScan, SweepFile,
      SweepRow, queueVars, workerVars, dispVars
<1>4. CASE WorkerNext
  BY <1>4
  DEF WorkerNext, WorkerStep, CarrierMoves, TakeOverlapLock, Read, ReadSettled, Begin, Begun,
      BeginConflict, CheckFails, CheckPasses, Refuse, Refused, RefuseConflict, Move,
      HandleThrows, MoveUnnoticed, Commit, Rollback, FailedRead, Step, Others, dispVars,
      queueVars
<1>5. CASE UNCHANGED vars
  BY <1>5 DEF vars, queueVars, workerVars, dispVars
<1> QED
  BY <1>1, <1>2, <1>3, <1>4, <1>5 DEF Next

\* A schedule that a worker carries has no message.
LEMMA WorkerAlone ==
    ASSUME NEW s \in Schedules, queue[s] \in [0..Tries -> Nat], OneCarrier(s),
           NEW w \in Workers, job[w] = s
    PROVE  \A b \in 0..Tries : queue[s][b] = 0
<1>1. \A b \in 0..Tries : queue[s][b] \in Nat /\ ~ (queue[s][b] > 0)
  BY DEF OneCarrier
<1> QED
  BY <1>1

\* A schedule that a message carries has no other.
LEMMA MessageAlone ==
    ASSUME NEW s \in Schedules, queue[s] \in [0..Tries -> Nat], OneCarrier(s),
           NEW a \in 0..Tries, queue[s][a] > 0
    PROVE  \A b \in 0..Tries : queue[s][b] = IF b = a THEN 1 ELSE 0
<1>1. \A b \in 0..Tries : queue[s][b] \in Nat /\ queue[s][b] <= 1
  BY DEF OneCarrier
<1>2. \A b \in 0..Tries : b /= a => ~ (queue[s][b] > 0)
  BY DEF OneCarrier
<1> QED
  BY <1>1, <1>2

\* Without faults and redelivery a carrier that lets go of its schedule has handed
\* it to at most one other: only a claim makes one.
LEMMA CarrierStep ==
    ASSUME TypeOK, DispatchersPush, ~ Redelivery, ~ Fault, [Next]_vars,
           NEW s \in Schedules, OneCarrier(s),
           \A d \in Dispatchers : ~ Claim(d, s)
    PROVE  OneCarrier(s)' /\ (~ Delivering(s) => ~ Delivering(s)')
<1> DEFINE Goal == OneCarrier(s)' /\ (~ Delivering(s) => ~ Delivering(s)')
<1> USE DEF TypeOK, QueueTypes, WorkerTypes, DispatcherTypes
<1>1. CASE UNCHANGED <<dcur, job, queue>>
  BY <1>1 DEF OneCarrier, Delivering
<1>2. ASSUME NEW d \in Dispatchers, NEW r \in Schedules, r /= s, Claim(d, r)
      PROVE  Goal
  <2>1. /\ queue' = queue /\ job' = job
        /\ \A c \in Dispatchers : dcur'[c] = s => dcur[c] = s
    BY <1>2 DEF Claim, queueVars, workerVars
  <2> QED
    BY <2>1 DEF OneCarrier, Delivering
<1>3. ASSUME NEW d \in Dispatchers, NEW r \in Schedules, ClaimConflict(d, r)
      PROVE  Goal
  <2>1. /\ queue' = queue /\ job' = job
        /\ \A c \in Dispatchers : dcur'[c] = s => dcur[c] = s
    BY <1>3, NoneAssumption DEF ClaimConflict, NextCandidate, queueVars, workerVars
  <2> QED
    BY <2>1 DEF OneCarrier, Delivering
<1>4. ASSUME NEW d \in Dispatchers, Push(d)
      PROVE  Goal
  <2>1. job' = job /\ dcur' = [dcur EXCEPT ![d] = None] /\ dcur[d] \in Schedules
    BY <1>4 DEF Push, NextCandidate, workerVars
  <2>2. queue' = [queue EXCEPT ![dcur[d]] = [queue[dcur[d]] EXCEPT ![0] = queue[dcur[d]][0] + 1]]
    BY <1>4, <2>1 DEF Push, Enqueue
  <2> QED
    BY <2>1, <2>2, NoneAssumption, TriesAssumption DEF OneCarrier, Delivering
<1>5. ASSUME NEW d \in Dispatchers
      PROVE  ~ PushFails(d) /\ ~ ReleaseClaim(d) /\ ~ ReleaseSkipped(d) /\ ~ CrashDispatcher(d)
  BY DEF PushFails, ReleaseClaim, ReleaseSkipped, CrashDispatcher, DispatchersPush
<1>6. ASSUME NEW w \in Workers, NEW r \in Schedules, NEW a \in 0..Tries, pc[w] = "idle",
             queue[r][a] > 0, dcur' = dcur, job' = [job EXCEPT ![w] = r],
             queue' = [queue EXCEPT ![r][a] = @ - 1]
      PROVE  Goal
  <2>1. \A t \in Schedules : queue[t] \in [0..Tries -> Nat]
    OBVIOUS
  <2>2. \A b \in 0..Tries : queue'[s][b] = IF r = s /\ b = a THEN queue[s][b] - 1 ELSE queue[s][b]
    BY <1>6, <2>1
  <2>3. \A v \in Workers : job'[v] = IF v = w THEN r ELSE job[v]
    BY <1>6
  <2>4. CASE r = s
    <3>0. queue[s] \in [0..Tries -> Nat]
      BY <2>1
    <3>1. \A b \in 0..Tries : queue'[s][b] = 0
      <4>1. \A b \in 0..Tries : queue[s][b] = IF b = a THEN 1 ELSE 0
        BY <1>6, <2>4, <3>0, MessageAlone
      <4>2. queue'[s][a] = queue[s][a] - 1 /\ queue[s][a] = 1
        BY <2>2, <2>4, <4>1
      <4>3. ASSUME NEW b \in 0..Tries, b /= a
            PROVE  queue'[s][b] = 0
        BY <2>2, <2>4, <4>1, <4>3
      <4> QED
        BY <4>2, <4>3
    <3>2. /\ \A v \in Workers : job'[v] = s => v = w
          /\ \A c \in Dispatchers : dcur'[c] /= s
      BY <1>6, <2>3, <2>4 DEF OneCarrier
    <3>3. Delivering(s)
      BY <1>6, <2>4 DEF Delivering
    <3>4. OneCarrier(s)'
      BY <3>1, <3>2 DEF OneCarrier
    <3> QED
      BY <3>3, <3>4
  <2>5. CASE r /= s
    <3>1. \A b \in 0..Tries : queue'[s][b] = queue[s][b]
      BY <2>2, <2>5
    <3>2. \A v \in Workers : job'[v] = s => job[v] = s
      BY <2>3, <2>5
    <3> QED
      BY <1>6, <3>1, <3>2 DEF OneCarrier, Delivering
  <2> QED
    BY <2>4, <2>5
<1>7. ASSUME NEW w \in Workers, job[w] \in Schedules, dcur' = dcur,
             job' = [job EXCEPT ![w] = None],
             \/ queue' = queue
             \/ \E a \in 0..Tries : Enqueue(job[w], a)
      PROVE  Goal
  <2>1. \A v \in Workers : job'[v] = s => job[v] = s /\ v /= w
    BY <1>7, NoneAssumption
  <2>2. CASE queue' = queue \/ job[w] /= s
    <3>1. \A b \in 0..Tries : queue'[s][b] = queue[s][b]
      BY <1>7, <2>2 DEF Enqueue
    <3>2. Delivering(s)' => Delivering(s)
      BY <1>7, <2>1, <3>1 DEF Delivering
    <3>3. OneCarrier(s)'
      BY <1>7, <2>1, <3>1 DEF OneCarrier
    <3> QED
      BY <3>2, <3>3
  <2>3. ASSUME NEW a \in 0..Tries, Enqueue(job[w], a), job[w] = s
        PROVE  Goal
    <3>1. queue[s] \in [0..Tries -> Nat]
      OBVIOUS
    <3>2. \A b \in 0..Tries : queue[s][b] = 0
      BY <1>7, <2>3, <3>1, WorkerAlone
    <3>3. \A b \in 0..Tries : queue'[s][b] = IF b = a THEN 1 ELSE 0
      BY <2>3, <3>1, <3>2 DEF Enqueue
    <3>4. /\ \A v \in Workers : job'[v] /= s
          /\ \A c \in Dispatchers : dcur'[c] /= s
      BY <1>7, <2>1, <2>3 DEF OneCarrier
    <3>5. Delivering(s)
      BY <2>3 DEF Delivering
    <3>6. OneCarrier(s)'
      <4>1. \A b \in 0..Tries : queue'[s][b] <= 1 /\ (queue'[s][b] > 0 => b = a)
        BY <3>3
      <4> QED
        BY <3>4, <4>1 DEF OneCarrier
    <3> QED
      BY <3>5, <3>6
  <2> QED
    BY <1>7, <2>2, <2>3
<1>8. ASSUME NEW w \in Workers,
             \/ \E r \in Schedules, a \in 0..Tries : Pop(w, r, a)
             \/ \E r \in Schedules : PopExhausted(w, r)
      PROVE  Goal
  <2>1. ASSUME NEW r \in Schedules, NEW a \in 0..Tries, Pop(w, r, a)
        PROVE  Goal
    BY <2>1, <1>6 DEF Pop, Others, dispVars
  <2>2. ASSUME NEW r \in Schedules, PopExhausted(w, r)
        PROVE  Goal
    <3>1. Tries \in 0..Tries
      BY TriesAssumption
    <3> QED
      BY <2>2, <3>1, <1>6 DEF PopExhausted, Others, dispVars
  <2> QED
    BY <1>8, <2>1, <2>2
<1>9. ASSUME NEW w \in Workers,
             \/ Overlapped(w) \/ (ThrowRequeued(w) /\ Throw(w)) \/ Finish(w) \/ FailedSettled(w)
             \/ MarkFailed(w) \/ MarkIgnored(w)
      PROVE  Goal
  <2>1. job[w] \in Schedules /\ try[w] \in 0..Tries
    BY <1>9
    DEF Overlapped, Throw, Finish, FailedSettled, MarkFailed, MarkIgnored
  <2> QED
    BY <1>9, <1>7, <2>1
    DEF Overlapped, ThrowRequeued, Throw, Finish, FailedSettled, MarkFailed, MarkIgnored, Idle,
        Others, dispVars, queueVars
<1>10. ASSUME NEW w \in Workers, ThrowLast(w) /\ Throw(w)
       PROVE  Goal
  BY <1>10, <1>1 DEF ThrowLast, Throw, Others, dispVars
<1>11. ASSUME NEW w \in Workers
       PROVE  ~ Redeliver(w) /\ ~ Crash(w)
  BY DEF Redeliver, Crash
<1> HIDE DEF Goal
<1>12. CASE ~ CarrierMoves
  BY <1>1, <1>12, QuietCarriers DEF Goal
<1>13. ASSUME CarrierMoves
       PROVE  Goal
  <2>1. ASSUME NEW d \in Dispatchers, NEW r \in Schedules, Claim(d, r) \/ ClaimConflict(d, r)
        PROVE  Goal
    BY <2>1, <1>2, <1>3
  <2>2. ASSUME NEW w \in Workers, Throw(w)
        PROVE  Goal
    BY <2>2, <1>9, <1>10, ThrowEnds
  <2>3. ASSUME NEW w \in Workers, NEW r \in Schedules,
               (\E a \in 0..Tries : Pop(w, r, a)) \/ PopExhausted(w, r)
        PROVE  Goal
    BY <2>3, <1>8
  <2>4. ASSUME NEW w \in Workers,
               \/ Overlapped(w) \/ Finish(w) \/ FailedSettled(w)
               \/ MarkFailed(w) \/ MarkIgnored(w)
        PROVE  Goal
    BY <2>4, <1>9
  <2> QED
    BY <2>1, <2>2, <2>3, <2>4, <1>13, <1>4, <1>5, <1>11 DEF CarrierMoves
<1> QED
  BY <1>12, <1>13 DEF Goal

\* Steps that do not write a row leave its failure alone too.
LEMMA QuietFailures ==
    ASSUME [Next]_vars, ~ RowWrites
    PROVE  UNCHANGED failure
<1>1. CASE ClientNext \/ TimeNext
  BY <1>1
  DEF ClientNext, TimeNext, RowWrites, ClientRead, ClientConflict, BecomeDue, RetentionPasses,
      ArtifactFault, rowVars, ClientDone
<1>2. CASE DispatcherNext
  BY <1>2
  DEF DispatcherNext, DispatcherStep, RowWrites, DispatchScan, ClaimConflict, Push, ReleaseRead,
      ReleaseSkipped, PushFails, CrashDispatcher, rowVars
<1>3. CASE WatchdogNext \/ SweepNext
  BY <1>3
  DEF WatchdogNext, SweepNext, RowWrites, RecoverScan, RecoverConflict, SweepScan, SweepFile, rowVars
<1>4. CASE WorkerNext
  BY <1>4
  DEF WorkerNext, WorkerStep, RowWrites, Pop, PopExhausted, TakeOverlapLock, Overlapped, Read,
      ReadSettled, Begun, BeginConflict, CheckFails, CheckPasses, RefuseConflict, Move,
      HandleThrows, MoveUnnoticed, Rollback, Throw, Finish, FailedRead, FailedSettled,
      MarkIgnored, Redeliver, Crash, rowVars
<1>5. CASE UNCHANGED vars
  BY <1>5 DEF vars, rowVars
<1> QED
  BY <1>1, <1>2, <1>3, <1>4, <1>5 DEF Next

\* While anybody's snapshot of a row is current, its columns stay as they were read.
LEMMA SnapshotKept ==
    ASSUME TypeOK, Live, [Next]_vars, NEW s \in Schedules, fresh'[s] /= {}
    PROVE  /\ status'[s] = status[s] /\ failure'[s] = failure[s]
           /\ lease'[s] = lease[s] \/ lease'[s] = "expired"
<1> USE DEF TypeOK, RowTypes
<1>1. CASE ~ RowWrites
  BY <1>1, QuietSteps, QuietFailures
<1>2. CASE RowWrites
  <2>1. ASSUME NEW r \in Schedules, Create(r)
        PROVE  r /= s /\ status' = [status EXCEPT ![r] = "scheduled"] /\ UNCHANGED <<failure, lease>>
    BY <2>1 DEF Create, Live
  <2> QED
    BY <1>2, <2>1
    DEF RowWrites, Reschedule, Cancel, Retry, LeaseExpires, Claim, ReleaseClaim, Recover,
        SweepRow, Begin, Refuse, Commit, MarkFailed, Transition, ClientDone, ClientTypes
<1> QED
  BY <1>1, <1>2

\* A snapshot turns current only by its owner's reading the row.
LEMMA SnapshotTaken ==
    ASSUME TypeOK, [Next]_vars, NEW s \in Schedules, NEW a \in fresh'[s], a \notin fresh[s]
    PROVE  /\ a \in Clients => \E op \in ClientOps : ClientRead(a, op, s)
           /\ a = Watchdog => RecoverScan /\ s \in Expired
<1> USE DEF TypeOK, RowTypes
<1>1. ASSUME NEW c \in Clients, NEW op \in ClientOps, NEW r \in Schedules, ClientRead(c, op, r)
      PROVE  a = c /\ r = s
  BY <1>1 DEF ClientRead, ReadRow
<1>2. CASE ClientNext \/ TimeNext
  BY <1>1, <1>2, ActorsAssumption
  DEF ClientNext, TimeNext, Create, Reschedule, Cancel, Retry, ClientConflict, BecomeDue,
      LeaseExpires, RetentionPasses, ArtifactFault, rowVars, Transition
<1>3. ASSUME NEW d \in Dispatchers, DispatcherStep(d) \/ PushFails(d) \/ CrashDispatcher(d)
      PROVE  a = d
  <2>1. CASE DispatchScan(d)
    BY <2>1 DEF DispatchScan
  <2>2. CASE CrashDispatcher(d)
    BY <2>2 DEF CrashDispatcher
  <2>3. CASE ReleaseRead(d)
    BY <2>3 DEF ReleaseRead, ReadRow
  <2>4. ASSUME NEW r \in Schedules, Claim(d, r)
        PROVE  a = d
    BY <2>4 DEF Claim, Transition
  <2>5. CASE ReleaseClaim(d)
    BY <2>5 DEF ReleaseClaim, Transition
  <2> QED
    BY <1>3, <2>1, <2>2, <2>3, <2>4, <2>5
    DEF DispatcherStep, ClaimConflict, Push, ReleaseSkipped, PushFails, rowVars
<1>4. CASE WatchdogNext \/ SweepNext
  BY <1>4, ActorsAssumption
  DEF WatchdogNext, SweepNext, RecoverScan, Recover, RecoverConflict, SweepScan, SweepFile,
      SweepRow, rowVars, Transition
<1>5. ASSUME NEW w \in Workers, WorkerStep(w) \/ Redeliver(w) \/ Crash(w)
      PROVE  a = w
  BY <1>5
  DEF WorkerStep, Pop, PopExhausted, TakeOverlapLock, Overlapped, Read, Forget,
      ReadSettled, Begin, Begun, BeginConflict, CheckFails, CheckPasses, Refuse,
      RefuseConflict, Move, HandleThrows, MoveUnnoticed, Commit, Rollback, Throw, Finish,
      FailedRead, FailedSettled, MarkFailed, MarkIgnored, Redeliver, Crash, rowVars,
      Transition, ReadRow
<1>6. CASE UNCHANGED vars
  BY <1>6 DEF vars, rowVars
<1> QED
  BY <1>2, <1>3, <1>4, <1>5, <1>6, ActorsAssumption DEF Next, DispatcherNext, WorkerNext

\* Without a fault, only a dispatcher that pushes holds a schedule.
LEMMA DispatchersStep ==
    ASSUME TypeOK, DispatchersPush, ~ Fault, [Next]_vars
    PROVE  DispatchersPush'
<1> USE DEF TypeOK, DispatcherTypes, DispatchersPush
<1>0. CASE UNCHANGED dispVars
  BY <1>0 DEF dispVars
<1>1. CASE ClientNext \/ TimeNext
  BY <1>0, <1>1
  DEF ClientNext, TimeNext, Create, ClientRead, Reschedule, Cancel, Retry, ClientConflict,
      ClientDone, BecomeDue, LeaseExpires, RetentionPasses, ArtifactFault
<1>2. CASE DispatcherNext
  BY <1>2
  DEF DispatcherNext, DispatcherStep, DispatchScan, Claim, ClaimConflict, Push, ReleaseRead,
      ReleaseClaim, ReleaseSkipped, PushFails, CrashDispatcher, NextCandidate
<1>3. CASE WatchdogNext \/ SweepNext
  BY <1>0, <1>3
  DEF WatchdogNext, SweepNext, RecoverScan, Recover, RecoverConflict, SweepScan, SweepFile, SweepRow
<1>4. CASE WorkerNext
  BY <1>0, <1>4
  DEF WorkerNext, WorkerStep, Pop, PopExhausted, TakeOverlapLock, Overlapped, Read,
      ReadSettled, Begin, Begun, BeginConflict, CheckFails, CheckPasses, Refuse,
      RefuseConflict, Move, HandleThrows, MoveUnnoticed, Commit, Rollback, Throw,
      Finish, FailedRead, FailedSettled, MarkFailed, MarkIgnored, Redeliver, Crash, Others
<1>5. CASE UNCHANGED vars
  BY <1>0, <1>5 DEF vars
<1> QED
  BY <1>1, <1>2, <1>3, <1>4, <1>5 DEF Next

\* What the watchdog and the clients know of the rows they may take back.
LEMMA TakenBackStep ==
    ASSUME TypeOK, Live, TakenBack, [Next]_vars
    PROVE  TakenBack'
<1>1. ASSUME NEW s \in Schedules, Watchdog \in fresh'[s]
      PROVE  status'[s] = "claimed" /\ lease'[s] = "expired"
  <2>1. /\ status'[s] = status[s]
        /\ lease'[s] = lease[s] \/ lease'[s] = "expired"
    BY <1>1, SnapshotKept
  <2>2. CASE Watchdog \in fresh[s]
    BY <2>1, <2>2 DEF TakenBack
  <2>3. CASE Watchdog \notin fresh[s]
    BY <1>1, <2>1, <2>3, SnapshotTaken DEF Expired
  <2> QED
    BY <2>2, <2>3
<1>2. ASSUME NEW c \in Clients, cop'[c] = "retry", c \in fresh'[cjob'[c]]
      PROVE  /\ status'[cjob'[c]] = "failed"
             /\ failure'[cjob'[c]] = "infrastructure_finalize_failed"
  <2> USE DEF TypeOK, ClientTypes
  <2>1. ASSUME NEW op \in ClientOps, NEW s \in Schedules, ClientRead(c, op, s)
        PROVE  /\ op = "retry" /\ s = cjob'[c] /\ Offered(op, s)
               /\ UNCHANGED <<status, failure>>
    BY <1>2, <2>1 DEF ClientRead
  <2>2. ASSUME \A op \in ClientOps, s \in Schedules : ~ ClientRead(c, op, s)
        PROVE  cop[c] = "retry" /\ cjob'[c] = cjob[c] /\ cjob[c] \in Schedules
    <3>1. ASSUME NEW e \in Clients, NEW op \in ClientOps, NEW s \in Schedules, ClientRead(e, op, s)
          PROVE  e /= c /\ cop'[c] = cop[c] /\ cjob'[c] = cjob[c]
      BY <2>2, <3>1 DEF ClientRead
    <3>2. ASSUME NEW e \in Clients, ClientDone(e)
          PROVE  cop'[c] = cop[c] /\ cjob'[c] = cjob[c]
      BY <1>2, <3>2 DEF ClientDone
    <3>3. CASE UNCHANGED clientVars
      BY <1>2, <3>3 DEF clientVars
    <3>4. CASE ClientNext \/ TimeNext
      BY <1>2, <3>1, <3>2, <3>3, <3>4
      DEF ClientNext, TimeNext, Create, Reschedule, Cancel, Retry, ClientConflict,
          BecomeDue, LeaseExpires, RetentionPasses, ArtifactFault
    <3>5. CASE DispatcherNext
      BY <3>3, <3>5
      DEF DispatcherNext, DispatcherStep, DispatchScan, Claim, ClaimConflict, Push, ReleaseRead,
          ReleaseClaim, ReleaseSkipped, PushFails, CrashDispatcher
    <3>6. CASE WatchdogNext \/ SweepNext
      BY <3>3, <3>6
      DEF WatchdogNext, SweepNext, RecoverScan, Recover, RecoverConflict, SweepScan, SweepFile,
          SweepRow
    <3>7. CASE WorkerNext
      BY <3>3, <3>7
      DEF WorkerNext, WorkerStep, Pop, PopExhausted, TakeOverlapLock, Overlapped, Read,
          ReadSettled, Begin, Begun, BeginConflict, CheckFails, CheckPasses, Refuse,
          RefuseConflict, Move, HandleThrows, MoveUnnoticed, Commit, Rollback, Throw,
          Finish, FailedRead, FailedSettled, MarkFailed, MarkIgnored, Redeliver, Crash, Others
    <3>8. CASE UNCHANGED vars
      BY <3>3, <3>8 DEF vars
    <3> QED
      BY <3>4, <3>5, <3>6, <3>7, <3>8 DEF Next
  <2>3. CASE \E op \in ClientOps, s \in Schedules : ClientRead(c, op, s)
    BY <2>1, <2>3 DEF Offered
  <2>4. CASE \A op \in ClientOps, s \in Schedules : ~ ClientRead(c, op, s)
    <3>1. c \in fresh[cjob[c]]
      BY <1>2, <2>2, <2>4, SnapshotTaken
    <3>2. status'[cjob[c]] = status[cjob[c]] /\ failure'[cjob[c]] = failure[cjob[c]]
      BY <1>2, <2>2, <2>4, SnapshotKept
    <3> QED
      BY <2>2, <2>4, <3>1, <3>2 DEF TakenBack
  <2> QED
    BY <2>3, <2>4
<1> QED
  BY <1>1, <1>2 DEF TakenBack

\* Only rows that nothing carries come to be claimable.
LEMMA ClaimableStep ==
    ASSUME TypeOK, LongLease, DispatchersPush, TakenBack, [Next]_vars,
           NEW s \in Schedules, Claimable(s)', ~ Claimable(s)
    PROVE  ~ Delivering(s) \/ \E w \in Workers : MarkFailed(w) /\ job[w] = s
<1> USE DEF TypeOK, RowTypes, Claimable
<1>1. RowWrites
  BY QuietSteps, QuietFailures
<1>2. ASSUME NEW r \in Schedules, Create(r) \/ SweepRow(r) \/ LeaseExpires(r)
      PROVE  ~ Delivering(s)
  BY <1>2 DEF Create, SweepRow, LeaseExpires
<1>3. ASSUME NEW r \in Schedules, Recover(r)
      PROVE  FALSE
  BY <1>3 DEF Recover, Transition, CanTransition, TakenBack
<1>4. ASSUME NEW c \in Clients, Reschedule(c) \/ Cancel(c) \/ Retry(c)
      PROVE  FALSE
  BY <1>4 DEF Reschedule, Cancel, Retry, Transition, CanTransition, TakenBack, ClientDone
<1>5. ASSUME NEW d \in Dispatchers, NEW r \in Schedules, Claim(d, r)
      PROVE  FALSE
  BY <1>5 DEF Claim, Transition
<1>6. ASSUME NEW d \in Dispatchers
      PROVE  ~ ReleaseClaim(d)
  BY DEF ReleaseClaim, DispatchersPush
<1>7. ASSUME NEW w \in Workers, Begin(w) \/ Refuse(w) \/ Commit(w)
      PROVE  FALSE
  BY <1>7 DEF Begin, Refuse, Commit, Transition, WorkerTypes, Refusals
<1>8. ASSUME NEW w \in Workers, MarkFailed(w)
      PROVE  job[w] = s
  BY <1>8 DEF MarkFailed, Transition
<1> QED
  BY <1>1, <1>2, <1>3, <1>4, <1>5, <1>6, <1>7, <1>8 DEF RowWrites

\* A claim is the only way to start a delivery, and it starts one.
LEMMA CarriedStep ==
    ASSUME TypeOK, LongLease, ~ Redelivery, ~ Fault,
           CarriedOnce, DispatchersPush, TakenBack, [Next]_vars
    PROVE  CarriedOnce'
<1> SUFFICES ASSUME NEW s \in Schedules
             PROVE  OneCarrier(s)' /\ (Claimable(s)' => ~ Delivering(s)')
  BY DEF CarriedOnce
<1>0. OneCarrier(s) /\ (Claimable(s) => ~ Delivering(s))
  BY DEF CarriedOnce
<1>1. ASSUME NEW d \in Dispatchers, Claim(d, s)
      PROVE  OneCarrier(s)' /\ ~ Claimable(s)'
  <2> USE DEF TypeOK, RowTypes, DispatcherTypes
  <2>1. /\ status[s] = "scheduled" /\ status'[s] = "claimed" /\ lease'[s] = "live"
        /\ queue' = queue /\ job' = job /\ dcur' = [dcur EXCEPT ![d] = s]
    BY <1>1 DEF Claim, Transition, CanTransition, queueVars, workerVars
  <2>2. ~ Delivering(s)
    BY <1>0, <2>1 DEF Claimable
  <2>3. /\ \A w \in Workers : job'[w] /= s
        /\ \A c \in Dispatchers : dcur'[c] = s => c = d
        /\ \A a \in 0..Tries : ~ (queue'[s][a] > 0)
    BY <2>1, <2>2 DEF Delivering
  <2>4. \A a \in 0..Tries : queue'[s][a] <= 1
    BY <1>0, <2>1 DEF OneCarrier
  <2> QED
    BY <2>1, <2>3, <2>4 DEF OneCarrier, Claimable
<1>2. ASSUME \A d \in Dispatchers : ~ Claim(d, s)
      PROVE  OneCarrier(s)' /\ (~ Delivering(s) => ~ Delivering(s)')
  BY <1>0, <1>2, CarrierStep
<1>3. ASSUME NEW w \in Workers, MarkFailed(w), job[w] = s
      PROVE  ~ Delivering(s)'
  <2> USE DEF TypeOK, WorkerTypes, DispatcherTypes
  <2>1. queue' = queue /\ dcur' = dcur /\ job' = [job EXCEPT ![w] = None]
    BY <1>3 DEF MarkFailed, Idle, queueVars, Others, dispVars
  <2>2. /\ \A v \in Workers : job'[v] /= s
        /\ \A d \in Dispatchers : dcur'[d] /= s
        /\ \A a \in 0..Tries : ~ (queue'[s][a] > 0)
    BY <1>0, <1>3, <2>1, NoneAssumption DEF OneCarrier
  <2> QED
    BY <2>2 DEF Delivering
<1> QED
  BY <1>0, <1>1, <1>2, <1>3, ClaimableStep

\* A set whose elements are all one has at most one.
LEMMA AtMostOneElement ==
    ASSUME NEW S, \A x, y \in S : x = y
    PROVE  Cardinality(S) = IF S = {} THEN 0 ELSE 1
<1>1. CASE S = {}
  BY <1>1, FS_EmptySet
<1>2. ASSUME NEW x \in S
      PROVE  Cardinality(S) = 1
  <2>1. S = {x}
    OBVIOUS
  <2> QED
    BY <2>1, FS_Singleton
<1> QED
  BY <1>1, <1>2

\* What carries a schedule is counted.
LEMMA CarriersCounted ==
    ASSUME TypeOK, NEW s \in Schedules, OneCarrier(s)
    PROVE  Deliveries(s) <= 1
<1> DEFINE D == {d \in Dispatchers : dcur[d] = s /\ dpc[d] = "push"}
           W == {w \in Workers : job[w] = s}
<1>0. /\ queue[s] \in [0..Tries -> Nat] /\ QueueBound \in Nat
  BY BoundsAssumption DEF TypeOK, QueueTypes
<1>1. \A m \in Waiting(s) : m[1] \in 0..Tries /\ queue[s][m[1]] > 0 /\ m = <<m[1], 1>>
  <2> SUFFICES ASSUME NEW a \in 0..Tries, NEW i \in 1..QueueBound, i <= queue[s][a]
               PROVE  queue[s][a] > 0 /\ i = 1
    BY DEF Waiting
  <2>1. queue[s][a] \in Nat /\ queue[s][a] <= 1
    BY <1>0 DEF OneCarrier
  <2> QED
    BY <2>1, <1>0
<1>2. /\ \A m, n \in Waiting(s) : m = n
      /\ \A c, d \in D : c = d
      /\ \A v, w \in W : v = w
  BY <1>1 DEF OneCarrier
<1>3. /\ Waiting(s) = {} \/ D = {}
      /\ Waiting(s) = {} \/ W = {}
      /\ W = {} \/ D = {}
  BY <1>1 DEF OneCarrier
<1>4. /\ Cardinality(Waiting(s)) = IF Waiting(s) = {} THEN 0 ELSE 1
      /\ Cardinality(D) = IF D = {} THEN 0 ELSE 1
      /\ Cardinality(W) = IF W = {} THEN 0 ELSE 1
  BY <1>2, AtMostOneElement
<1>5. Deliveries(s) = Cardinality(D) + Cardinality(Waiting(s)) + Cardinality(W)
  BY DEF Deliveries
<1> QED
  BY <1>3, <1>4, <1>5

\* Without faults nothing puts a second delivery of a schedule under way.
THEOREM DeliveredOnce == Spec => []OneDelivery
<1> DEFINE IInv == LongLease /\ ~ Redelivery /\ faults = 0 =>
                      CarriedOnce /\ DispatchersPush /\ TakenBack
<1>1. Init => IInv
  <2> SUFFICES ASSUME Init
               PROVE  CarriedOnce /\ DispatchersPush /\ TakenBack
    OBVIOUS
  <2>1. \A s \in Schedules : ~ Delivering(s) /\ \A a \in 0..Tries : queue[s][a] = 0
    BY NoneAssumption DEF Init, Delivering
  <2>2. CarriedOnce
    BY <2>1 DEF CarriedOnce, OneCarrier, Delivering
  <2>3. DispatchersPush /\ TakenBack
    BY DEF Init, DispatchersPush, TakenBack
  <2> QED
    BY <2>2, <2>3
<1>2. TypeOK /\ Live /\ IInv /\ [Next]_vars => IInv'
  <2> SUFFICES ASSUME TypeOK, Live, IInv, [Next]_vars, LongLease, ~ Redelivery, faults' = 0
               PROVE  CarriedOnce' /\ DispatchersPush' /\ TakenBack'
    OBVIOUS
  <2>1. faults = 0 /\ ~ Fault
    BY FaultsCount DEF Fault, TypeOK
  <2> QED
    BY <2>1, CarriedStep, DispatchersStep, TakenBackStep
<1>3. TypeOK /\ IInv => OneDelivery
  BY CarriersCounted DEF CarriedOnce, OneDelivery
<1> QED
  BY <1>1, <1>2, <1>3, TypeCorrect, SnapshotsOfLiveRows, PTL DEF Spec

=============================================================================
