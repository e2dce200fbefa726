------------------------ MODULE UploadSessionsProofs ------------------------
(***************************************************************************)
(* Proofs about UploadSessions, for any number of requests, keys, chunks   *)
(* and faults.  The invariant grows in six parts, each preserved with the *)
(* help of those before it: the types; which operation may stand at which  *)
(* step (Shape); the row lock (Locking); what a request has read (Reading);*)
(* what the session has led to (Staging); and, as long as no two consumers *)
(* have overlapped, what the only one finds and leaves behind (Serial).    *)
(***************************************************************************)
EXTENDS UploadSessions, FiniteSetTheorems, TLAPS

\* The steps at which a request's transaction is open.
InTransaction(r) ==
    \/ pc[r] = "record"
    \/ op[r] = "schedule" /\ pc[r] \in {"assemble", "store", "sniff", "drop", "purge", "commit"}

\* Each step belongs to its operations, and what follows a purge to its own.
Shape ==
    \A r \in Requests :
        /\ pc[r] \in {"put", "lock", "record"} => op[r] = "chunk" /\ at[r] \in Index
        /\ pc[r] \in {"assemble", "store", "sniff", "drop"} => op[r] \in {"complete", "schedule"}
        /\ pc[r] \in {"move", "insert", "mark"} => op[r] = "complete"
        /\ pc[r] \in {"session", "commit", "undo"} => op[r] = "schedule"
        /\ pc[r] \in {"idle", "session"} => at[r] = 0 /\ part[r] = {}
        /\ pc[r] \in {"purge", "mark", "commit"} =>
              \/ op[r] = "complete" /\ then[r] \in {"completed", "aborted"}
              \/ op[r] = "schedule" /\ then[r] \in {"staged", "refused"}
              \/ op[r] = "destroy" /\ then[r] = "deleted"

\* The lock belongs to the request whose transaction is open, and to one only.
Locking ==
    /\ \A r \in Requests : r \in lock <=> InTransaction(r)
    /\ \A q, r \in lock : q = r

\* What a request holds in memory of the row, and of the chunks it has read.
ReadingOf(r) ==
    /\ pc[r] = "record" => part[r] = received
    /\ op[r] = "schedule" /\ pc[r] = "assemble" => part[r] = 0..(at[r] - 1)
    /\ op[r] = "schedule" /\ pc[r] \in {"store", "sniff", "drop", "purge", "commit"} =>
          part[r] = Index
    /\ checked /\ pc[r] \in {"move", "insert"} => part[r] = Index
    /\ checked /\ op[r] = "complete" /\ pc[r] = "sniff" => part[r] = Index

Reading == \A r \in Requests : ReadingOf(r)

\* A session being staged is pending; one that has been staged is not.
Staging ==
    /\ \A r \in Requests : op[r] = "schedule" /\ r \in lock => status = "pending"
    /\ schedules # {} => status # "pending"
    /\ \A s, t \in schedules : s = t

Outcomes == AckedKept /\ ScheduleIsWhole /\ RecordIsWhole

Assembling == {"assemble", "store", "sniff", "drop", "move", "insert"}
Emptying == {"purge", "mark", "commit", "remove"}

\* A consumer that has got as far as deleting the chunks.
Purging(r) == Consuming(r) /\ pc[r] \in Emptying

\* What a consumer that nobody disturbs relies on at each of its steps.
ServesAlone(r) ==
    /\ pc[r] # "undo"
    /\ pc[r] \in Assembling => Index \ unwritten \subseteq chunks /\ records = <<>> /\ schedules = {}
    /\ pc[r] = "assemble" => (0..(at[r] - 1)) \ unwritten \subseteq part[r]
    /\ pc[r] \in {"store", "sniff", "move", "insert"} => Index \ unwritten \subseteq part[r]
    /\ pc[r] \in {"assemble", "store"} => quarantine = {}
    /\ pc[r] = "sniff" => quarantine \subseteq {part[r]}
    /\ pc[r] = "move" => quarantine = {part[r]}
    /\ pc[r] = "insert" => Filed(part[r])
    /\ op[r] = "complete" /\ pc[r] \in {"purge", "mark"} =>
          schedules = {} /\ (then[r] = "aborted" => records = <<>>)
    /\ op[r] = "schedule" /\ pc[r] = "purge" =>
          records = <<>> /\ (then[r] = "staged" => quarantine = {part[r]})
    /\ pc[r] = "commit" => records = <<>> /\ quarantine = {part[r]}

\* The chunks that are recorded, or are about to be, are on disk, but for those
\* whose write failed unnoticed.
OnDisk ==
    /\ received \ unwritten \subseteq chunks
    /\ \A r \in Requests : pc[r] \in {"lock", "record"} => at[r] \in chunks \cup unwritten

Alone ==
    /\ \A q, r \in Requests : Consuming(q) /\ Consuming(r) => q = r
    /\ \A r \in Requests : ServesAlone(r)
    /\ (status = "pending" /\ \A r \in Requests : ~Purging(r)) => OnDisk
    /\ (status = "pending" /\ Quiet) => records = <<>> /\ quarantine = {}
    /\ Len(records) <= 1
    /\ records # <<>> => schedules = {} /\ Filed(records[1])
    /\ schedules # {} => quarantine = {Index}

Serial == ~spoiled => Alone

IInv == TypeOK /\ Shape /\ Locking /\ Reading /\ Staging /\ Outcomes /\ Serial

\* Every step keeps the types; a purge is followed by an outcome Shape allows.
LEMMA TypePreserved ==
    ASSUME TypeOK, Shape, [Next]_vars
    PROVE  TypeOK'
<1> USE DEF TypeOK, Index, File, Pcs, Shape, sessionVars, rigidVars, lossVars, fileVars, outcomeVars, requestVars
<1> USE ChunksAssumption, FaultsAssumption
<1>1. CASE UNCHANGED vars
  BY <1>1 DEF vars
<1>2. CASE Expire
  BY <1>2 DEF Expire
<1>3. ASSUME NEW r \in Requests,
             ChunkRequest(r) \/ CompleteRequest(r) \/ ScheduleRequest(r)
                \/ Destroy(r) \/ RemoveSession(r) \/ Crash(r)
      PROVE  TypeOK'
  <2>1. ASSUME NEW i \in Index, UploadChunk(r, i) PROVE TypeOK'
    BY <2>1 DEF UploadChunk, Start, Goto, Usable
  <2>2. CASE PutChunk(r)
    <3>1. at[r] \in Index
      BY <2>2 DEF PutChunk, Step
    <3>2. chunks' \in File
      BY <2>2, <3>1 DEF PutChunk
    <3>3. pc' \in [Requests -> Pcs]
      BY <2>2 DEF PutChunk, Step, Goto
    <3> QED
      BY <2>2, <3>2, <3>3 DEF PutChunk, Step
  <2>3. CASE LockChunk(r)
    BY <2>3 DEF LockChunk, Goto, RowIsFree
  <2>4. CASE OrphanChunk(r)
    BY <2>4 DEF OrphanChunk, Done, Goto, RowIsFree
  <2>5. CASE RecordChunk(r)
    <3>1. at[r] \in Index
      BY <2>5 DEF RecordChunk
    <3>2. received' \in File /\ acked' \in File
      BY <2>5, <3>1 DEF RecordChunk
    <3> QED
      BY <2>5, <3>2 DEF RecordChunk, Done, Goto
  <2>6. CASE FindExpired(r)
    BY <2>6 DEF FindExpired, Start, Goto
  <2>7. CASE AbortExpired(r)
    BY <2>7 DEF AbortExpired, Done, Goto, RowIsFree
  <2>8. CASE Complete(r)
    BY <2>8 DEF Complete, Start, Goto, Usable, missingChunks, Admit
  <2>9. CASE AssembleChunk(r)
    BY <2>9 DEF AssembleChunk, MoreChunks, Readable
  <2>10. CASE EndAssembly(r)
    BY <2>10 DEF EndAssembly, Step, Goto, MoreChunks
  <2>11. CASE StoreAssembled(r)
    BY <2>11 DEF StoreAssembled, Step, Goto, AfterStore, Mismatch
  <2>12. CASE SniffAccepts(r)
    BY <2>12 DEF SniffAccepts, Step, Goto
  <2>13. CASE SniffRefuses(r)
    BY <2>13 DEF SniffRefuses, Step, Goto
  <2>14. CASE StageVerified(r)
    BY <2>14 DEF StageVerified, Goto
  <2>15. CASE DropAssembled(r)
    BY <2>15 DEF DropAssembled, Goto
  <2>16. CASE MoveToServed(r)
    BY <2>16 DEF MoveToServed, Step, Goto
  <2>17. CASE InsertRecord(r)
    BY <2>17 DEF InsertRecord, Goto
  <2>18. CASE PurgeChunk(r)
    BY <2>18 DEF PurgeChunk
  <2>19. CASE EndPurge(r)
    BY <2>19 DEF EndPurge, Step, Goto, AfterPurge
  <2>20. CASE MarkSession(r)
    BY <2>20 DEF MarkSession, Done, Goto, RowIsFree, Outcome
  <2>21. CASE Schedule(r)
    BY <2>21 DEF Schedule, Start, Goto, Scheduled, Stageable
  <2>22. CASE LockSession(r)
    BY <2>22 DEF LockSession, Step, Goto, RowIsFree, Stageable, Admit
  <2>23. CASE SessionConflict(r)
    BY <2>23 DEF SessionConflict, Done, Goto, RowIsFree
  <2>24. CASE StageMissing(r)
    BY <2>24 DEF StageMissing, Done, Goto, MoreChunks, Readable
  <2>25. CASE StageRefused(r)
    BY <2>25 DEF StageRefused, Done, Goto
  <2>26. CASE CommitSchedule(r)
    BY <2>26 DEF CommitSchedule, Done, Goto, Scheduled, StagedStatus
  <2>27. CASE CommitFails(r)
    BY <2>27 DEF CommitFails, Step, Goto, Fault
  <2>28. CASE UndoStage(r)
    BY <2>28 DEF UndoStage, Done, Goto
  <2>29. CASE Destroy(r)
    BY <2>29 DEF Destroy, Goto, Admit
  <2>30. CASE RemoveSession(r)
    BY <2>30 DEF RemoveSession, Done, Goto, RowIsFree
  <2>31. CASE Crash(r)
    BY <2>31 DEF Crash, Done, Goto, Fault, Consuming
  <2>32. CASE PutUnnoticed(r)
    <3>1. at[r] \in Index
      BY <2>32 DEF PutUnnoticed, Step
    <3>2. unwritten' \in File
      BY <2>32, <3>1 DEF PutUnnoticed
    <3>4. faults' \in 0..MaxFaults
      BY <2>32 DEF PutUnnoticed, Fault
    <3>3. pc' \in [Requests -> Pcs]
      BY <2>32 DEF PutUnnoticed, Step, Goto
    <3> QED
      BY <2>32, <3>2, <3>3, <3>4 DEF PutUnnoticed, Step
  <2>33. CASE StoreUnnoticed(r)
    BY <2>33 DEF StoreUnnoticed, Step, Goto, AfterStore, Mismatch, Fault
  <2>34. CASE MoveUnnoticed(r)
    BY <2>34 DEF MoveUnnoticed, Step, Goto, Fault
  <2> QED
    BY <1>3, <2>1, <2>2, <2>3, <2>4, <2>5, <2>6, <2>7, <2>8, <2>9, <2>10, <2>11, <2>12,
       <2>13, <2>14, <2>15, <2>16, <2>17, <2>18, <2>19, <2>20, <2>21, <2>22, <2>23, <2>24,
       <2>25, <2>26, <2>27, <2>28, <2>29, <2>30, <2>31, <2>32, <2>33, <2>34
       DEF ChunkRequest, CompleteRequest, ScheduleRequest
<1> QED
  BY <1>1, <1>2, <1>3 DEF Next
\* Every step leads its operation to one of its own steps.
LEMMA ShapePreserved ==
    ASSUME TypeOK, Shape, [Next]_vars
    PROVE  Shape'
<1> USE DEF TypeOK, Index, File, Pcs, Shape, sessionVars, rigidVars, lossVars, fileVars, outcomeVars, requestVars
<1> USE ChunksAssumption
<1>1. CASE UNCHANGED vars
  BY <1>1 DEF vars
<1>2. CASE Expire
  BY <1>2 DEF Expire
<1>3. ASSUME NEW r \in Requests,
             ChunkRequest(r) \/ CompleteRequest(r) \/ ScheduleRequest(r)
                \/ Destroy(r) \/ RemoveSession(r) \/ Crash(r)
      PROVE  Shape'
  <2>1. ASSUME NEW i \in Index, UploadChunk(r, i) PROVE Shape'
    BY <2>1 DEF UploadChunk, Start, Goto, Usable
  <2>2. CASE PutChunk(r)
    BY <2>2 DEF PutChunk, Step, Goto
  <2>3. CASE LockChunk(r)
    BY <2>3 DEF LockChunk, Goto, RowIsFree
  <2>4. CASE OrphanChunk(r)
    BY <2>4 DEF OrphanChunk, Done, Goto, RowIsFree
  <2>5. CASE RecordChunk(r)
    BY <2>5 DEF RecordChunk, Done, Goto
  <2>6. CASE FindExpired(r)
    BY <2>6 DEF FindExpired, Start, Goto
  <2>7. CASE AbortExpired(r)
    BY <2>7 DEF AbortExpired, Done, Goto, RowIsFree
  <2>8. CASE Complete(r)
    BY <2>8 DEF Complete, Start, Goto, Usable, missingChunks, Admit
  <2>9. CASE AssembleChunk(r)
    BY <2>9 DEF AssembleChunk, MoreChunks, Readable
  <2>10. CASE EndAssembly(r)
    BY <2>10 DEF EndAssembly, Step, Goto, MoreChunks
  <2>11. CASE StoreAssembled(r)
    BY <2>11 DEF StoreAssembled, Step, Goto, AfterStore, Mismatch
  <2>12. CASE SniffAccepts(r)
    BY <2>12 DEF SniffAccepts, Step, Goto
  <2>13. CASE SniffRefuses(r)
    BY <2>13 DEF SniffRefuses, Step, Goto
  <2>14. CASE StageVerified(r)
    BY <2>14 DEF StageVerified, Goto
  <2>15. CASE DropAssembled(r)
    BY <2>15 DEF DropAssembled, Goto
  <2>16. CASE MoveToServed(r)
    BY <2>16 DEF MoveToServed, Step, Goto
  <2>17. CASE InsertRecord(r)
    BY <2>17 DEF InsertRecord, Goto
  <2>18. CASE PurgeChunk(r)
    BY <2>18 DEF PurgeChunk
  <2>19. CASE EndPurge(r)
    BY <2>19 DEF EndPurge, Step, Goto, AfterPurge
  <2>20. CASE MarkSession(r)
    BY <2>20 DEF MarkSession, Done, Goto, RowIsFree, Outcome
  <2>21. CASE Schedule(r)
    BY <2>21 DEF Schedule, Start, Goto, Scheduled, Stageable
  <2>22. CASE LockSession(r)
    BY <2>22 DEF LockSession, Step, Goto, RowIsFree, Stageable, Admit
  <2>23. CASE SessionConflict(r)
    BY <2>23 DEF SessionConflict, Done, Goto, RowIsFree
  <2>24. CASE StageMissing(r)
    BY <2>24 DEF StageMissing, Done, Goto, MoreChunks, Readable
  <2>25. CASE StageRefused(r)
    BY <2>25 DEF StageRefused, Done, Goto
  <2>26. CASE CommitSchedule(r)
    BY <2>26 DEF CommitSchedule, Done, Goto, Scheduled, StagedStatus
  <2>27. CASE CommitFails(r)
    BY <2>27 DEF CommitFails, Step, Goto, Fault
  <2>28. CASE UndoStage(r)
    BY <2>28 DEF UndoStage, Done, Goto
  <2>29. CASE Destroy(r)
    BY <2>29 DEF Destroy, Goto, Admit
  <2>30. CASE RemoveSession(r)
    BY <2>30 DEF RemoveSession, Done, Goto, RowIsFree
  <2>31. CASE Crash(r)
    BY <2>31 DEF Crash, Done, Goto, Fault, Consuming
  <2>32. CASE PutUnnoticed(r)
    BY <2>32 DEF PutUnnoticed, Step, Goto, Fault
  <2>33. CASE StoreUnnoticed(r)
    BY <2>33 DEF StoreUnnoticed, Step, Goto, AfterStore, Mismatch, Fault
  <2>34. CASE MoveUnnoticed(r)
    BY <2>34 DEF MoveUnnoticed, Step, Goto, Fault
  <2> QED
    BY <1>3, <2>1, <2>2, <2>3, <2>4, <2>5, <2>6, <2>7, <2>8, <2>9, <2>10, <2>11, <2>12,
       <2>13, <2>14, <2>15, <2>16, <2>17, <2>18, <2>19, <2>20, <2>21, <2>22, <2>23, <2>24,
       <2>25, <2>26, <2>27, <2>28, <2>29, <2>30, <2>31, <2>32, <2>33, <2>34
       DEF ChunkRequest, CompleteRequest, ScheduleRequest
<1> QED
  BY <1>1, <1>2, <1>3 DEF Next
\* The lock is taken when it is free and given back when the transaction ends.
LEMMA LockingPreserved ==
    ASSUME TypeOK, Shape, Locking, [Next]_vars
    PROVE  Locking'
<1> USE DEF TypeOK, Index, File, Pcs, Shape, Locking, InTransaction, sessionVars, rigidVars, lossVars, fileVars, outcomeVars, requestVars
<1> USE ChunksAssumption
<1>1. CASE UNCHANGED vars
  BY <1>1 DEF vars
<1>2. CASE Expire
  BY <1>2 DEF Expire
<1>3. ASSUME NEW r \in Requests,
             ChunkRequest(r) \/ CompleteRequest(r) \/ ScheduleRequest(r)
                \/ Destroy(r) \/ RemoveSession(r) \/ Crash(r)
      PROVE  Locking'
  <2>1. ASSUME NEW i \in Index, UploadChunk(r, i) PROVE Locking'
    BY <2>1 DEF UploadChunk, Start, Goto, Usable
  <2>2. CASE PutChunk(r)
    BY <2>2 DEF PutChunk, Step, Goto
  <2>3. CASE LockChunk(r)
    BY <2>3 DEF LockChunk, Goto, RowIsFree
  <2>4. CASE OrphanChunk(r)
    BY <2>4 DEF OrphanChunk, Done, Goto, RowIsFree
  <2>5. CASE RecordChunk(r)
    BY <2>5 DEF RecordChunk, Done, Goto
  <2>6. CASE FindExpired(r)
    BY <2>6 DEF FindExpired, Start, Goto
  <2>7. CASE AbortExpired(r)
    BY <2>7 DEF AbortExpired, Done, Goto, RowIsFree
  <2>8. CASE Complete(r)
    BY <2>8 DEF Complete, Start, Goto, Usable, missingChunks, Admit
  <2>9. CASE AssembleChunk(r)
    BY <2>9 DEF AssembleChunk, MoreChunks, Readable
  <2>10. CASE EndAssembly(r)
    BY <2>10 DEF EndAssembly, Step, Goto, MoreChunks
  <2>11. CASE StoreAssembled(r)
    BY <2>11 DEF StoreAssembled, Step, Goto, AfterStore, Mismatch
  <2>12. CASE SniffAccepts(r)
    BY <2>12 DEF SniffAccepts, Step, Goto
  <2>13. CASE SniffRefuses(r)
    BY <2>13 DEF SniffRefuses, Step, Goto
  <2>14. CASE StageVerified(r)
    BY <2>14 DEF StageVerified, Goto
  <2>15. CASE DropAssembled(r)
    BY <2>15 DEF DropAssembled, Goto
  <2>16. CASE MoveToServed(r)
    BY <2>16 DEF MoveToServed, Step, Goto
  <2>17. CASE InsertRecord(r)
    BY <2>17 DEF InsertRecord, Goto
  <2>18. CASE PurgeChunk(r)
    BY <2>18 DEF PurgeChunk
  <2>19. CASE EndPurge(r)
    <3>1. /\ pc[r] = "purge" /\ then[r] # "refused" /\ pc' = [pc EXCEPT ![r] = AfterPurge(r)]
          /\ UNCHANGED <<op, lock>>
      BY <2>19 DEF EndPurge, Step, Goto
    <3>2. InTransaction(r)' <=> InTransaction(r)
      <4>1. CASE op[r] = "schedule"
        BY <3>1, <4>1 DEF AfterPurge
      <4>2. CASE op[r] # "schedule"
        BY <3>1, <4>2 DEF AfterPurge
      <4> QED
        BY <4>1, <4>2
    <3>3. \A q \in Requests : q # r => (InTransaction(q)' <=> InTransaction(q))
      BY <3>1
    <3> QED
      BY <3>1, <3>2, <3>3
  <2>20. CASE MarkSession(r)
    BY <2>20 DEF MarkSession, Done, Goto, RowIsFree, Outcome
  <2>21. CASE Schedule(r)
    BY <2>21 DEF Schedule, Start, Goto, Scheduled, Stageable
  <2>22. CASE LockSession(r)
    BY <2>22 DEF LockSession, Step, Goto, RowIsFree, Stageable, Admit
  <2>23. CASE SessionConflict(r)
    BY <2>23 DEF SessionConflict, Done, Goto, RowIsFree
  <2>24. CASE StageMissing(r)
    BY <2>24 DEF StageMissing, Done, Goto, MoreChunks, Readable
  <2>25. CASE StageRefused(r)
    <3>1. op[r] = "schedule" /\ r \in lock
      BY <2>25 DEF StageRefused
    <3>2. \A q \in Requests : q # r => ~InTransaction(q)
      BY <3>1
    <3>3. \A q \in Requests : ~InTransaction(q)'
      BY <2>25, <3>2 DEF StageRefused, Done, Goto
    <3> QED
      BY <2>25, <3>3 DEF StageRefused
  <2>26. CASE CommitSchedule(r)
    BY <2>26 DEF CommitSchedule, Done, Goto, Scheduled, StagedStatus
  <2>27. CASE CommitFails(r)
    BY <2>27 DEF CommitFails, Step, Goto, Fault
  <2>28. CASE UndoStage(r)
    BY <2>28 DEF UndoStage, Done, Goto
  <2>29. CASE Destroy(r)
    BY <2>29 DEF Destroy, Goto, Admit
  <2>30. CASE RemoveSession(r)
    BY <2>30 DEF RemoveSession, Done, Goto, RowIsFree
  <2>31. CASE Crash(r)
    BY <2>31 DEF Crash, Done, Goto, Fault, Consuming
  <2>32. CASE PutUnnoticed(r)
    BY <2>32 DEF PutUnnoticed, Step, Goto, Fault
  <2>33. CASE StoreUnnoticed(r)
    BY <2>33 DEF StoreUnnoticed, Step, Goto, AfterStore, Mismatch, Fault
  <2>34. CASE MoveUnnoticed(r)
    BY <2>34 DEF MoveUnnoticed, Step, Goto, Fault
  <2> QED
    BY <1>3, <2>1, <2>2, <2>3, <2>4, <2>5, <2>6, <2>7, <2>8, <2>9, <2>10, <2>11, <2>12,
       <2>13, <2>14, <2>15, <2>16, <2>17, <2>18, <2>19, <2>20, <2>21, <2>22, <2>23, <2>24,
       <2>25, <2>26, <2>27, <2>28, <2>29, <2>30, <2>31, <2>32, <2>33, <2>34
       DEF ChunkRequest, CompleteRequest, ScheduleRequest
<1> QED
  BY <1>1, <1>2, <1>3 DEF Next
\* Only the holder of the lock changes received_chunks, and the stager reads every chunk.
LEMMA ReadingPreserved ==
    ASSUME TypeOK, Shape, Locking, Reading, [Next]_vars
    PROVE  Reading'
<1> USE DEF TypeOK, Index, File, Pcs, Shape, Locking, InTransaction, Reading, ReadingOf, sessionVars, rigidVars, lossVars, fileVars, outcomeVars, requestVars
<1> USE ChunksAssumption
<1>1. CASE UNCHANGED vars
  BY <1>1 DEF vars
<1>2. CASE Expire
  BY <1>2 DEF Expire
<1>3. ASSUME NEW r \in Requests,
             ChunkRequest(r) \/ CompleteRequest(r) \/ ScheduleRequest(r)
                \/ Destroy(r) \/ RemoveSession(r) \/ Crash(r)
      PROVE  Reading'
  <2>1. ASSUME NEW i \in Index, UploadChunk(r, i) PROVE Reading'
    BY <2>1 DEF UploadChunk, Start, Goto, Usable
  <2>2. CASE PutChunk(r)
    BY <2>2 DEF PutChunk, Step, Goto
  <2>3. CASE LockChunk(r)
    BY <2>3 DEF LockChunk, Goto, RowIsFree
  <2>4. CASE OrphanChunk(r)
    BY <2>4 DEF OrphanChunk, Done, Goto, RowIsFree
  <2>5. CASE RecordChunk(r)
    BY <2>5 DEF RecordChunk, Done, Goto
  <2>6. CASE FindExpired(r)
    BY <2>6 DEF FindExpired, Start, Goto
  <2>7. CASE AbortExpired(r)
    BY <2>7 DEF AbortExpired, Done, Goto, RowIsFree
  <2>8. CASE Complete(r)
    BY <2>8 DEF Complete, Start, Goto, Usable, missingChunks, Admit
  <2>9. CASE AssembleChunk(r)
    <3>1. /\ at' = [at EXCEPT ![r] = at[r] + 1]
          /\ part' = [part EXCEPT ![r] = part[r] \cup ({at[r]} \cap chunks)]
          /\ UNCHANGED <<pc, op, received, checked>>
      BY <2>9 DEF AssembleChunk
    <3>2. op[r] = "schedule" => at[r] \in chunks
      BY <2>9 DEF AssembleChunk, Readable
    <3>3. op[r] = "schedule" => part'[r] = 0..(at'[r] - 1)
      <4> SUFFICES ASSUME op[r] = "schedule" PROVE part'[r] = 0..(at'[r] - 1)
        OBVIOUS
      <4>1. part[r] = 0..(at[r] - 1) /\ at[r] \in Nat
        BY <2>9 DEF AssembleChunk
      <4>2. part'[r] = (0..(at[r] - 1)) \cup {at[r]} /\ at'[r] = at[r] + 1
        BY <3>1, <3>2, <4>1
      <4> QED
        BY <4>1, <4>2
    <3>4. pc[r] = "assemble"
      BY <2>9 DEF AssembleChunk
    <3>5. \A q \in Requests : q # r => part'[q] = part[q] /\ at'[q] = at[q]
      BY <3>1
    <3>6. at[r] <= N /\ pc'[r] = "assemble"
      BY <3>1, <3>4
    <3>7. ASSUME NEW q \in Requests, q # r PROVE ReadingOf(q)'
      BY <3>1, <3>5, <3>7 DEF ReadingOf
    <3>8. ReadingOf(r)'
      BY <3>1, <3>3, <3>6 DEF ReadingOf
    <3> QED
      BY <3>7, <3>8 DEF ReadingOf
  <2>10. CASE EndAssembly(r)
    BY <2>10 DEF EndAssembly, Step, Goto, MoreChunks
  <2>11. CASE StoreAssembled(r)
    BY <2>11 DEF StoreAssembled, Step, Goto, AfterStore, Mismatch
  <2>12. CASE SniffAccepts(r)
    BY <2>12 DEF SniffAccepts, Step, Goto
  <2>13. CASE SniffRefuses(r)
    BY <2>13 DEF SniffRefuses, Step, Goto
  <2>14. CASE StageVerified(r)
    BY <2>14 DEF StageVerified, Goto
  <2>15. CASE DropAssembled(r)
    BY <2>15 DEF DropAssembled, Goto
  <2>16. CASE MoveToServed(r)
    BY <2>16 DEF MoveToServed, Step, Goto
  <2>17. CASE InsertRecord(r)
    BY <2>17 DEF InsertRecord, Goto
  <2>18. CASE PurgeChunk(r)
    BY <2>18 DEF PurgeChunk
  <2>19. CASE EndPurge(r)
    BY <2>19 DEF EndPurge, Step, Goto, AfterPurge
  <2>20. CASE MarkSession(r)
    BY <2>20 DEF MarkSession, Done, Goto, RowIsFree, Outcome
  <2>21. CASE Schedule(r)
    BY <2>21 DEF Schedule, Start, Goto, Scheduled, Stageable
  <2>22. CASE LockSession(r)
    <3>1. part[r] = 0..(at[r] - 1)
      <4>1. at[r] = 0 /\ part[r] = {}
        BY <2>22 DEF LockSession, Step
      <4>2. 0..(0 - 1) = {}
        OBVIOUS
      <4> QED
        BY <4>1, <4>2
    <3>2. pc' = [pc EXCEPT ![r] = "assemble"]
      BY <2>22 DEF LockSession, Step, Goto
    <3>3. UNCHANGED <<op, at, part, received, checked>>
      BY <2>22 DEF LockSession, Step
    <3>4. ASSUME NEW q \in Requests, q # r PROVE ReadingOf(q)'
      BY <3>2, <3>3, <3>4 DEF ReadingOf
    <3>5. ReadingOf(r)'
      BY <3>1, <3>2, <3>3 DEF ReadingOf
    <3> QED
      BY <3>4, <3>5 DEF ReadingOf
  <2>23. CASE SessionConflict(r)
    BY <2>23 DEF SessionConflict, Done, Goto, RowIsFree
  <2>24. CASE StageMissing(r)
    BY <2>24 DEF StageMissing, Done, Goto, MoreChunks, Readable
  <2>25. CASE StageRefused(r)
    BY <2>25 DEF StageRefused, Done, Goto
  <2>26. CASE CommitSchedule(r)
    BY <2>26 DEF CommitSchedule, Done, Goto, Scheduled, StagedStatus
  <2>27. CASE CommitFails(r)
    BY <2>27 DEF CommitFails, Step, Goto, Fault
  <2>28. CASE UndoStage(r)
    BY <2>28 DEF UndoStage, Done, Goto
  <2>29. CASE Destroy(r)
    BY <2>29 DEF Destroy, Goto, Admit
  <2>30. CASE RemoveSession(r)
    BY <2>30 DEF RemoveSession, Done, Goto, RowIsFree
  <2>31. CASE Crash(r)
    BY <2>31 DEF Crash, Done, Goto, Fault, Consuming
  <2>32. CASE PutUnnoticed(r)
    BY <2>32 DEF PutUnnoticed, Step, Goto, Fault
  <2>33. CASE StoreUnnoticed(r)
    BY <2>33 DEF StoreUnnoticed, Step, Goto, AfterStore, Mismatch, Fault
  <2>34. CASE MoveUnnoticed(r)
    BY <2>34 DEF MoveUnnoticed, Step, Goto, Fault
  <2> QED
    BY <1>3, <2>1, <2>2, <2>3, <2>4, <2>5, <2>6, <2>7, <2>8, <2>9, <2>10, <2>11, <2>12,
       <2>13, <2>14, <2>15, <2>16, <2>17, <2>18, <2>19, <2>20, <2>21, <2>22, <2>23, <2>24,
       <2>25, <2>26, <2>27, <2>28, <2>29, <2>30, <2>31, <2>32, <2>33, <2>34
       DEF ChunkRequest, CompleteRequest, ScheduleRequest
<1> QED
  BY <1>1, <1>2, <1>3 DEF Next
\* Every other write of the status waits for the staging transaction.
LEMMA StagingPreserved ==
    ASSUME TypeOK, Shape, Locking, Staging, [Next]_vars
    PROVE  Staging'
<1> USE DEF TypeOK, Index, File, Pcs, Shape, Locking, InTransaction, Staging, sessionVars, rigidVars, lossVars, fileVars, outcomeVars, requestVars
<1> USE ChunksAssumption
<1>1. CASE UNCHANGED vars
  BY <1>1 DEF vars
<1>2. CASE Expire
  BY <1>2 DEF Expire
<1>3. ASSUME NEW r \in Requests,
             ChunkRequest(r) \/ CompleteRequest(r) \/ ScheduleRequest(r)
                \/ Destroy(r) \/ RemoveSession(r) \/ Crash(r)
      PROVE  Staging'
  <2>1. ASSUME NEW i \in Index, UploadChunk(r, i) PROVE Staging'
    BY <2>1 DEF UploadChunk, Start, Goto, Usable
  <2>2. CASE PutChunk(r)
    BY <2>2 DEF PutChunk, Step, Goto
  <2>3. CASE LockChunk(r)
    BY <2>3 DEF LockChunk, Goto, RowIsFree
  <2>4. CASE OrphanChunk(r)
    BY <2>4 DEF OrphanChunk, Done, Goto, RowIsFree
  <2>5. CASE RecordChunk(r)
    BY <2>5 DEF RecordChunk, Done, Goto
  <2>6. CASE FindExpired(r)
    BY <2>6 DEF FindExpired, Start, Goto
  <2>7. CASE AbortExpired(r)
    BY <2>7 DEF AbortExpired, Done, Goto, RowIsFree
  <2>8. CASE Complete(r)
    BY <2>8 DEF Complete, Start, Goto, Usable, missingChunks, Admit
  <2>9. CASE AssembleChunk(r)
    BY <2>9 DEF AssembleChunk, MoreChunks, Readable
  <2>10. CASE EndAssembly(r)
    BY <2>10 DEF EndAssembly, Step, Goto, MoreChunks
  <2>11. CASE StoreAssembled(r)
    BY <2>11 DEF StoreAssembled, Step, Goto, AfterStore, Mismatch
  <2>12. CASE SniffAccepts(r)
    BY <2>12 DEF SniffAccepts, Step, Goto
  <2>13. CASE SniffRefuses(r)
    BY <2>13 DEF SniffRefuses, Step, Goto
  <2>14. CASE StageVerified(r)
    BY <2>14 DEF StageVerified, Goto
  <2>15. CASE DropAssembled(r)
    BY <2>15 DEF DropAssembled, Goto
  <2>16. CASE MoveToServed(r)
    BY <2>16 DEF MoveToServed, Step, Goto
  <2>17. CASE InsertRecord(r)
    BY <2>17 DEF InsertRecord, Goto
  <2>18. CASE PurgeChunk(r)
    BY <2>18 DEF PurgeChunk
  <2>19. CASE EndPurge(r)
    BY <2>19 DEF EndPurge, Step, Goto, AfterPurge
  <2>20. CASE MarkSession(r)
    BY <2>20 DEF MarkSession, Done, Goto, RowIsFree, Outcome
  <2>21. CASE Schedule(r)
    BY <2>21 DEF Schedule, Start, Goto, Scheduled, Stageable
  <2>22. CASE LockSession(r)
    BY <2>22 DEF LockSession, Step, Goto, RowIsFree, Stageable, Admit
  <2>23. CASE SessionConflict(r)
    BY <2>23 DEF SessionConflict, Done, Goto, RowIsFree
  <2>24. CASE StageMissing(r)
    BY <2>24 DEF StageMissing, Done, Goto, MoreChunks, Readable
  <2>25. CASE StageRefused(r)
    BY <2>25 DEF StageRefused, Done, Goto
  <2>26. CASE CommitSchedule(r)
    BY <2>26 DEF CommitSchedule, Done, Goto, Scheduled, StagedStatus
  <2>27. CASE CommitFails(r)
    BY <2>27 DEF CommitFails, Step, Goto, Fault
  <2>28. CASE UndoStage(r)
    BY <2>28 DEF UndoStage, Done, Goto
  <2>29. CASE Destroy(r)
    BY <2>29 DEF Destroy, Goto, Admit
  <2>30. CASE RemoveSession(r)
    BY <2>30 DEF RemoveSession, Done, Goto, RowIsFree
  <2>31. CASE Crash(r)
    BY <2>31 DEF Crash, Done, Goto, Fault, Consuming
  <2>32. CASE PutUnnoticed(r)
    BY <2>32 DEF PutUnnoticed, Step, Goto, Fault
  <2>33. CASE StoreUnnoticed(r)
    BY <2>33 DEF StoreUnnoticed, Step, Goto, AfterStore, Mismatch, Fault
  <2>34. CASE MoveUnnoticed(r)
    BY <2>34 DEF MoveUnnoticed, Step, Goto, Fault
  <2> QED
    BY <1>3, <2>1, <2>2, <2>3, <2>4, <2>5, <2>6, <2>7, <2>8, <2>9, <2>10, <2>11, <2>12,
       <2>13, <2>14, <2>15, <2>16, <2>17, <2>18, <2>19, <2>20, <2>21, <2>22, <2>23, <2>24,
       <2>25, <2>26, <2>27, <2>28, <2>29, <2>30, <2>31, <2>32, <2>33, <2>34
       DEF ChunkRequest, CompleteRequest, ScheduleRequest
<1> QED
  BY <1>1, <1>2, <1>3 DEF Next
\* A chunk list only grows, and what is recorded is what was read.
LEMMA OutcomesPreserved ==
    ASSUME TypeOK, Shape, Locking, Reading, Outcomes, [Next]_vars
    PROVE  Outcomes'
<1> USE DEF TypeOK, Index, File, Pcs, Shape, Locking, InTransaction, Reading, ReadingOf, Outcomes, AckedKept, ScheduleIsWhole, RecordIsWhole, sessionVars, rigidVars, lossVars, fileVars, outcomeVars, requestVars
<1> USE ChunksAssumption
<1>1. CASE UNCHANGED vars
  BY <1>1 DEF vars
<1>2. CASE Expire
  BY <1>2 DEF Expire
<1>3. ASSUME NEW r \in Requests,
             ChunkRequest(r) \/ CompleteRequest(r) \/ ScheduleRequest(r)
                \/ Destroy(r) \/ RemoveSession(r) \/ Crash(r)
      PROVE  Outcomes'
  <2>1. ASSUME NEW i \in Index, UploadChunk(r, i) PROVE Outcomes'
    BY <2>1 DEF UploadChunk, Start, Goto, Usable
  <2>2. CASE PutChunk(r)
    BY <2>2 DEF PutChunk, Step, Goto
  <2>3. CASE LockChunk(r)
    BY <2>3 DEF LockChunk, Goto, RowIsFree
  <2>4. CASE OrphanChunk(r)
    BY <2>4 DEF OrphanChunk, Done, Goto, RowIsFree
  <2>5. CASE RecordChunk(r)
    BY <2>5 DEF RecordChunk, Done, Goto
  <2>6. CASE FindExpired(r)
    BY <2>6 DEF FindExpired, Start, Goto
  <2>7. CASE AbortExpired(r)
    BY <2>7 DEF AbortExpired, Done, Goto, RowIsFree
  <2>8. CASE Complete(r)
    BY <2>8 DEF Complete, Start, Goto, Usable, missingChunks, Admit
  <2>9. CASE AssembleChunk(r)
    BY <2>9 DEF AssembleChunk, MoreChunks, Readable
  <2>10. CASE EndAssembly(r)
    BY <2>10 DEF EndAssembly, Step, Goto, MoreChunks
  <2>11. CASE StoreAssembled(r)
    BY <2>11 DEF StoreAssembled, Step, Goto, AfterStore, Mismatch
  <2>12. CASE SniffAccepts(r)
    BY <2>12 DEF SniffAccepts, Step, Goto
  <2>13. CASE SniffRefuses(r)
    BY <2>13 DEF SniffRefuses, Step, Goto
  <2>14. CASE StageVerified(r)
    BY <2>14 DEF StageVerified, Goto
  <2>15. CASE DropAssembled(r)
    BY <2>15 DEF DropAssembled, Goto
  <2>16. CASE MoveToServed(r)
    BY <2>16 DEF MoveToServed, Step, Goto
  <2>17. CASE InsertRecord(r)
    BY <2>17 DEF InsertRecord, Goto
  <2>18. CASE PurgeChunk(r)
    BY <2>18 DEF PurgeChunk
  <2>19. CASE EndPurge(r)
    BY <2>19 DEF EndPurge, Step, Goto, AfterPurge
  <2>20. CASE MarkSession(r)
    BY <2>20 DEF MarkSession, Done, Goto, RowIsFree, Outcome
  <2>21. CASE Schedule(r)
    BY <2>21 DEF Schedule, Start, Goto, Scheduled, Stageable
  <2>22. CASE LockSession(r)
    BY <2>22 DEF LockSession, Step, Goto, RowIsFree, Stageable, Admit
  <2>23. CASE SessionConflict(r)
    BY <2>23 DEF SessionConflict, Done, Goto, RowIsFree
  <2>24. CASE StageMissing(r)
    BY <2>24 DEF StageMissing, Done, Goto, MoreChunks, Readable
  <2>25. CASE StageRefused(r)
    BY <2>25 DEF StageRefused, Done, Goto
  <2>26. CASE CommitSchedule(r)
    BY <2>26 DEF CommitSchedule, Done, Goto, Scheduled, StagedStatus
  <2>27. CASE CommitFails(r)
    BY <2>27 DEF CommitFails, Step, Goto, Fault
  <2>28. CASE UndoStage(r)
    BY <2>28 DEF UndoStage, Done, Goto
  <2>29. CASE Destroy(r)
    BY <2>29 DEF Destroy, Goto, Admit
  <2>30. CASE RemoveSession(r)
    BY <2>30 DEF RemoveSession, Done, Goto, RowIsFree
  <2>31. CASE Crash(r)
    BY <2>31 DEF Crash, Done, Goto, Fault, Consuming
  <2>32. CASE PutUnnoticed(r)
    BY <2>32 DEF PutUnnoticed, Step, Goto, Fault
  <2>33. CASE StoreUnnoticed(r)
    BY <2>33 DEF StoreUnnoticed, Step, Goto, AfterStore, Mismatch, Fault
  <2>34. CASE MoveUnnoticed(r)
    BY <2>34 DEF MoveUnnoticed, Step, Goto, Fault
  <2> QED
    BY <1>3, <2>1, <2>2, <2>3, <2>4, <2>5, <2>6, <2>7, <2>8, <2>9, <2>10, <2>11, <2>12,
       <2>13, <2>14, <2>15, <2>16, <2>17, <2>18, <2>19, <2>20, <2>21, <2>22, <2>23, <2>24,
       <2>25, <2>26, <2>27, <2>28, <2>29, <2>30, <2>31, <2>32, <2>33, <2>34
       DEF ChunkRequest, CompleteRequest, ScheduleRequest
<1> QED
  BY <1>1, <1>2, <1>3 DEF Next

\* A consumer admitted while no other is at work finds every chunk on disk, reads
\* all of them, and is the only one to touch the assembled file.
LEMMA SerialPreserved ==
    ASSUME TypeOK, Shape, Locking, Reading, Staging, Serial, [Next]_vars
    PROVE  Serial'
<1> USE DEF TypeOK, Index, File, Pcs, Shape, Locking, InTransaction, Staging, Serial, Alone,
            ServesAlone, Filed, OnDisk, Purging, Emptying, Assembling, Consuming, Quiet,
            sessionVars, rigidVars, lossVars, fileVars, outcomeVars, requestVars
<1> USE ChunksAssumption
<1>1. CASE UNCHANGED vars
  BY <1>1 DEF vars
<1>2. CASE Expire
  BY <1>2 DEF Expire
<1>3. ASSUME NEW r \in Requests,
             ChunkRequest(r) \/ CompleteRequest(r) \/ ScheduleRequest(r)
                \/ Destroy(r) \/ RemoveSession(r) \/ Crash(r)
      PROVE  Serial'
  <2>1. ASSUME NEW i \in Index, UploadChunk(r, i) PROVE Serial'
    BY <2>1 DEF UploadChunk, Start, Goto, Usable
  <2>2. CASE PutChunk(r)
    BY <2>2 DEF PutChunk, Step, Goto
  <2>3. CASE LockChunk(r)
    BY <2>3 DEF LockChunk, Goto, RowIsFree
  <2>4. CASE OrphanChunk(r)
    BY <2>4 DEF OrphanChunk, Done, Goto, RowIsFree
  <2>5. CASE RecordChunk(r)
    <3>1. op[r] = "chunk" /\ at[r] \in Index /\ part[r] = received /\ pc[r] = "record"
      BY <2>5 DEF RecordChunk, Reading, ReadingOf
    <3>2. /\ received' = received \cup {at[r]}
          /\ UNCHANGED <<status, lossVars, fileVars, outcomeVars, spoiled>>
          /\ op' = [op EXCEPT ![r] = "none"] /\ pc' = [pc EXCEPT ![r] = "idle"]
          /\ at' = [at EXCEPT ![r] = 0] /\ part' = [part EXCEPT ![r] = {}]
          /\ then' = [then EXCEPT ![r] = "none"]
      BY <2>5, <3>1 DEF RecordChunk, Done, Goto
    <3>3. \A q \in Requests : Consuming(q)' <=> Consuming(q)
      BY <3>1, <3>2
    <3>4. \A q \in Requests : Purging(q)' <=> Purging(q)
      BY <3>1, <3>2
    <3>5. ASSUME ~spoiled, \A q \in Requests : ServesAlone(q), NEW q \in Requests
          PROVE  ServesAlone(q)'
      BY <3>1, <3>2, <3>5
    <3>6. ASSUME ~spoiled, OnDisk PROVE OnDisk'
      BY <3>1, <3>2, <3>6
    <3> QED
      BY <3>2, <3>3, <3>4, <3>5, <3>6
  <2>6. CASE FindExpired(r)
    BY <2>6 DEF FindExpired, Start, Goto
  <2>7. CASE AbortExpired(r)
    BY <2>7 DEF AbortExpired, Done, Goto, RowIsFree
  <2>8. CASE Complete(r)
    <3>1. /\ status = "pending" /\ pc[r] = "idle" /\ Index \subseteq received
          /\ UNCHANGED <<status, received, lossVars, fileVars, outcomeVars, part, then>>
          /\ op' = [op EXCEPT ![r] = "complete"] /\ pc' = [pc EXCEPT ![r] = "assemble"]
          /\ at' = [at EXCEPT ![r] = 0]
          /\ spoiled' = (spoiled \/ \E q \in Requests : Consuming(q))
      BY <2>8 DEF Complete, Start, Goto, Usable, missingChunks, Admit
    <3>2. SUFFICES ASSUME ~spoiled, \A q \in Requests : ~Consuming(q) PROVE Alone'
      BY <3>1
    <3>3. received \ unwritten \subseteq chunks /\ records = <<>> /\ schedules = {} /\ quarantine = {}
      BY <3>1, <3>2
    <3>4. part[r] = {} /\ 0..(0 - 1) = {}
      BY <3>1
    <3>5. ASSUME NEW q \in Requests PROVE ServesAlone(q)' /\ (Consuming(q)' => q = r)
      <4>1. CASE q = r
        BY <3>1, <3>3, <3>4, <4>1
      <4>2. CASE q # r
        BY <3>1, <3>2, <3>3, <4>2
      <4> QED
        BY <4>1, <4>2
    <3>6. OnDisk'
      BY <3>1, <3>2, <3>3
    <3> QED
      BY <3>1, <3>3, <3>5, <3>6
  <2>9. CASE AssembleChunk(r)
    <3>1. /\ at' = [at EXCEPT ![r] = at[r] + 1] /\ pc[r] = "assemble" /\ at[r] < N
          /\ part' = [part EXCEPT ![r] = part[r] \cup ({at[r]} \cap chunks)]
          /\ UNCHANGED <<status, received, lossVars, fileVars, outcomeVars, pc, op, then, spoiled>>
      BY <2>9 DEF AssembleChunk, MoreChunks
    <3>2. SUFFICES ASSUME ~spoiled PROVE Alone'
      BY <3>1
    <3>3. Index \ unwritten \subseteq chunks /\ records = <<>> /\ schedules = {} /\ quarantine = {}
      BY <3>1, <3>2
    <3>4. (0..(at'[r] - 1)) \ unwritten \subseteq part'[r]
      <4>1. (0..(at[r] - 1)) \ unwritten \subseteq part[r] /\ at[r] \in Index
        BY <3>1, <3>2
      <4>2. /\ part'[r] = part[r] \cup ({at[r]} \cap chunks) /\ at'[r] = at[r] + 1
            /\ at[r] \in unwritten \/ at[r] \in chunks
        BY <3>1, <3>3, <4>1
      <4> QED
        BY <4>1, <4>2
    <3>5. ASSUME NEW q \in Requests PROVE ServesAlone(q)'
      <4>1. CASE q = r
        BY <3>1, <3>3, <3>4, <4>1
      <4>2. CASE q # r
        BY <3>1, <3>2, <4>2
      <4> QED
        BY <4>1, <4>2
    <3>6. OnDisk => OnDisk'
      BY <3>1
    <3> QED
      BY <3>1, <3>2, <3>5, <3>6
  <2>10. CASE EndAssembly(r)
    <3>1. /\ pc[r] = "assemble" /\ ~(at[r] < N) /\ pc' = [pc EXCEPT ![r] = "store"]
          /\ UNCHANGED <<status, received, lossVars, fileVars, outcomeVars, op, at, part, then, spoiled>>
      BY <2>10 DEF EndAssembly, Step, Goto, MoreChunks
    <3>2. SUFFICES ASSUME ~spoiled PROVE Alone'
      BY <3>1
    <3>3. /\ op[r] \in {"complete", "schedule"} /\ Consuming(r) /\ at[r] = N
          /\ (0..(N - 1)) \ unwritten \subseteq part[r]
      <4>1. at[r] = N
        BY <3>1
      <4>2. (0..(at[r] - 1)) \ unwritten \subseteq part[r]
        BY <3>1, <3>2
      <4> QED
        BY <3>1, <4>1, <4>2
    <3>4. ASSUME NEW q \in Requests, q # r PROVE ~Consuming(q) /\ ~Consuming(q)'
      BY <3>1, <3>2, <3>3, <3>4
    <3>5. ASSUME NEW q \in Requests PROVE ServesAlone(q)'
      <4>1. CASE q = r
        BY <3>1, <3>2, <3>3, <4>1
      <4>2. CASE q # r
        BY <3>1, <3>2, <3>4, <4>2
      <4> QED
        BY <4>1, <4>2
    <3>6. OnDisk => OnDisk'
      BY <3>1, <3>3
    <3> QED
      BY <3>1, <3>2, <3>3, <3>4, <3>5, <3>6
  <2>11. CASE StoreAssembled(r)
    BY <2>11 DEF StoreAssembled, Step, Goto, AfterStore, Mismatch
  <2>12. CASE SniffAccepts(r)
    <3>1. /\ pc[r] = "sniff" /\ op[r] = "complete" /\ quarantine # {}
          /\ pc' = [pc EXCEPT ![r] = "move"]
          /\ UNCHANGED <<status, received, lossVars, fileVars, outcomeVars, op, at, part, then, spoiled>>
      BY <2>12 DEF SniffAccepts, Step, Goto, Accepted
    <3>2. SUFFICES ASSUME ~spoiled PROVE Alone'
      BY <3>1
    <3>3. Consuming(r) /\ quarantine = {part[r]}
      BY <3>1, <3>2
    <3>4. ASSUME NEW q \in Requests, q # r PROVE ~Consuming(q) /\ ~Consuming(q)'
      BY <3>1, <3>2, <3>3, <3>4
    <3>5. ASSUME NEW q \in Requests PROVE ServesAlone(q)'
      <4>1. CASE q = r
        BY <3>1, <3>2, <3>3, <4>1
      <4>2. CASE q # r
        BY <3>1, <3>2, <3>4, <4>2
      <4> QED
        BY <4>1, <4>2
    <3>6. OnDisk => OnDisk'
      BY <3>1, <3>3
    <3> QED
      BY <3>1, <3>2, <3>3, <3>4, <3>5, <3>6
  <2>13. CASE SniffRefuses(r)
    BY <2>13 DEF SniffRefuses, Step, Goto
  <2>14. CASE StageVerified(r)
    <3>1. /\ pc[r] = "sniff" /\ op[r] = "schedule" /\ quarantine # {}
          /\ pc' = [pc EXCEPT ![r] = "purge"] /\ then' = [then EXCEPT ![r] = "staged"]
          /\ UNCHANGED <<status, received, lossVars, fileVars, outcomeVars, op, at, part, spoiled>>
      BY <2>14 DEF StageVerified, Goto, Accepted
    <3>2. SUFFICES ASSUME ~spoiled PROVE Alone'
      BY <3>1
    <3>3. Consuming(r) /\ quarantine = {part[r]} /\ records = <<>> /\ schedules = {}
      BY <3>1, <3>2
    <3>4. ASSUME NEW q \in Requests, q # r PROVE ~Consuming(q) /\ ~Consuming(q)'
      BY <3>1, <3>2, <3>3, <3>4
    <3>5. ASSUME NEW q \in Requests PROVE ServesAlone(q)'
      <4>1. CASE q = r
        BY <3>1, <3>2, <3>3, <4>1
      <4>2. CASE q # r
        BY <3>1, <3>2, <3>4, <4>2
      <4> QED
        BY <4>1, <4>2
    <3>6. OnDisk => OnDisk'
      BY <3>1, <3>3
    <3> QED
      BY <3>1, <3>2, <3>3, <3>4, <3>5, <3>6
  <2>15. CASE DropAssembled(r)
    BY <2>15 DEF DropAssembled, Goto
  <2>16. CASE MoveToServed(r)
    <3>1. /\ pc[r] = "move" /\ pc' = [pc EXCEPT ![r] = "insert"] /\ quarantine' = {}
          /\ served' = IF quarantine = {} THEN served ELSE quarantine
          /\ UNCHANGED <<status, received, lossVars, chunks, outcomeVars, op, at, part, then, spoiled>>
      BY <2>16 DEF MoveToServed, Step, Goto
    <3>2. SUFFICES ASSUME ~spoiled PROVE Alone'
      BY <3>1
    <3>3. /\ op[r] = "complete" /\ Index \ unwritten \subseteq chunks /\ records = <<>> /\ schedules = {}
          /\ Index \ unwritten \subseteq part[r] /\ quarantine = {part[r]}
      BY <3>1, <3>2
    <3>4. served' = {part[r]}
      BY <3>1, <3>3
    <3>5. ASSUME NEW q \in Requests, q # r PROVE ~Consuming(q) /\ ~Consuming(q)'
      BY <3>1, <3>2, <3>3, <3>5
    <3>6. ASSUME NEW q \in Requests PROVE ServesAlone(q)'
      <4>1. CASE q = r
        BY <3>1, <3>3, <3>4, <4>1
      <4>2. CASE q # r
        BY <3>1, <3>2, <3>5, <4>2
      <4> QED
        BY <4>1, <4>2
    <3>7. OnDisk => OnDisk'
      BY <3>1, <3>3
    <3> QED
      BY <3>1, <3>2, <3>3, <3>4, <3>5, <3>6, <3>7
  <2>17. CASE InsertRecord(r)
    <3>1. /\ pc[r] = "insert" /\ records' = Append(records, part[r])
          /\ pc' = [pc EXCEPT ![r] = "purge"] /\ then' = [then EXCEPT ![r] = "completed"]
          /\ UNCHANGED <<status, received, lossVars, fileVars, schedules, op, at, part, spoiled>>
      BY <2>17 DEF InsertRecord, Goto
    <3>2. SUFFICES ASSUME ~spoiled PROVE Alone'
      BY <3>1
    <3>3. /\ op[r] = "complete" /\ Consuming(r) /\ records' = <<part[r]>> /\ schedules = {}
          /\ Filed(part[r])
      <4>1. op[r] = "complete" /\ Consuming(r) /\ records = <<>> /\ schedules = {} /\ Filed(part[r])
        BY <3>1, <3>2
      <4>2. Append(<<>>, part[r]) = <<part[r]>>
        OBVIOUS
      <4> QED
        BY <3>1, <4>1, <4>2
    <3>4. ASSUME NEW q \in Requests, q # r PROVE ~Consuming(q) /\ ~Consuming(q)'
      BY <3>1, <3>2, <3>3, <3>4
    <3>5. ASSUME NEW q \in Requests PROVE ServesAlone(q)'
      <4>1. CASE q = r
        BY <3>1, <3>2, <3>3, <4>1
      <4>2. CASE q # r
        BY <3>1, <3>2, <3>4, <4>2
      <4> QED
        BY <4>1, <4>2
    <3>6. Len(records') = 1 /\ records'[1] = part[r] /\ Purging(r)'
      <4>1. Len(<<part[r]>>) = 1 /\ <<part[r]>>[1] = part[r]
        OBVIOUS
      <4> QED
        BY <3>1, <3>3, <4>1
    <3>7. Filed(records[1])'
      BY <3>1, <3>3, <3>6
    <3>8. \A q, p \in Requests : Consuming(q)' /\ Consuming(p)' => q = p
      BY <3>1, <3>4
    <3> QED
      BY <3>1, <3>2, <3>3, <3>5, <3>6, <3>7, <3>8
  <2>18. CASE PurgeChunk(r)
    <3>1. /\ pc[r] = "purge" /\ chunks' \in SUBSET chunks
          /\ UNCHANGED <<status, received, lossVars, quarantine, served, outcomeVars, pc, op, at, part,
                         then, spoiled>>
      BY <2>18 DEF PurgeChunk
    <3>2. SUFFICES ASSUME ~spoiled PROVE Alone'
      BY <3>1
    <3>3. Purging(r) /\ Purging(r)' /\ Consuming(r)
      BY <3>1
    <3>4. ASSUME NEW q \in Requests, q # r PROVE ~Consuming(q)
      BY <3>2, <3>3, <3>4
    <3>5. ASSUME NEW q \in Requests PROVE ServesAlone(q)'
      <4>1. CASE q = r
        BY <3>1, <3>2, <4>1
      <4>2. CASE q # r
        BY <3>1, <3>2, <3>4, <4>2
      <4> QED
        BY <4>1, <4>2
    <3> QED
      BY <3>1, <3>2, <3>3, <3>5
  <2>19. CASE EndPurge(r)
    <3>1. /\ pc[r] = "purge" /\ chunks = {} /\ then[r] # "refused"
          /\ pc' = [pc EXCEPT ![r] = AfterPurge(r)]
          /\ UNCHANGED <<status, received, lossVars, fileVars, outcomeVars, op, at, part, then, spoiled>>
      BY <2>19 DEF EndPurge, Step, Goto
    <3>2. SUFFICES ASSUME ~spoiled PROVE Alone'
      BY <3>1
    <3>3. /\ op[r] \in {"complete", "schedule", "destroy"} /\ Consuming(r) /\ Purging(r)
          /\ pc'[r] \in {"mark", "commit", "remove"}
          /\ pc'[r] = "mark" => op[r] = "complete"
          /\ pc'[r] = "commit" => op[r] = "schedule" /\ then[r] = "staged"
      BY <3>1, <3>2 DEF AfterPurge
    <3>4. ASSUME NEW q \in Requests, q # r PROVE ~Consuming(q) /\ ~Consuming(q)'
      BY <3>1, <3>2, <3>3, <3>4
    <3>5. ASSUME NEW q \in Requests PROVE ServesAlone(q)'
      <4>1. CASE q = r
        BY <3>1, <3>2, <3>3, <4>1
      <4>2. CASE q # r
        BY <3>1, <3>2, <3>4, <4>2
      <4> QED
        BY <4>1, <4>2
    <3>6. Purging(r)' /\ Consuming(r)'
      BY <3>1, <3>3
    <3> QED
      BY <3>1, <3>2, <3>3, <3>4, <3>5, <3>6
  <2>20. CASE MarkSession(r)
    <3>1. /\ pc[r] = "mark" /\ status' # "pending"
          /\ UNCHANGED <<received, lossVars, fileVars, outcomeVars, spoiled>>
          /\ op' = [op EXCEPT ![r] = "none"] /\ pc' = [pc EXCEPT ![r] = "idle"]
          /\ at' = [at EXCEPT ![r] = 0] /\ part' = [part EXCEPT ![r] = {}]
          /\ then' = [then EXCEPT ![r] = "none"]
      BY <2>20 DEF MarkSession, Done, Goto, RowIsFree, Outcome
    <3>2. SUFFICES ASSUME ~spoiled PROVE Alone'
      BY <3>1
    <3>3. op[r] = "complete" /\ Consuming(r)
      BY <3>1, <3>2
    <3>4. ASSUME NEW q \in Requests, q # r PROVE ~Consuming(q) /\ ~Consuming(q)'
      BY <3>1, <3>2, <3>3, <3>4
    <3>5. ASSUME NEW q \in Requests PROVE ServesAlone(q)'
      <4>1. CASE q = r
        BY <3>1, <3>2, <3>3, <4>1
      <4>2. CASE q # r
        BY <3>1, <3>2, <3>4, <4>2
      <4> QED
        BY <4>1, <4>2
    <3> QED
      BY <3>1, <3>2, <3>4, <3>5
  <2>21. CASE Schedule(r)
    BY <2>21 DEF Schedule, Start, Goto, Scheduled, Stageable
  <2>22. CASE LockSession(r)
    <3>1. /\ status = "pending" /\ pc[r] = "session" /\ Index \subseteq received
          /\ UNCHANGED <<status, received, lossVars, fileVars, outcomeVars, op, at, part, then>>
          /\ pc' = [pc EXCEPT ![r] = "assemble"]
          /\ spoiled' = (spoiled \/ \E q \in Requests : Consuming(q))
      BY <2>22 DEF LockSession, Step, Goto, Stageable, missingChunks, Admit
    <3>2. SUFFICES ASSUME ~spoiled, \A q \in Requests : ~Consuming(q) PROVE Alone'
      BY <3>1
    <3>3. received \ unwritten \subseteq chunks /\ records = <<>> /\ schedules = {} /\ quarantine = {}
      BY <3>1, <3>2
    <3>4. op[r] = "schedule" /\ at[r] = 0 /\ part[r] = {} /\ 0..(0 - 1) = {}
      BY <3>1
    <3>5. ASSUME NEW q \in Requests PROVE ServesAlone(q)' /\ (Consuming(q)' => q = r)
      <4>1. CASE q = r
        BY <3>1, <3>3, <3>4, <4>1
      <4>2. CASE q # r
        BY <3>1, <3>2, <3>3, <4>2
      <4> QED
        BY <4>1, <4>2
    <3>6. OnDisk'
      BY <3>1, <3>2, <3>3, <3>4
    <3> QED
      BY <3>1, <3>3, <3>5, <3>6
  <2>23. CASE SessionConflict(r)
    BY <2>23 DEF SessionConflict, Done, Goto, RowIsFree
  <2>24. CASE StageMissing(r)
    BY <2>24 DEF StageMissing, Done, Goto, MoreChunks, Readable
  <2>25. CASE StageRefused(r)
    BY <2>25 DEF StageRefused, Done, Goto
  <2>26. CASE CommitSchedule(r)
    <3>1. /\ pc[r] = "commit" /\ status' # "pending" /\ schedules' = schedules \cup {<<key[r], part[r]>>}
          /\ UNCHANGED <<received, lossVars, fileVars, records, spoiled>>
          /\ op' = [op EXCEPT ![r] = "none"] /\ pc' = [pc EXCEPT ![r] = "idle"]
          /\ at' = [at EXCEPT ![r] = 0] /\ part' = [part EXCEPT ![r] = {}]
          /\ then' = [then EXCEPT ![r] = "none"]
      BY <2>26 DEF CommitSchedule, Done, Goto, Scheduled, StagedStatus
    <3>2. SUFFICES ASSUME ~spoiled PROVE Alone'
      BY <3>1
    <3>3. op[r] = "schedule" /\ Consuming(r) /\ records = <<>> /\ quarantine = {part[r]}
      BY <3>1, <3>2
    <3>4. ASSUME NEW q \in Requests, q # r PROVE ~Consuming(q) /\ ~Consuming(q)'
      BY <3>1, <3>2, <3>3, <3>4
    <3>5. ASSUME NEW q \in Requests PROVE ServesAlone(q)'
      <4>1. CASE q = r
        BY <3>1, <3>2, <3>3, <4>1
      <4>2. CASE q # r
        BY <3>1, <3>2, <3>4, <4>2
      <4> QED
        BY <4>1, <4>2
    <3>6. part[r] = Index
      BY <3>1, <3>3 DEF Reading, ReadingOf
    <3> QED
      BY <3>1, <3>2, <3>3, <3>4, <3>5, <3>6
  <2>27. CASE CommitFails(r)
    BY <2>27 DEF CommitFails, Step, Goto, Fault
  <2>28. CASE UndoStage(r)
    BY <2>28 DEF UndoStage, Done, Goto
  <2>29. CASE Destroy(r)
    <3>1. /\ pc[r] = "idle" /\ pc' = [pc EXCEPT ![r] = "purge"]
          /\ op' = [op EXCEPT ![r] = "destroy"] /\ then' = [then EXCEPT ![r] = "deleted"]
          /\ UNCHANGED <<status, received, lossVars, fileVars, outcomeVars, at, part>>
          /\ spoiled' = (spoiled \/ \E q \in Requests : Consuming(q))
      BY <2>29 DEF Destroy, Goto, Admit
    <3>2. SUFFICES ASSUME ~spoiled, \A q \in Requests : ~Consuming(q) PROVE Alone'
      BY <3>1
    <3>3. ASSUME NEW q \in Requests PROVE ServesAlone(q)' /\ (Consuming(q)' => q = r)
      <4>1. CASE q = r
        BY <3>1, <4>1
      <4>2. CASE q # r
        BY <3>1, <3>2, <4>2
      <4> QED
        BY <4>1, <4>2
    <3>4. Purging(r)' /\ Consuming(r)'
      BY <3>1
    <3> QED
      BY <3>1, <3>2, <3>3, <3>4
  <2>30. CASE RemoveSession(r)
    BY <2>30 DEF RemoveSession, Done, Goto, RowIsFree
  <2>31. CASE Crash(r)
    <3>1. /\ spoiled' = (spoiled \/ Consuming(r))
          /\ UNCHANGED <<status, received, lossVars, fileVars, outcomeVars>>
          /\ op' = [op EXCEPT ![r] = "none"] /\ pc' = [pc EXCEPT ![r] = "idle"]
          /\ at' = [at EXCEPT ![r] = 0] /\ part' = [part EXCEPT ![r] = {}]
          /\ then' = [then EXCEPT ![r] = "none"]
      BY <2>31 DEF Crash, Done, Goto
    <3>2. SUFFICES ASSUME ~spoiled, ~Consuming(r) PROVE Alone'
      BY <3>1
    <3>3. \A q \in Requests : Consuming(q)' <=> Consuming(q)
      BY <3>1, <3>2
    <3>4. \A q \in Requests : Purging(q)' <=> Purging(q)
      BY <3>1, <3>2
    <3>5. ASSUME NEW q \in Requests PROVE ServesAlone(q)'
      BY <3>1, <3>2
    <3>6. OnDisk => OnDisk'
      BY <3>1
    <3> QED
      BY <3>1, <3>2, <3>3, <3>4, <3>5, <3>6
  <2>32. CASE PutUnnoticed(r)
    <3>1. /\ pc[r] = "put" /\ unwritten' = unwritten \cup {at[r]} /\ at[r] \in Index
          /\ pc' = [pc EXCEPT ![r] = "lock"]
          /\ UNCHANGED <<status, received, misplaced, fileVars, outcomeVars, op, at, part, then, spoiled>>
      BY <2>32 DEF PutUnnoticed, Step, Goto
    <3>2. SUFFICES ASSUME ~spoiled PROVE Alone'
      BY <3>1
    <3>3. op[r] = "chunk" /\ ~Consuming(r) /\ ~Consuming(r)'
      BY <3>1, <3>2
    <3>4. \A q \in Requests : (Consuming(q)' <=> Consuming(q)) /\ (Purging(q)' <=> Purging(q))
      BY <3>1, <3>3
    <3>5. /\ \A x, y : x \ unwritten \subseteq y => x \ unwritten' \subseteq y
          /\ \A x : Filed(x) => Filed(x)'
      BY <3>1
    <3>6. ASSUME NEW q \in Requests PROVE ServesAlone(q)'
      <4>0. ServesAlone(q)
        BY <3>2
      <4> HIDE DEF Filed, Index, TypeOK, Shape, Locking, Staging, Serial, Alone
      <4>1. CASE q = r
        BY <3>1, <3>3, <4>1 DEF Shape
      <4>2. CASE q # r
        BY <3>1, <3>5, <4>0, <4>2
      <4> QED
        BY <4>1, <4>2
    <3>7. ASSUME OnDisk PROVE OnDisk'
      <4>1. (received \ unwritten \subseteq chunks)'
        BY <3>1, <3>5, <3>7
      <4>2. ASSUME NEW q \in Requests, pc'[q] \in {"lock", "record"}
            PROVE  at'[q] \in chunks' \cup unwritten'
        <5>1. CASE q = r
          BY <3>1, <5>1
        <5>2. CASE q # r
          BY <3>1, <3>7, <4>2, <5>2
        <5> QED
          BY <5>1, <5>2
      <4> QED
        BY <4>1, <4>2
    <3> QED
      BY <3>1, <3>2, <3>3, <3>4, <3>5, <3>6, <3>7
  <2>33. CASE StoreUnnoticed(r)
    BY <2>33 DEF StoreUnnoticed, Step, Goto, AfterStore, Mismatch, Fault
  <2>34. CASE MoveUnnoticed(r)
    <3>1. /\ pc[r] = "move" /\ pc' = [pc EXCEPT ![r] = "insert"] /\ misplaced' = TRUE
          /\ UNCHANGED <<status, received, unwritten, chunks, quarantine, outcomeVars, op, at, part,
                         then, spoiled>>
      BY <2>34 DEF MoveUnnoticed, Step, Goto
    <3>2. SUFFICES ASSUME ~spoiled PROVE Alone'
      BY <3>1
    <3>3. /\ op[r] = "complete" /\ Index \ unwritten \subseteq chunks /\ records = <<>> /\ schedules = {}
          /\ Index \ unwritten \subseteq part[r] /\ quarantine = {part[r]}
      BY <3>1, <3>2
    <3>4. Filed(part[r])'
      BY <3>1, <3>3
    <3>5. ASSUME NEW q \in Requests, q # r PROVE ~Consuming(q) /\ ~Consuming(q)'
      BY <3>1, <3>2, <3>3, <3>5
    <3>6. ASSUME NEW q \in Requests PROVE ServesAlone(q)'
      <4>1. CASE q = r
        BY <3>1, <3>3, <3>4, <4>1
      <4>2. CASE q # r
        BY <3>1, <3>2, <3>5, <4>2
      <4> QED
        BY <4>1, <4>2
    <3>7. OnDisk => OnDisk'
      BY <3>1, <3>3
    <3> QED
      BY <3>1, <3>2, <3>3, <3>5, <3>6, <3>7
  <2> QED
    BY <1>3, <2>1, <2>2, <2>3, <2>4, <2>5, <2>6, <2>7, <2>8, <2>9, <2>10, <2>11, <2>12, <2>13, <2>14, <2>15, <2>16, <2>17, <2>18, <2>19, <2>20, <2>21, <2>22, <2>23, <2>24, <2>25, <2>26, <2>27, <2>28, <2>29, <2>30, <2>31, <2>32, <2>33, <2>34
       DEF ChunkRequest, CompleteRequest, ScheduleRequest
<1> QED
  BY <1>1, <1>2, <1>3 DEF Next

\* The invariant holds when the session has been created.
LEMMA InitInv == Init => IInv
<1> SUFFICES ASSUME Init PROVE IInv
  OBVIOUS
<1> USE ChunksAssumption, FaultsAssumption DEF Init
<1>1. TypeOK
  <2>1. records \in Seq(File)
    BY DEF File
  <2>2. {expired, checked, safe, spoiled, misplaced} \subseteq BOOLEAN
    BY Zenon
  <2>3. 0 \in 0..N /\ faults \in 0..MaxFaults
    OBVIOUS
  <2>4. {} \in File /\ {} \in SUBSET File /\ schedules \in SUBSET (Keys \X File)
    BY DEF File
  <2> QED
    BY <2>1, <2>2, <2>3, <2>4 DEF TypeOK, Pcs
<1>2. Shape /\ Locking
  BY DEF Shape, Locking, InTransaction
<1>3. Reading /\ Staging
  BY DEF Reading, ReadingOf, Staging
<1>4. Outcomes
  BY DEF Outcomes, AckedKept, ScheduleIsWhole, RecordIsWhole
<1>5. Serial
  BY DEF Serial, Alone, ServesAlone, OnDisk, Purging, Consuming, Assembling
<1> QED
  BY <1>1, <1>2, <1>3, <1>4, <1>5 DEF IInv

\* The invariant is inductive, so it holds throughout.
THEOREM Invariance == Spec => []IInv
<1>1. Init => IInv
  BY InitInv
<1>2. IInv /\ [Next]_vars => IInv'
  BY TypePreserved, ShapePreserved, LockingPreserved, ReadingPreserved,
     StagingPreserved, OutcomesPreserved, SerialPreserved DEF IInv
<1> QED
  BY <1>1, <1>2, PTL DEF Spec

\* Every variable keeps its type, for any number of requests, chunks and faults.
THEOREM TypeCorrect == Spec => []TypeOK
<1>1. IInv => TypeOK
  BY DEF IInv
<1> QED
  BY <1>1, Invariance, PTL

\* No acknowledged chunk is ever lost from received_chunks, however many
\* chunks are uploaded in parallel with completions, aborts and crashes.
THEOREM ChunksAreKept == Spec => []AckedKept
<1>1. IInv => AckedKept
  BY DEF IInv, Outcomes
<1> QED
  BY <1>1, Invariance, PTL

\* One session becomes at most one scheduled upload, because the check under
\* the row lock and the write of 'staged' are one transaction.
THEOREM StagedOnce == Spec => []OneStaging
<1>1. IInv => OneStaging
  <2> SUFFICES ASSUME IInv PROVE OneStaging
    OBVIOUS
  <2>1. \A s, t \in schedules : s = t
    BY DEF IInv, Staging
  <2>2. CASE schedules = {}
    BY <2>2, FS_EmptySet DEF OneStaging
  <2>3. ASSUME NEW s \in schedules PROVE OneStaging
    <3>1. schedules = {s}
      BY <2>1
    <3> QED
      BY <3>1, FS_Singleton DEF OneStaging
  <2> QED
    BY <2>2, <2>3
<1> QED
  BY <1>1, Invariance, PTL

\* The checksum of a schedule is that of the whole file, although the chunks
\* may be deleted under the stager's hands.
THEOREM SchedulesAreWhole == Spec => []ScheduleIsWhole
<1>1. IInv => ScheduleIsWhole
  BY DEF IInv, Outcomes
<1> QED
  BY <1>1, Invariance, PTL

\* With a client checksum no record is made of an incomplete file, although
\* complete() neither locks the session nor notices a missing chunk.
THEOREM RecordsAreWhole == Spec => []RecordIsWhole
<1>1. IInv => RecordIsWhole
  BY DEF IInv, Outcomes
<1> QED
  BY <1>1, Invariance, PTL

\* As long as no two consumers have overlapped and none was cut short, a pending
\* session that nobody is consuming has on disk every chunk its row claims, but
\* for those whose write failed without anybody reading put()'s result: a client
\* that resumes need not send the others again.
THEOREM ResumesSoundly == Spec => []ResumeIsSound
<1>1. IInv => ResumeIsSound
  <2> SUFFICES ASSUME IInv, ~spoiled, status = "pending", Quiet
               PROVE  received \ unwritten \subseteq chunks
    BY DEF ResumeIsSound, HasWhatItClaims
  <2>1. \A r \in Requests : ~Purging(r)
    BY DEF Quiet, Purging
  <2> QED
    BY <2>1 DEF IInv, Serial, Alone, OnDisk
<1> QED
  BY <1>1, Invariance, PTL

\* Under the same condition a session leads to one archive record or to one
\* scheduled upload, and its file is the one of its checksum: where the row says,
\* or in quarantine after a move whose failure nobody read, and short of no chunk
\* that was written.
THEOREM ConsumedOnce == Spec => []SerialConsumersAreSound
<1>1. IInv => SerialConsumersAreSound
  <2> SUFFICES ASSUME IInv, ~spoiled PROVE SerialConsumersAreSound
    BY DEF SerialConsumersAreSound
  <2>1. Alone
    BY DEF IInv, Serial
  <2>2. CASE schedules = {}
    <3>1. Cardinality(schedules) = 0
      BY <2>2, FS_EmptySet
    <3>2. Len(records) \in Nat /\ records \in Seq(File)
      BY DEF IInv, TypeOK
    <3>3. ASSUME NEW n \in 1..Len(records) PROVE Filed(records[n])
      <4>1. n = 1 /\ records # <<>>
        BY <2>1, <3>2 DEF Alone
      <4> QED
        BY <2>1, <4>1 DEF Alone
    <3> QED
      BY <2>1, <2>2, <3>1, <3>2, <3>3 DEF Alone, SerialConsumersAreSound, OneOutcome
  <2>3. ASSUME NEW s \in schedules PROVE SerialConsumersAreSound
    <3>1. schedules = {s}
      BY <2>3 DEF IInv, Staging
    <3>2. Cardinality(schedules) = 1
      BY <3>1, FS_Singleton
    <3>3. records = <<>> /\ quarantine = {Index}
      BY <2>1, <2>3 DEF Alone
    <3> QED
      BY <3>2, <3>3 DEF SerialConsumersAreSound, OneOutcome
  <2> QED
    BY <2>2, <2>3
<1> QED
  BY <1>1, Invariance, PTL

=============================================================================
