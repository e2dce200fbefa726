-------------------------- MODULE ScheduledUploads --------------------------
(***************************************************************************)
(* The scheduled-upload pipeline of archive-laravel: the scheduled_uploads *)
(* row and its state machine, the minute dispatcher, the redis queue, the  *)
(* FinalizeScheduledUpload job, the lease watchdog, the retention sweep    *)
(* and the HTTP client that reschedules, cancels and retries.              *)
(*                                                                         *)
(* Every step is one SQL statement, one storage call or one queue call.    *)
(* The version column is represented by the set fresh[s] of the actors     *)
(* whose snapshot of row s is still current; VersionedRow shows that the   *)
(* compare-and-swap on (status, version) implements exactly this.          *)
(***************************************************************************)
EXTENDS Integers, FiniteSets

CONSTANTS
    Schedules,      \* ids of scheduled_uploads rows
    Workers,        \* queue worker processes
    Dispatchers,    \* concurrent runs of uploads:dispatch-scheduled
    Clients,        \* HTTP clients
    Watchdog,       \* the actor uploads:recover-scheduled
    Tries,          \* FinalizeScheduledUpload::$tries
    Ceiling,        \* dispatch_queue_depth_ceiling
    QueueBound,     \* bound: messages of one schedule waiting before a push waits
    MaxFaults,      \* bound: crashes and infrastructure errors in a behaviour
    LongLease,      \* is lease_seconds longer than any wait in the queue?
    Retention,      \* does a row grow as old as its retention window?
    Redelivery,     \* may retry_after pass while a worker still runs the job?
    None            \* no schedule

ASSUME TriesAssumption == Tries \in Nat \ {0}
ASSUME BoundsAssumption ==
    /\ Ceiling \in Nat /\ QueueBound \in Nat /\ MaxFaults \in Nat
    /\ LongLease \in BOOLEAN /\ Retention \in BOOLEAN /\ Redelivery \in BOOLEAN
ASSUME NoneAssumption == None \notin Schedules
ASSUME ActorsAssumption ==
    /\ Workers \cap (Dispatchers \cup Clients \cup {Watchdog}) = {}
    /\ Clients \cap (Dispatchers \cup {Watchdog}) = {}
    /\ Watchdog \notin Dispatchers
ASSUME LeakedAssumption == {"free", "leaked"} \cap Workers = {}

VARIABLES
    status,     \* the status column; "absent" before the insert, "deleted" after the sweep
    lease,      \* lease_expires_at: null, in the future, or past
    due,        \* scheduled_at <= now()
    failure,    \* failure_code
    aged,       \* updated_at is older than the retention window
    recordId,   \* record_id is not null
    fresh,      \* actors whose snapshot of the row carries its current version
    staged,     \* the quarantine artifact at staged_path
    stored,     \* the file at its servable path
    records,    \* number of committed storage_rows records made from the schedule
    queue,      \* messages waiting, by schedule and by attempts already made
    overlap,    \* the WithoutOverlapping cache lock of the schedule
    pc, job, try, owned, verdict,   \* workers
    dpc, dtodo, dcur,               \* dispatchers
    watch,      \* rows the watchdog has read and not yet handled
    sweep,      \* rows the retention sweep has read and not yet handled
    swept,      \* the row of the sweep whose staged file is already deleted
    cop, cjob,  \* clients: the operation under way and its row
    faults      \* crashes and infrastructure errors so far

rowVars    == <<status, lease, due, failure, aged, recordId, fresh>>
fileVars   == <<staged, stored, records>>
queueVars  == <<queue, overlap>>
workerVars == <<pc, job, try, owned, verdict>>
dispVars   == <<dpc, dtodo, dcur>>
sweepVars  == <<watch, sweep, swept>>
clientVars == <<cop, cjob>>
vars == <<rowVars, fileVars, queueVars, workerVars, dispVars, sweepVars, clientVars, faults>>

Statuses == {"scheduled", "claimed", "processing", "completed", "cancelled", "failed"}
Refusals == {"creator_ineligible", "artifact_missing", "checksum_mismatch"}
FailureCodes == Refusals \cup {"infrastructure_finalize_failed"}
Actors == Workers \cup Dispatchers \cup Clients \cup {Watchdog}

WorkerPcs == {"idle", "popped", "read", "begin", "begun", "check", "refuse", "move",
              "commit", "throw", "finish", "failing", "mark"}
DispatcherPcs == {"idle", "claim", "push", "release", "unclaim"}
ClientOps == {"none", "reschedule", "cancel", "retry"}

\* ScheduledUploadState::LEGAL
LEGAL == [scheduled  |-> {"scheduled", "claimed", "cancelled"},
          claimed    |-> {"processing", "cancelled", "scheduled"},
          processing |-> {"completed", "failed"},
          completed  |-> {},
          cancelled  |-> {},
          failed     |-> {"scheduled"}]

Init ==
    /\ status = [s \in Schedules |-> "absent"]
    /\ lease = [s \in Schedules |-> "null"]
    /\ due = [s \in Schedules |-> FALSE]
    /\ failure = [s \in Schedules |-> "none"]
    /\ aged = [s \in Schedules |-> FALSE]
    /\ recordId = [s \in Schedules |-> FALSE]
    /\ fresh = [s \in Schedules |-> {}]
    /\ staged = [s \in Schedules |-> "absent"]
    /\ stored = [s \in Schedules |-> FALSE]
    /\ records = [s \in Schedules |-> 0]
    /\ queue = [s \in Schedules |-> [a \in 0..Tries |-> 0]]
    /\ overlap = [s \in Schedules |-> "free"]
    /\ pc = [w \in Workers |-> "idle"]
    /\ job = [w \in Workers |-> None]
    /\ try = [w \in Workers |-> 0]
    /\ owned = [w \in Workers |-> FALSE]
    /\ verdict = [w \in Workers |-> "none"]
    /\ dpc = [d \in Dispatchers |-> "idle"]
    /\ dtodo = [d \in Dispatchers |-> {}]
    /\ dcur = [d \in Dispatchers |-> None]
    /\ watch = {} /\ sweep = {} /\ swept = {}
    /\ cop = [c \in Clients |-> "none"]
    /\ cjob = [c \in Clients |-> None]
    /\ faults = 0

(***************************************************************************)
(* ScheduledUploadState::transition: an UPDATE guarded by the status and   *)
(* by the version of the caller's snapshot.  Success bumps the version, so *)
(* every other snapshot turns stale; "reread" holds the callers that keep  *)
(* the row transition() returns.                                           *)
(***************************************************************************)
\* Mutant: the UPDATE names the key alone, as a plain save() would.
CanTransition_ByKey(a, s, from, to) == to \in LEGAL[from]

CanTransition(a, s, from, to) ==
    /\ a \in fresh[s]
    /\ status[s] = from
    /\ to \in LEGAL[from]

Transition(a, s, from, to, reread) ==
    /\ CanTransition(a, s, from, to)
    /\ status' = [status EXCEPT ![s] = to]
    /\ fresh' = [fresh EXCEPT ![s] = reread]
    /\ aged' = [aged EXCEPT ![s] = FALSE]

\* The UPDATE matches no row: the version or the status has changed.
Conflict(a, s, from) == ~ (a \in fresh[s] /\ status[s] = from)

\* The caller loses its snapshot without writing the row.
Forget(a, s) == fresh' = [fresh EXCEPT ![s] = @ \ {a}]
ReadRow(a, s) == fresh' = [fresh EXCEPT ![s] = @ \cup {a}]

Fault == faults < MaxFaults /\ faults' = faults + 1

Enqueue(s, a) == queue' = [queue EXCEPT ![s][a] = @ + 1]
Waiting(s) == {m \in (0..Tries) \X (1..QueueBound) : m[2] <= queue[s][m[1]]}
QueueRoom(s) == Cardinality(Waiting(s)) < QueueBound

-----------------------------------------------------------------------------
(* The HTTP client: ScheduledUploadsController.                            *)

\* create(): the artifact is staged and the row inserted in one transaction.
Create(s) ==
    /\ status[s] = "absent"
    /\ status' = [status EXCEPT ![s] = "scheduled"]
    /\ staged' = [staged EXCEPT ![s] = "intact"]
    /\ UNCHANGED <<lease, due, failure, aged, recordId, fresh, stored, records,
                   queueVars, workerVars, dispVars, sweepVars, clientVars, faults>>

\* What each endpoint requires of the row it reads before it writes.
Offered(op, s) ==
    CASE op \in {"reschedule", "cancel"} -> status[s] = "scheduled"
      [] op = "retry" -> /\ status[s] = "failed"
                         /\ failure[s] = "infrastructure_finalize_failed"
                         /\ staged[s] /= "absent"

\* The client (or the controller on its behalf) reads the row.
ClientRead(c, op, s) ==
    /\ cop[c] = "none" /\ op /= "none"
    /\ Offered(op, s)
    /\ ReadRow(c, s)
    /\ cop' = [cop EXCEPT ![c] = op]
    /\ cjob' = [cjob EXCEPT ![c] = s]
    /\ UNCHANGED <<status, lease, due, failure, aged, recordId, fileVars, queueVars,
                   workerVars, dispVars, sweepVars, faults>>

ClientDone(c) ==
    /\ cop' = [cop EXCEPT ![c] = "none"]
    /\ cjob' = [cjob EXCEPT ![c] = None]
    /\ UNCHANGED <<lease, recordId, fileVars, queueVars, workerVars, dispVars,
                   sweepVars, faults>>

Reschedule(c) ==
    /\ cop[c] = "reschedule"
    /\ Transition(c, cjob[c], "scheduled", "scheduled", {})
    /\ due' = [due EXCEPT ![cjob[c]] = FALSE]
    /\ ClientDone(c)
    /\ UNCHANGED failure

Cancel(c) ==
    /\ cop[c] = "cancel"
    /\ Transition(c, cjob[c], "scheduled", "cancelled", {})
    /\ ClientDone(c)
    /\ UNCHANGED <<due, failure>>

Retry(c) ==
    /\ cop[c] = "retry"
    /\ Transition(c, cjob[c], "failed", "scheduled", {})
    /\ failure' = [failure EXCEPT ![cjob[c]] = "none"]
    /\ ClientDone(c)
    /\ UNCHANGED due

\* 409: the row changed since the read.
ClientConflict(c) ==
    /\ cop[c] /= "none"
    /\ Conflict(c, cjob[c], IF cop[c] = "retry" THEN "failed" ELSE "scheduled")
    /\ ClientDone(c)
    /\ UNCHANGED <<status, due, failure, aged, fresh>>

-----------------------------------------------------------------------------
(* Time.                                                                   *)

BecomeDue(s) ==
    /\ status[s] = "scheduled" /\ ~due[s]
    /\ due' = [due EXCEPT ![s] = TRUE]
    /\ UNCHANGED <<status, lease, failure, aged, recordId, fresh, fileVars, queueVars,
                   workerVars, dispVars, sweepVars, clientVars, faults>>

\* A run of the dispatcher, a message or a worker still carries the schedule.
Delivering(s) ==
    \/ \E d \in Dispatchers : dcur[d] = s
    \/ \E a \in 0..Tries : queue[s][a] > 0
    \/ \E w \in Workers : job[w] = s

\* Only a claimed row's lease is ever read.
LeaseExpires(s) ==
    /\ status[s] = "claimed" /\ lease[s] = "live"
    /\ LongLease => ~Delivering(s)
    /\ lease' = [lease EXCEPT ![s] = "expired"]
    /\ UNCHANGED <<status, due, failure, aged, recordId, fresh, fileVars, queueVars,
                   workerVars, dispVars, sweepVars, clientVars, faults>>

\* Retention is counted in hours, a delivery in seconds: no worker still runs
\* a job of a row that old.
RetentionPasses(s) ==
    /\ Retention
    /\ status[s] \in {"cancelled", "failed"} /\ ~aged[s]
    /\ \A w \in Workers : job[w] /= s
    /\ aged' = [aged EXCEPT ![s] = TRUE]
    /\ UNCHANGED <<status, lease, due, failure, recordId, fresh, fileVars, queueVars,
                   workerVars, dispVars, sweepVars, clientVars, faults>>

\* The staged artifact is lost or corrupted outside the program.
ArtifactFault(s) ==
    /\ Fault
    /\ staged[s] = "intact"
    /\ \E f \in {"absent", "damaged"} : staged' = [staged EXCEPT ![s] = f]
    /\ UNCHANGED <<rowVars, stored, records, queueVars, workerVars, dispVars,
                   sweepVars, clientVars>>

-----------------------------------------------------------------------------
(* DispatchScheduledUploads.                                               *)

\* Mutant: rows that only wait count against the ceiling.
InFlight_Waiting == {s \in Schedules : status[s] \in {"scheduled", "claimed", "processing"}}

InFlight == {s \in Schedules : status[s] \in {"claimed", "processing"}}
Candidates == {s \in Schedules : status[s] = "scheduled" /\ due[s]}

\* The ceiling check and the candidate query; a batch holds every candidate.
DispatchScan(d) ==
    /\ dpc[d] = "idle"
    /\ Cardinality(InFlight) < Ceiling
    /\ Candidates /= {}
    /\ dpc' = [dpc EXCEPT ![d] = "claim"]
    /\ dtodo' = [dtodo EXCEPT ![d] = Candidates]
    /\ fresh' = [s \in Schedules |-> IF s \in Candidates THEN fresh[s] \cup {d} ELSE fresh[s]]
    /\ UNCHANGED <<status, lease, due, failure, aged, recordId, dcur, fileVars,
                   queueVars, workerVars, sweepVars, clientVars, faults>>

\* The foreach loop goes on with what is left of the batch.
NextCandidate(d, rest) ==
    /\ dpc' = [dpc EXCEPT ![d] = IF rest = {} THEN "idle" ELSE "claim"]
    /\ dtodo' = [dtodo EXCEPT ![d] = rest]
    /\ dcur' = [dcur EXCEPT ![d] = None]

\* Mutant: the claim does not set lease_expires_at.
Claim_NoLease(d, s) ==
    /\ dpc[d] = "claim" /\ s \in dtodo[d]
    /\ Transition(d, s, "scheduled", "claimed", {})
    /\ dpc' = [dpc EXCEPT ![d] = "push"]
    /\ dtodo' = [dtodo EXCEPT ![d] = @ \ {s}]
    /\ dcur' = [dcur EXCEPT ![d] = s]
    /\ UNCHANGED <<lease, due, failure, recordId, fileVars, queueVars, workerVars, sweepVars,
                   clientVars, faults>>

Claim(d, s) ==
    /\ dpc[d] = "claim" /\ s \in dtodo[d]
    /\ Transition(d, s, "scheduled", "claimed", {})
    /\ lease' = [lease EXCEPT ![s] = "live"]
    /\ dpc' = [dpc EXCEPT ![d] = "push"]
    /\ dtodo' = [dtodo EXCEPT ![d] = @ \ {s}]
    /\ dcur' = [dcur EXCEPT ![d] = s]
    /\ UNCHANGED <<due, failure, recordId, fileVars, queueVars, workerVars, sweepVars,
                   clientVars, faults>>

\* Lost the claim race: continue with the next candidate.
ClaimConflict(d, s) ==
    /\ dpc[d] = "claim" /\ s \in dtodo[d]
    /\ Conflict(d, s, "scheduled")
    /\ NextCandidate(d, dtodo[d] \ {s})
    /\ UNCHANGED <<rowVars, fileVars, queueVars, workerVars, sweepVars,
                   clientVars, faults>>

Push(d) ==
    /\ dpc[d] = "push" /\ QueueRoom(dcur[d])
    /\ Enqueue(dcur[d], 0)
    /\ NextCandidate(d, dtodo[d])
    /\ UNCHANGED <<rowVars, overlap, fileVars, workerVars, sweepVars, clientVars,
                   faults>>

\* dispatch() throws, whether or not the message got through.
PushFails(d) ==
    /\ dpc[d] = "push" /\ Fault
    /\ \/ QueueRoom(dcur[d]) /\ Enqueue(dcur[d], 0)
       \/ UNCHANGED queue
    /\ dpc' = [dpc EXCEPT ![d] = "release"]
    /\ UNCHANGED <<rowVars, dtodo, dcur, overlap, fileVars, workerVars, sweepVars, clientVars>>

\* releaseClaim() re-reads the row ...
ReleaseRead(d) ==
    /\ dpc[d] = "release"
    /\ status[dcur[d]] = "claimed"
    /\ ReadRow(d, dcur[d])
    /\ dpc' = [dpc EXCEPT ![d] = "unclaim"]
    /\ UNCHANGED <<status, lease, due, failure, aged, recordId, dtodo, dcur, fileVars,
                   queueVars, workerVars, sweepVars, clientVars, faults>>

\* ... and gives a claimed one back, leaving its lease column ...
ReleaseClaim(d) ==
    /\ dpc[d] = "unclaim"
    /\ Transition(d, dcur[d], "claimed", "scheduled", {})
    /\ NextCandidate(d, dtodo[d])
    /\ UNCHANGED <<lease, due, failure, recordId, fileVars, queueVars, workerVars,
                   sweepVars, clientVars, faults>>

\* ... unless it has moved on, before the read or after it.
ReleaseSkipped(d) ==
    /\ \/ dpc[d] = "release" /\ status[dcur[d]] /= "claimed"
       \/ dpc[d] = "unclaim" /\ Conflict(d, dcur[d], "claimed")
    /\ NextCandidate(d, dtodo[d])
    /\ UNCHANGED <<rowVars, fileVars, queueVars, workerVars, sweepVars, clientVars, faults>>

CrashDispatcher(d) ==
    /\ dpc[d] /= "idle" /\ Fault
    /\ dpc' = [dpc EXCEPT ![d] = "idle"]
    /\ dtodo' = [dtodo EXCEPT ![d] = {}]
    /\ dcur' = [dcur EXCEPT ![d] = None]
    /\ fresh' = [s \in Schedules |-> fresh[s] \ {d}]
    /\ UNCHANGED <<status, lease, due, failure, aged, recordId, fileVars, queueVars,
                   workerVars, sweepVars, clientVars>>

-----------------------------------------------------------------------------
(* RecoverScheduledUploads and CleanupScheduledUploads.                    *)

Expired == {s \in Schedules : status[s] = "claimed" /\ lease[s] = "expired"}

RecoverScan ==
    /\ watch = {} /\ Expired /= {}
    /\ watch' = Expired
    /\ fresh' = [s \in Schedules |-> IF s \in Expired THEN fresh[s] \cup {Watchdog} ELSE fresh[s]]
    /\ UNCHANGED <<status, lease, due, failure, aged, recordId, sweep, swept, fileVars,
                   queueVars, workerVars, dispVars, clientVars, faults>>

Recover(s) ==
    /\ s \in watch
    /\ watch' = watch \ {s}
    /\ Transition(Watchdog, s, "claimed", "scheduled", {})
    /\ lease' = [lease EXCEPT ![s] = "null"]
    /\ UNCHANGED <<due, failure, recordId, sweep, swept, fileVars, queueVars, workerVars,
                   dispVars, clientVars, faults>>

RecoverConflict(s) ==
    /\ s \in watch
    /\ Conflict(Watchdog, s, "claimed")
    /\ watch' = watch \ {s}
    /\ UNCHANGED <<rowVars, sweep, swept, fileVars, queueVars, workerVars, dispVars,
                   clientVars, faults>>

\* pruneStatus(): the rows are read once, then deleted one by one.
SweepScan ==
    /\ sweep = {} /\ swept = {}
    /\ sweep' = {s \in Schedules : status[s] \in {"cancelled", "failed"} /\ aged[s]}
    /\ sweep' /= {}
    /\ UNCHANGED <<rowVars, watch, swept, fileVars, queueVars, workerVars, dispVars,
                   clientVars, faults>>

SweepFile(s) ==
    /\ s \in sweep /\ swept = {}
    /\ staged' = [staged EXCEPT ![s] = "absent"]
    /\ sweep' = sweep \ {s}
    /\ swept' = {s}
    /\ UNCHANGED <<rowVars, watch, stored, records, queueVars, workerVars, dispVars,
                   clientVars, faults>>

\* $row->delete() names the id only.
SweepRow(s) ==
    /\ s \in swept
    /\ status' = [status EXCEPT ![s] = "deleted"]
    /\ fresh' = [fresh EXCEPT ![s] = {}]
    /\ swept' = {}
    /\ UNCHANGED <<lease, due, failure, aged, recordId, watch, sweep, fileVars, queueVars,
                   workerVars, dispVars, clientVars, faults>>

-----------------------------------------------------------------------------
(* FinalizeScheduledUpload on a queue worker.                              *)

Goto(w, p) == pc' = [pc EXCEPT ![w] = p]
Idle(w) ==
    /\ Goto(w, "idle")
    /\ job' = [job EXCEPT ![w] = None]
    /\ try' = [try EXCEPT ![w] = 0]
    /\ owned' = [owned EXCEPT ![w] = FALSE]
    /\ verdict' = [verdict EXCEPT ![w] = "none"]
Step(w, p) == Goto(w, p) /\ UNCHANGED <<job, try, owned, verdict>>

Others == <<dispVars, sweepVars, clientVars>>

\* The worker reserves a message.
Pop(w, s, a) ==
    /\ pc[w] = "idle" /\ queue[s][a] > 0
    /\ a < Tries
    /\ queue' = [queue EXCEPT ![s][a] = @ - 1]
    /\ Goto(w, "popped")
    /\ job' = [job EXCEPT ![w] = s]
    /\ try' = [try EXCEPT ![w] = a + 1]
    /\ owned' = [owned EXCEPT ![w] = TRUE]
    /\ UNCHANGED <<rowVars, fileVars, overlap, verdict, Others, faults>>

\* A delivery beyond $tries fails the job without running it: the message is
\* deleted and failed() is called.
PopExhausted(w, s) ==
    /\ pc[w] = "idle" /\ queue[s][Tries] > 0
    /\ queue' = [queue EXCEPT ![s][Tries] = @ - 1]
    /\ Goto(w, "failing")
    /\ job' = [job EXCEPT ![w] = s]
    /\ UNCHANGED <<rowVars, fileVars, overlap, try, owned, verdict, Others, faults>>

\* Mutant: no WithoutOverlapping middleware.
TakeOverlapLock_Always(w) ==
    /\ pc[w] = "popped"
    /\ overlap' = [overlap EXCEPT ![job[w]] = w]
    /\ Step(w, "read")
    /\ UNCHANGED <<rowVars, fileVars, queue, Others, faults>>

\* WithoutOverlapping(id)->releaseAfter(30): take the lock or requeue.
TakeOverlapLock(w) ==
    /\ pc[w] = "popped" /\ overlap[job[w]] = "free"
    /\ overlap' = [overlap EXCEPT ![job[w]] = w]
    /\ Step(w, "read")
    /\ UNCHANGED <<rowVars, fileVars, queue, Others, faults>>

Overlapped(w) ==
    /\ pc[w] = "popped" /\ overlap[job[w]] /= "free"
    /\ Enqueue(job[w], try[w])
    /\ Idle(w)
    /\ UNCHANGED <<rowVars, fileVars, overlap, Others, faults>>

\* handle() finds the row: a claimed one is to be begun, one in processing is
\* the leftover of an earlier try.
Read(w) ==
    LET s == job[w] IN
    /\ pc[w] = "read"
    /\ status[s] \in {"claimed", "processing"} /\ ~recordId[s]
    /\ ReadRow(w, s)
    /\ Step(w, IF status[s] = "claimed" THEN "begin" ELSE "check")
    /\ UNCHANGED <<status, lease, due, failure, aged, recordId, fileVars, queueVars,
                   Others, faults>>

\* Nothing is left to do for a row that is settled, gone or back in the pool.
ReadSettled(w) ==
    LET s == job[w] IN
    /\ pc[w] = "read"
    /\ ~ (status[s] \in {"claimed", "processing"} /\ ~recordId[s])
    /\ Step(w, "finish")
    /\ UNCHANGED <<rowVars, fileVars, queueVars, Others, faults>>

Begin(w) ==
    /\ pc[w] = "begin"
    /\ Transition(w, job[w], "claimed", "processing", {})
    /\ Step(w, "begun")
    /\ UNCHANGED <<lease, due, failure, recordId, fileVars, queueVars, Others, faults>>

\* transition() ends by reading the row again, in a statement of its own.
Begun(w) ==
    LET s == job[w] IN
    /\ pc[w] = "begun"
    /\ status[s] \in Statuses
    /\ ReadRow(w, s)
    /\ Step(w, "check")
    /\ UNCHANGED <<status, lease, due, failure, aged, recordId, fileVars, queueVars,
                   Others, faults>>

BeginConflict(w) ==
    /\ pc[w] = "begin"
    /\ Conflict(w, job[w], "claimed")
    /\ Step(w, "finish")
    /\ UNCHANGED <<rowVars, fileVars, queueVars, Others, faults>>

\* hashStagedFile() gives no hash of a file that differs, or that it cannot open.
Unlike(s) ==
    \/ staged[s] = "damaged" /\ UNCHANGED faults
    \/ staged[s] = "intact" /\ Fault

\* failTerminallyIfIneligible(): the creator may have lost the right to
\* publish at any time; the artifact is looked at where it was staged.
CheckFails(w, v) ==
    LET s == job[w] IN
    /\ pc[w] = "check"
    /\ v = "artifact_missing" => staged[s] = "absent"
    /\ IF v = "checksum_mismatch" THEN Unlike(s) ELSE UNCHANGED faults
    /\ verdict' = [verdict EXCEPT ![w] = v]
    /\ Goto(w, "refuse")
    /\ UNCHANGED <<rowVars, job, try, owned, fileVars, queueVars, Others>>

CheckPasses(w) ==
    /\ pc[w] = "check"
    /\ staged[job[w]] = "intact"
    /\ Step(w, "move")
    /\ UNCHANGED <<rowVars, fileVars, queueVars, Others, faults>>

\* Mutant: the terminal failure is reported but not written.
Refuse_Unwritten(w) ==
    /\ pc[w] = "refuse"
    /\ verdict' = [verdict EXCEPT ![w] = "none"]
    /\ Goto(w, "finish")
    /\ UNCHANGED <<rowVars, job, try, owned, fileVars, queueVars, Others, faults>>

\* The end of a try that reports a terminal failure.
Refused(w) ==
    /\ verdict' = [verdict EXCEPT ![w] = "none"]
    /\ Goto(w, "finish")
    /\ UNCHANGED <<job, try, owned>>

\* failTerminally(); a conflict is ignored.
Refuse(w) ==
    LET s == job[w] IN
    /\ pc[w] = "refuse"
    /\ Transition(w, s, "processing", "failed", {})
    /\ failure' = [failure EXCEPT ![s] = verdict[w]]
    /\ Refused(w)
    /\ UNCHANGED <<lease, due, recordId, fileVars, queueVars, Others, faults>>

RefuseConflict(w) ==
    /\ pc[w] = "refuse"
    /\ Conflict(w, job[w], "processing")
    /\ Refused(w)
    /\ UNCHANGED <<rowVars, fileVars, queueVars, Others, faults>>

\* Mutant: the artifact is copied, not moved.
Move_Copies(w) ==
    LET s == job[w] IN
    /\ pc[w] = "move"
    /\ stored' = [stored EXCEPT ![s] = TRUE]
    /\ Step(w, "commit")
    /\ UNCHANGED <<rowVars, staged, records, queueVars, Others, faults>>

\* finalize(), inside the transaction: the move is not undone by a rollback.
Move(w) ==
    LET s == job[w] IN
    /\ pc[w] = "move"
    /\ staged[s] /= "absent"
    /\ staged' = [staged EXCEPT ![s] = "absent"]
    /\ stored' = [stored EXCEPT ![s] = TRUE]
    /\ Step(w, "commit")
    /\ UNCHANGED <<rowVars, records, queueVars, Others, faults>>

\* A disk with 'throw' => false reports a failed move only in the result of
\* move(), which finalize() does not read.
MoveUnnoticed(w) ==
    /\ pc[w] = "move" /\ Fault
    /\ staged[job[w]] /= "absent"
    /\ Step(w, "commit")
    /\ UNCHANGED <<rowVars, fileVars, queueVars, Others>>

\* A statement or a storage read throws; findOrFail() of a row just deleted and
\* the content check of an artifact that is gone always do.
HandleThrows(w) ==
    /\ \/ pc[w] \in {"read", "begin", "begun", "check", "refuse", "move"} /\ Fault
       \/ pc[w] = "begun" /\ status[job[w]] \notin Statuses /\ UNCHANGED faults
       \/ pc[w] = "move" /\ staged[job[w]] = "absent" /\ UNCHANGED faults
    /\ verdict' = [verdict EXCEPT ![w] = "none"]
    /\ Goto(w, "throw")
    /\ UNCHANGED <<rowVars, job, try, owned, fileVars, queueVars, Others>>

\* Mutant: the record is committed even when the row has moved on.
Commit_Unchecked(w) ==
    LET s == job[w] IN
    /\ pc[w] = "commit"
    /\ status' = [status EXCEPT ![s] = "completed"]
    /\ fresh' = [fresh EXCEPT ![s] = {}]
    /\ recordId' = [recordId EXCEPT ![s] = TRUE]
    /\ records' = [records EXCEPT ![s] = @ + 1]
    /\ Step(w, "finish")
    /\ UNCHANGED <<lease, due, failure, aged, staged, stored, queueVars, Others, faults>>

\* The storage_rows insert and the completed transition commit together.
Commit(w) ==
    LET s == job[w] IN
    /\ pc[w] = "commit"
    /\ Transition(w, s, "processing", "completed", {})
    /\ recordId' = [recordId EXCEPT ![s] = TRUE]
    /\ records' = [records EXCEPT ![s] = @ + 1]
    /\ Step(w, "finish")
    /\ UNCHANGED <<lease, due, failure, staged, stored, queueVars, Others, faults>>

\* A stale version or a database error rolls the transaction back.
Rollback(w) ==
    /\ pc[w] = "commit"
    /\ \/ Conflict(w, job[w], "processing") /\ UNCHANGED faults
       \/ Fault
    /\ Step(w, "throw")
    /\ UNCHANGED <<rowVars, fileVars, queueVars, Others>>

Unlock(w) ==
    overlap' = [overlap EXCEPT ![job[w]] = IF @ = w THEN "free" ELSE @]

\* The message goes back, also when this worker no longer owns it ...
ThrowRequeued(w) ==
    /\ try[w] < Tries
    /\ Enqueue(job[w], try[w])
    /\ Idle(w)

\* ... but the last try deletes it and calls failed().
ThrowLast(w) ==
    /\ try[w] = Tries
    /\ Goto(w, "failing")
    /\ owned' = [owned EXCEPT ![w] = FALSE]
    /\ UNCHANGED <<queue, job, try, verdict>>

\* handle() threw: the lock is released on the way out.
Throw(w) ==
    /\ pc[w] = "throw"
    /\ Unlock(w)
    /\ Forget(w, job[w])
    /\ ThrowRequeued(w) \/ ThrowLast(w)
    /\ UNCHANGED <<status, lease, due, failure, aged, recordId, fileVars, Others, faults>>

\* handle() returned: the lock and the message go.
Finish(w) ==
    /\ pc[w] = "finish"
    /\ Unlock(w)
    /\ Forget(w, job[w])
    /\ Idle(w)
    /\ UNCHANGED <<status, lease, due, failure, aged, recordId, fileVars, queue, Others, faults>>

\* failed() reads the row; a settled one is left alone.
FailedRead(w) ==
    LET s == job[w] IN
    /\ pc[w] = "failing"
    /\ status[s] \in {"scheduled", "claimed", "processing"}
    /\ ReadRow(w, s)
    /\ Step(w, "mark")
    /\ UNCHANGED <<status, lease, due, failure, aged, recordId, fileVars, queueVars,
                   Others, faults>>

FailedSettled(w) ==
    /\ pc[w] = "failing"
    /\ status[job[w]] \notin {"scheduled", "claimed", "processing"}
    /\ Idle(w)
    /\ UNCHANGED <<rowVars, fileVars, queueVars, Others, faults>>

\* failed() marks the row from whatever status it read, which is legal from
\* "processing" only.
MarkFailed(w) ==
    LET s == job[w] IN
    /\ pc[w] = "mark"
    /\ Transition(w, s, status[s], "failed", {})
    /\ failure' = [failure EXCEPT ![s] = "infrastructure_finalize_failed"]
    /\ Idle(w)
    /\ UNCHANGED <<lease, due, recordId, fileVars, queueVars, Others, faults>>

\* An illegal transition is logged, a stale version is ignored.
MarkIgnored(w) ==
    LET s == job[w] IN
    /\ pc[w] = "mark"
    /\ ~ (w \in fresh[s] /\ "failed" \in LEGAL[status[s]])
    /\ Forget(w, s)
    /\ Idle(w)
    /\ UNCHANGED <<status, lease, due, failure, aged, recordId, fileVars, queueVars,
                   Others, faults>>

\* retry_after passes while the worker still runs: the message is offered again.
Redeliver(w) ==
    /\ Redelivery
    /\ owned[w]
    /\ Enqueue(job[w], try[w])
    /\ owned' = [owned EXCEPT ![w] = FALSE]
    /\ UNCHANGED <<rowVars, fileVars, overlap, pc, job, try, verdict, Others, faults>>

\* The process dies.  Its reservation lapses; its overlap lock has no expiry.
Crash(w) ==
    LET s == job[w] IN
    /\ pc[w] /= "idle" /\ Fault
    /\ IF owned[w] THEN Enqueue(s, try[w]) ELSE UNCHANGED queue
    /\ overlap' = [overlap EXCEPT ![s] = IF @ = w THEN "leaked" ELSE @]
    /\ Forget(w, s)
    /\ Idle(w)
    /\ UNCHANGED <<status, lease, due, failure, aged, recordId, fileVars, Others>>

-----------------------------------------------------------------------------
ClientNext ==
    \/ \E s \in Schedules : Create(s)
    \/ \E c \in Clients, op \in ClientOps, s \in Schedules : ClientRead(c, op, s)
    \/ \E c \in Clients : Reschedule(c) \/ Cancel(c) \/ Retry(c) \/ ClientConflict(c)

TimeNext ==
    \E s \in Schedules :
        BecomeDue(s) \/ LeaseExpires(s) \/ RetentionPasses(s) \/ ArtifactFault(s)

DispatcherStep(d) ==
    \/ DispatchScan(d)
    \/ \E s \in Schedules : Claim(d, s) \/ ClaimConflict(d, s)
    \/ Push(d) \/ ReleaseRead(d) \/ ReleaseClaim(d) \/ ReleaseSkipped(d)

DispatcherNext ==
    \E d \in Dispatchers : DispatcherStep(d) \/ PushFails(d) \/ CrashDispatcher(d)

WatchdogNext == RecoverScan \/ \E s \in Schedules : Recover(s) \/ RecoverConflict(s)

SweepNext == SweepScan \/ \E s \in Schedules : SweepFile(s) \/ SweepRow(s)

WorkerStep(w) ==
    \/ \E s \in Schedules, a \in 0..Tries : Pop(w, s, a)
    \/ \E s \in Schedules : PopExhausted(w, s)
    \/ TakeOverlapLock(w) \/ Overlapped(w)
    \/ Read(w) \/ ReadSettled(w) \/ Begin(w) \/ BeginConflict(w) \/ Begun(w)
    \/ \E v \in Refusals : CheckFails(w, v)
    \/ CheckPasses(w) \/ Refuse(w) \/ RefuseConflict(w)
    \/ Move(w) \/ HandleThrows(w) \/ MoveUnnoticed(w) \/ Commit(w) \/ Rollback(w)
    \/ Throw(w) \/ Finish(w)
    \/ FailedRead(w) \/ FailedSettled(w) \/ MarkFailed(w) \/ MarkIgnored(w)

WorkerNext == \E w \in Workers : WorkerStep(w) \/ Redeliver(w) \/ Crash(w)

Next == ClientNext \/ TimeNext \/ DispatcherNext \/ WatchdogNext \/ SweepNext \/ WorkerNext

Spec == Init /\ [][Next]_vars

\* The scheduler runs its commands every minute and every five minutes, time
\* passes, and the supervisor keeps workers polling the queue.
Fairness ==
    /\ \A s \in Schedules : WF_vars(BecomeDue(s)) /\ WF_vars(LeaseExpires(s))
    /\ \A d \in Dispatchers : WF_vars(DispatcherStep(d))
    /\ WF_vars(WatchdogNext)
    /\ \A w \in Workers : WF_vars(WorkerStep(w))

FairSpec == Spec /\ Fairness

-----------------------------------------------------------------------------
(* Properties.                                                             *)

RowTypes ==
    /\ status \in [Schedules -> Statuses \cup {"absent", "deleted"}]
    /\ lease \in [Schedules -> {"null", "live", "expired"}]
    /\ due \in [Schedules -> BOOLEAN]
    /\ failure \in [Schedules -> FailureCodes \cup {"none"}]
    /\ aged \in [Schedules -> BOOLEAN]
    /\ recordId \in [Schedules -> BOOLEAN]
    /\ fresh \in [Schedules -> SUBSET Actors]

FileTypes ==
    /\ staged \in [Schedules -> {"absent", "intact", "damaged"}]
    /\ stored \in [Schedules -> BOOLEAN]
    /\ records \in [Schedules -> Nat]

QueueTypes ==
    /\ queue \in [Schedules -> [0..Tries -> Nat]]
    /\ overlap \in [Schedules -> Workers \cup {"free", "leaked"}]

WorkerTypes ==
    /\ pc \in [Workers -> WorkerPcs]
    /\ job \in [Workers -> Schedules \cup {None}]
    /\ try \in [Workers -> 0..Tries]
    /\ owned \in [Workers -> BOOLEAN]
    /\ verdict \in [Workers -> Refusals \cup {"none"}]
    /\ \A w \in Workers : pc[w] /= "idle" => job[w] \in Schedules
    /\ \A w \in Workers : owned[w] => pc[w] /= "idle"
    /\ \A w \in Workers : pc[w] = "refuse" => verdict[w] \in Refusals

DispatcherTypes ==
    /\ dpc \in [Dispatchers -> DispatcherPcs]
    /\ dtodo \in [Dispatchers -> SUBSET Schedules]
    /\ dcur \in [Dispatchers -> Schedules \cup {None}]
    /\ \A d \in Dispatchers :
          dpc[d] \in {"push", "release", "unclaim"} => dcur[d] \in Schedules

SweepTypes == watch \subseteq Schedules /\ sweep \subseteq Schedules /\ swept \subseteq Schedules

ClientTypes ==
    /\ cop \in [Clients -> ClientOps]
    /\ cjob \in [Clients -> Schedules \cup {None}]
    /\ \A c \in Clients : cop[c] /= "none" => cjob[c] \in Schedules

\* Every variable ranges over what the columns, files and processes can hold,
\* and a process that is under way has a schedule it works for.
TypeOK ==
    /\ RowTypes /\ FileTypes /\ QueueTypes
    /\ WorkerTypes /\ DispatcherTypes /\ SweepTypes /\ ClientTypes
    /\ faults \in Nat

\* However often a schedule is claimed, delivered and redelivered, at most one
\* archive record is ever made from it, and it is the one record_id names.
AtMostOneRecord ==
    \A s \in Schedules :
        /\ records[s] = (IF recordId[s] THEN 1 ELSE 0)
        /\ status[s] = "completed" => recordId[s]
        /\ recordId[s] => status[s] \in {"completed", "deleted"}

\* Completed and cancelled are final: no retry, recovery, release or late
\* worker takes such a row back into the pipeline; it can only be swept.
SettledIsFinal ==
    [][\A s \in Schedules :
          status[s] \in {"completed", "cancelled", "deleted"} =>
              status'[s] \in {status[s], "deleted"}]_vars

\* However its actors interleave, the pipeline takes each row only through the
\* life UploadLifecycle gives it: every claim, conflict, redelivery, release,
\* recovery and late failure is one of its steps or none.
Lifecycle == INSTANCE UploadLifecycle
                 WITH leased <- [s \in Schedules |-> lease[s] /= "null"]

ImplementsLifecycle == Lifecycle!Spec

\* The overlap lock keeps two workers out of one schedule's artifact, across
\* redeliveries and duplicate claims.
Finalizing(w) == pc[w] \in 
    {"read", "begin", "begun", "check", "refuse", "move", "commit", "throw", "finish"}
OneFinalizer ==
    \A v, w \in Workers :
        Finalizing(v) /\ Finalizing(w) /\ job[v] = job[w] => v = w

\* A claim always carries a lease, so the watchdog can see every lost claim.
ClaimHasLease ==
    \A s \in Schedules : status[s] = "claimed" => lease[s] /= "null"

\* A completed schedule's file is in the servable directory, where its
\* archive record says it is, and no longer in quarantine.
CompletedHasFile ==
    \A s \in Schedules :
        status[s] = "completed" => stored[s] /\ staged[s] = "absent"

\* "artifact_missing" is terminal because the artifact went away between
\* scheduling and the job: it never names a file the job itself has moved.
MissingMeansLost ==
    \A s \in Schedules :
        status[s] = "failed" /\ failure[s] = "artifact_missing" => ~stored[s]

\* Without faults, and with leases that outlive the queue, racing dispatchers,
\* reschedulings and cancellations never put a second delivery of a schedule
\* under way: one push, one message or one worker carries it.
Deliveries(s) ==
    Cardinality({d \in Dispatchers : dcur[d] = s /\ dpc[d] = "push"})
      + Cardinality(Waiting(s)) + Cardinality({w \in Workers : job[w] = s})

OneDelivery ==
    LongLease /\ ~Redelivery /\ faults = 0 => \A s \in Schedules : Deliveries(s) <= 1

\* A claim that is not taken up goes back to the pool.
ClaimsMoveOn ==
    \A s \in Schedules : status[s] = "claimed" ~> status[s] /= "claimed"

\* A row a worker has begun is completed or failed in the end.
ProcessingEnds ==
    \A s \in Schedules : status[s] = "processing" ~> status[s] /= "processing"

\* A due upload is settled, unless its owner keeps moving its time.
DueIsSettled ==
    \A s \in Schedules :
        (status[s] = "scheduled" /\ due[s]) ~>
            (status[s] \in {"completed", "failed", "cancelled", "deleted"} \/ ~due[s])

=============================================================================
