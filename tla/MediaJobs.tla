----------------------------- MODULE MediaJobs -----------------------------
(***************************************************************************)
(* Media jobs and the derivatives they make: the requests that queue,      *)
(* cancel and retry jobs (MediaJobsController, MediaDerivativesController),*)
(* the baseline derivative an ingest queues inside its transaction         *)
(* (IngestDerivativeService), and the ProcessMediaWorkflow workers.        *)
(*                                                                         *)
(* All derivative rows are of one cache key.  Rows are written back by     *)
(* save(), which names the key alone and writes only the columns that      *)
(* differ from what was read; a read followed at once by an unconditional  *)
(* save is one step, since only the time of the write can be told apart.   *)
(***************************************************************************)
EXTENDS Naturals, FiniteSets

CONSTANTS
    Jobs,           \* ids of media_jobs rows
    Derivatives,    \* ids of media_derivatives rows of the cache key
    Callers,        \* HTTP requests and finalizers that the server works on
    MediaWorkers,   \* queue worker processes
    JobTries,       \* ProcessMediaWorkflow::$tries
    MaxQueuedJobs,  \* max_queued_jobs_per_queue
    MaxDisturbances, \* bound: processes killed and messages offered again in a behaviour
    Nothing         \* no job, no derivative

ASSUME JobTriesAssumption == JobTries \in Nat \ {0}
ASSUME MediaBoundsAssumption ==
    MaxQueuedJobs \in Nat /\ MaxDisturbances \in Nat
ASSUME NothingAssumption == Nothing \notin Jobs \cup Derivatives
ASSUME HolderAssumption == {"free", "leaked"} \cap MediaWorkers = {}

VARIABLES
    record,         \* the record of the key: absent, being ingested, present, or present
                    \* with an attachment that the key names, which makes it unique
    jobStatus,      \* media_jobs.status; "absent" before the row is committed
    makes,          \* options.derivativeId of each job
    derivative,     \* media_derivatives.status
    caller,         \* what each caller is doing: its operation, step, job and derivative
    messages,       \* messages waiting, by job and by attempts already made
    holder,         \* the WithoutOverlapping lock of each job
    worker,         \* each worker: step, job, attempt, whether the message is still
                    \* its own, and the status it has read
    givenUp,        \* jobs that nobody will finish: a delivery did not find the row, or
                    \* a process died between two writes that only it would make
    kills,          \* processes killed so far
    offers          \* messages offered again so far

mediaVars == <<record, jobStatus, makes, derivative, caller, messages, holder,
               worker, givenUp, kills, offers>>

Live == {"queued", "processing"}
Settled == {"completed", "failed", "canceled"}
Resting == [op |-> "none", at |-> "rest", job |-> Nothing, row |-> Nothing]
Polling == [at |-> "poll", job |-> Nothing, try |-> 0, owned |-> FALSE, saw |-> "none"]

MediaInit ==
    /\ record \in {"absent", "present", "attached"}
    /\ jobStatus = [j \in Jobs |-> "absent"]
    /\ makes = [j \in Jobs |-> Nothing]
    /\ derivative = [d \in Derivatives |-> "absent"]
    /\ caller = [c \in Callers |-> Resting]
    /\ messages = [j \in Jobs |-> [a \in 0..JobTries |-> 0]]
    /\ holder = [j \in Jobs |-> "free"]
    /\ worker = [w \in MediaWorkers |-> Polling]
    /\ givenUp = {} /\ kills = 0 /\ offers = 0

boundVars == <<kills, offers>>
Disturbance == kills + offers < MaxDisturbances
Kill == Disturbance /\ kills' = kills + 1 /\ UNCHANGED offers
Put(j, a) == messages' = [messages EXCEPT ![j][a] = @ + 1]

\* A message or a worker has the job.
Carried(j) ==
    \/ \E a \in 0..JobTries : messages[j][a] > 0
    \/ \E w \in MediaWorkers : worker[w].job = j

\* A uuid that no row, caller or message has; which one makes no difference.
IsNewJob(j) ==
    jobStatus[j] = "absent" /\ ~Carried(j) /\ \A c \in Callers : caller[c].job /= j
IsNewDerivative(d) ==
    derivative[d] = "absent" /\ \A c \in Callers : caller[c].row /= d

NewJob(j) == IsNewJob(j) /\ j = CHOOSE i \in Jobs : IsNewJob(i)
NewDerivative(d) == IsNewDerivative(d) /\ d = CHOOSE e \in Derivatives : IsNewDerivative(e)

-----------------------------------------------------------------------------
(* The callers.                                                            *)

Does(c, step) == caller' = [caller EXCEPT ![c].at = step]
Rests(c) == caller' = [caller EXCEPT ![c] = Resting]
Starts(c, op, step, j, d) ==
    /\ caller[c].at = "rest"
    /\ caller' = [caller EXCEPT ![c] = [op |-> op, at |-> step, job |-> j, row |-> d]]

jobRunVars == <<holder, worker, givenUp>>

Known == {d \in Derivatives : derivative[d] /= "absent"}

\* findOrBuildPending(): a row that is ready or in flight is the answer; one
\* that failed is to be tried again; else a row is built in memory.
FindOrBuild(c, d) ==
    /\ record \in {"present", "attached"}
    /\ IF Known = {} THEN NewDerivative(d) ELSE derivative[d] = "failed"
    /\ Starts(c, "derive", "insert", Nothing, d)
    /\ UNCHANGED <<record, jobStatus, makes, derivative, messages, jobRunVars, boundVars>>

\* retry(): a failed job's options go to a job of its own.
OpenRetry(c, j) ==
    /\ jobStatus[j] = "failed"
    /\ Starts(c, "retry", "insert", Nothing, makes[j])
    /\ UNCHANGED <<record, jobStatus, makes, derivative, messages, jobRunVars, boundVars>>

Depth == Cardinality({j \in Jobs : jobStatus[j] \in Live})

\* 429: the queue is at capacity.
AtCapacity(c) ==
    /\ caller[c].at = "insert" /\ Depth >= MaxQueuedJobs
    /\ Rests(c)
    /\ UNCHANGED <<record, jobStatus, makes, derivative, messages, jobRunVars, boundVars>>

InsertJob(c, j) ==
    /\ caller[c].at = "insert" /\ Depth < MaxQueuedJobs /\ NewJob(j)
    /\ jobStatus' = [jobStatus EXCEPT ![j] = "queued"]
    /\ makes' = [makes EXCEPT ![j] = caller[c].row]
    /\ caller' = [caller EXCEPT ![c].job = j,
                                ![c].at = IF caller[c].op = "derive" THEN "attach" ELSE "dispatch"]
    /\ UNCHANGED <<record, derivative, messages, jobRunVars, boundVars>>

\* attachJob() inserts the new row, unless another of a unique key is there
\* (the request ends in an error, after its job was inserted), or writes the
\* failed one back as "processing", whatever it has become.
Collides(d) == record = "attached" /\ derivative[d] = "absent" /\ Known /= {}

AttachJob(c) ==
    LET d == caller[c].row IN
    /\ caller[c].at = "attach"
    /\ IF Collides(d)
       THEN Rests(c) /\ UNCHANGED derivative
       ELSE Does(c, "dispatch") /\ derivative' = [derivative EXCEPT ![d] = "processing"]
    /\ UNCHANGED <<record, jobStatus, makes, messages, jobRunVars, boundVars>>

Dispatch(c) ==
    /\ caller[c].at = "dispatch"
    /\ Put(caller[c].job, 0)
    /\ Rests(c)
    /\ UNCHANGED <<record, jobStatus, makes, derivative, jobRunVars, boundVars>>

\* queueBaseline(), in the transaction that makes the record: rows that nobody
\* else sees yet, and a message that the queue has at once ...
QueueBaseline(c, j, d) ==
    /\ record = "absent" /\ NewJob(j) /\ NewDerivative(d)
    /\ record' = "ingesting"
    /\ Starts(c, "ingest", "commit", j, d)
    /\ Put(j, 0)
    /\ UNCHANGED <<jobStatus, makes, derivative, jobRunVars, boundVars>>

\* ... until it commits.
CommitBaseline(c) ==
    /\ caller[c].at = "commit"
    /\ record' = "present"
    /\ jobStatus' = [jobStatus EXCEPT ![caller[c].job] = "queued"]
    /\ makes' = [makes EXCEPT ![caller[c].job] = caller[c].row]
    /\ derivative' = [derivative EXCEPT ![caller[c].row] = "processing"]
    /\ Rests(c)
    /\ UNCHANGED <<messages, jobRunVars, boundVars>>

\* cancel() reads the row ...
OpenCancel(c, j) ==
    /\ jobStatus[j] \in Live
    /\ Starts(c, "cancel", "cancel", j, Nothing)
    /\ UNCHANGED <<record, jobStatus, makes, derivative, messages, jobRunVars, boundVars>>

\* ... and writes it without a guard, leaving the derivative alone.
SaveCancel(c) ==
    /\ caller[c].at = "cancel"
    /\ jobStatus' = [jobStatus EXCEPT ![caller[c].job] = "canceled"]
    /\ Rests(c)
    /\ UNCHANGED <<record, makes, derivative, messages, jobRunVars, boundVars>>

\* The process dies; an open transaction is rolled back.
CallerDies(c) ==
    /\ Kill /\ caller[c].at /= "rest"
    /\ record' = IF caller[c].at = "commit" THEN "absent" ELSE record
    /\ givenUp' = IF caller[c].at = "dispatch"
                  THEN givenUp \cup {caller[c].job} ELSE givenUp
    /\ Rests(c)
    /\ UNCHANGED <<jobStatus, makes, derivative, messages, holder, worker>>

-----------------------------------------------------------------------------
(* ProcessMediaWorkflow on a queue worker.                                 *)

callerVars == <<record, makes, caller>>

Turns(w, step) == worker' = [worker EXCEPT ![w].at = step]
Forgets(w, step) == worker' = [worker EXCEPT ![w].at = step, ![w].saw = "none"]
Polls(w) == worker' = [worker EXCEPT ![w] = Polling]
Failing(j) == [Polling EXCEPT !.at = "failing", !.job = j]
Looks(j) == givenUp' = IF jobStatus[j] = "absent" THEN givenUp \cup {j} ELSE givenUp
Writes(w, s) == jobStatus' = [jobStatus EXCEPT ![worker[w].job] = s]

\* The worker reserves a message.
TakeMessage(w, j, a) ==
    /\ worker[w].at = "poll" /\ a < JobTries /\ messages[j][a] > 0
    /\ messages' = [messages EXCEPT ![j][a] = @ - 1]
    /\ worker' = [worker EXCEPT ![w] =
                     [at |-> "taken", job |-> j, try |-> a + 1, owned |-> TRUE, saw |-> "none"]]
    /\ UNCHANGED <<callerVars, jobStatus, derivative, holder, givenUp, boundVars>>

\* Mutant: a message beyond $tries is only deleted.
TakeExhausted_Quietly(w, j) ==
    /\ worker[w].at = "poll" /\ messages[j][JobTries] > 0
    /\ messages' = [messages EXCEPT ![j][JobTries] = @ - 1]
    /\ UNCHANGED <<callerVars, jobStatus, derivative, holder, worker, givenUp, boundVars>>

\* A message beyond $tries is deleted and failed() called.
TakeExhausted(w, j) ==
    /\ worker[w].at = "poll" /\ messages[j][JobTries] > 0
    /\ messages' = [messages EXCEPT ![j][JobTries] = @ - 1]
    /\ worker' = [worker EXCEPT ![w] = Failing(j)]
    /\ UNCHANGED <<callerVars, jobStatus, derivative, holder, givenUp, boundVars>>

\* WithoutOverlapping(id)->releaseAfter(30): without the lock the message goes
\* back, one attempt older ...
JobOverlapped(w) ==
    LET j == worker[w].job IN
    /\ worker[w].at = "taken" /\ holder[j] /= "free"
    /\ Put(j, worker[w].try) /\ Polls(w)
    /\ UNCHANGED <<callerVars, jobStatus, derivative, holder, givenUp, boundVars>>

\* ... with it handle() finds the row, unless it is canceled or not there (yet).
FindJob(w) ==
    LET j == worker[w].job
        gone == jobStatus[j] \in {"absent", "canceled"} IN
    /\ worker[w].at = "taken" /\ holder[j] = "free"
    /\ holder' = [holder EXCEPT ![j] = w]
    /\ worker' = [worker EXCEPT ![w].at = IF gone THEN "finish" ELSE "begin",
                                ![w].saw = IF gone THEN "none" ELSE jobStatus[j]]
    /\ Looks(j)
    /\ UNCHANGED <<callerVars, jobStatus, derivative, messages, boundVars>>

\* A row read as "processing" is not written, any other becomes that; then
\* guardNotCanceled() looks at the database again before the work.
BeginJob(w) ==
    /\ worker[w].at = "begin"
    /\ IF worker[w].saw = "processing" THEN UNCHANGED jobStatus ELSE Writes(w, "processing")
    /\ Forgets(w, IF jobStatus'[worker[w].job] = "canceled" THEN "drop" ELSE "work")
    /\ UNCHANGED <<callerVars, derivative, messages, holder, givenUp, boundVars>>

\* A cancellation noticed while ffmpeg runs stops it.
StopCanceled(w) ==
    /\ worker[w].at = "work" /\ jobStatus[worker[w].job] = "canceled"
    /\ Turns(w, "drop")
    /\ UNCHANGED <<callerVars, jobStatus, derivative, messages, holder, givenUp, boundVars>>

\* The work is done: "completed" is saved, over whatever the row has become.
CompleteJob(w) ==
    /\ worker[w].at = "work"
    /\ Writes(w, "completed")
    /\ Turns(w, "ready")
    /\ UNCHANGED <<callerVars, derivative, messages, holder, givenUp, boundVars>>

\* markReady() and markFailed() of the job's derivative, if there is one.
SyncDerivative(w, step, s) ==
    LET d == makes[worker[w].job] IN
    /\ worker[w].at = step
    /\ derivative' = IF d /= Nothing /\ derivative[d] /= "absent"
                     THEN [derivative EXCEPT ![d] = s] ELSE derivative
    /\ Turns(w, "finish")
    /\ UNCHANGED <<callerVars, jobStatus, messages, holder, givenUp, boundVars>>

MarkReady(w) == SyncDerivative(w, "ready", "ready")
MarkDerivativeFailed(w) == SyncDerivative(w, "drop", "failed")

LetGo(w) == holder' = [j \in Jobs |-> IF holder[j] = w THEN "free" ELSE holder[j]]
Leak(w) == holder' = [j \in Jobs |-> IF holder[j] = w THEN "leaked" ELSE holder[j]]

\* The tool fails: the message goes back, also when this worker no longer owns
\* it, but the last try deletes it and calls failed().
WorkThrows(w) ==
    /\ worker[w].at = "work"
    /\ LetGo(w)
    /\ IF worker[w].try < JobTries
       THEN Put(worker[w].job, worker[w].try) /\ Polls(w)
       ELSE /\ worker' = [worker EXCEPT ![w] = Failing(worker[w].job)]
            /\ UNCHANGED messages
    /\ UNCHANGED <<callerVars, jobStatus, derivative, givenUp, boundVars>>

FinishJob(w) ==
    /\ worker[w].at = "finish"
    /\ LetGo(w) /\ Polls(w)
    /\ UNCHANGED <<callerVars, jobStatus, derivative, messages, givenUp, boundVars>>

\* failed() reads the row; a canceled or completed one is left alone.
FailedFinds(w) ==
    LET s == jobStatus[worker[w].job] IN
    /\ worker[w].at = "failing"
    /\ IF s \in {"absent", "canceled", "completed"}
       THEN Turns(w, "finish")
       ELSE worker' = [worker EXCEPT ![w].at = "mark", ![w].saw = s]
    /\ Looks(worker[w].job)
    /\ UNCHANGED <<callerVars, jobStatus, derivative, messages, holder, boundVars>>

\* Mutant: the derivative is not told of the failure.
MarkJobFailed_Alone(w) ==
    /\ worker[w].at = "mark"
    /\ IF worker[w].saw = "failed" THEN UNCHANGED jobStatus ELSE Writes(w, "failed")
    /\ Forgets(w, "finish")
    /\ UNCHANGED <<callerVars, derivative, messages, holder, givenUp, boundVars>>

MarkJobFailed(w) ==
    /\ worker[w].at = "mark"
    /\ IF worker[w].saw = "failed" THEN UNCHANGED jobStatus ELSE Writes(w, "failed")
    /\ Forgets(w, "drop")
    /\ UNCHANGED <<callerVars, derivative, messages, holder, givenUp, boundVars>>

\* retry_after (90 s) passes while the tool still runs (up to 900 s): the message
\* is offered again.
OfferAgain(w) ==
    /\ worker[w].at = "work" /\ worker[w].owned
    /\ Disturbance /\ offers' = offers + 1
    /\ Put(worker[w].job, worker[w].try)
    /\ worker' = [worker EXCEPT ![w].owned = FALSE]
    /\ UNCHANGED <<callerVars, jobStatus, derivative, holder, givenUp, kills>>

\* The process dies.  Its reservation lapses; its lock has no expiry.
WorkerDies(w) ==
    /\ Kill /\ worker[w].at /= "poll"
    /\ IF worker[w].owned THEN Put(worker[w].job, worker[w].try) ELSE UNCHANGED messages
    /\ givenUp' = IF worker[w].at \in {"failing", "mark", "ready", "drop"}
                  THEN givenUp \cup {worker[w].job} ELSE givenUp
    /\ Leak(w) /\ Polls(w)
    /\ UNCHANGED <<callerVars, jobStatus, derivative>>

-----------------------------------------------------------------------------
CallerNext ==
    \E c \in Callers :
        \/ \E d \in Derivatives : FindOrBuild(c, d)
        \/ \E j \in Jobs : OpenRetry(c, j) \/ InsertJob(c, j) \/ OpenCancel(c, j)
        \/ \E j \in Jobs, d \in Derivatives : QueueBaseline(c, j, d)
        \/ AtCapacity(c) \/ AttachJob(c) \/ Dispatch(c) \/ CommitBaseline(c)
        \/ SaveCancel(c) \/ CallerDies(c)

MediaWorkerStep(w) ==
    \/ \E j \in Jobs : TakeExhausted(w, j) \/ \E a \in 0..JobTries : TakeMessage(w, j, a)
    \/ JobOverlapped(w) \/ FindJob(w) \/ BeginJob(w)
    \/ StopCanceled(w) \/ CompleteJob(w) \/ WorkThrows(w)
    \/ MarkReady(w) \/ MarkDerivativeFailed(w) \/ FinishJob(w)
    \/ FailedFinds(w) \/ MarkJobFailed(w)

MediaNext ==
    CallerNext \/ \E w \in MediaWorkers : MediaWorkerStep(w) \/ OfferAgain(w) \/ WorkerDies(w)

MediaSpec == MediaInit /\ [][MediaNext]_mediaVars

\* The supervisor keeps workers polling the queue, and a job has a timeout.
MediaFairness == \A w \in MediaWorkers : WF_mediaVars(MediaWorkerStep(w))

-----------------------------------------------------------------------------
(* Properties.                                                             *)

\* Rows and processes hold values of their types.
MediaTypeOK ==
    /\ record \in {"absent", "ingesting", "present", "attached"}
    /\ jobStatus \in [Jobs -> {"absent"} \cup Live \cup Settled]
    /\ makes \in [Jobs -> Derivatives \cup {Nothing}]
    /\ derivative \in [Derivatives -> {"absent", "processing", "ready", "failed"}]
    /\ messages \in [Jobs -> [0..JobTries -> Nat]]
    /\ holder \in [Jobs -> MediaWorkers \cup {"free", "leaked"}]
    /\ givenUp \subseteq Jobs

\* A derivative in progress is in somebody's hands: a message or a worker will
\* mark it, however requests for it race with each other, with the retries of
\* its jobs and with deliveries that overlap.  The code gives up on some: those
\* whose job was canceled while no worker was at it, was delivered before the
\* ingest committed it, or was left by a process that died between two writes.
InHands ==
    \A d \in Derivatives : derivative[d] = "processing" =>
        \E j \in Jobs :
            \/ makes[j] = d /\ (Carried(j) \/ jobStatus[j] = "canceled" \/ j \in givenUp)
            \/ \E c \in Callers : caller[c].row = d /\ caller[c].at = "dispatch"

\* A job that has been dispatched does not stay queued or in processing: it is
\* completed, failed or canceled in the end, even if a worker dies at it and
\* leaves its lock, unless it dies when it has just given up the message.
JobsSettle ==
    \A j \in Jobs :
        (jobStatus[j] \in Live /\ Carried(j)) ~> (jobStatus[j] \in Settled \/ j \in givenUp)

\* "failed" is written once retries are exhausted, "so a job that succeeds on
\* retry never shows a stale failed status": no failed job completes.
FailedIsOver ==
    [][\A j \in Jobs : jobStatus[j] = "failed" => jobStatus'[j] /= "completed"]_mediaVars

=============================================================================
