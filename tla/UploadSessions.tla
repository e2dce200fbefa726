--------------------------- MODULE UploadSessions ---------------------------
(***************************************************************************)
(* One chunked-upload session of archive-laravel and the HTTP requests     *)
(* that race over it: UploadSessionsController (chunk, complete, abort)    *)
(* and ScheduledUploadsController::create with UploadStager, which turns   *)
(* a finished session into a scheduled upload.                             *)
(*                                                                         *)
(* A file is the set of chunk indices whose bytes it holds; a checksum is  *)
(* the file it was computed from.  Every step is one SQL statement or one  *)
(* storage call.  Reads and plain UPDATEs take no lock; SELECT ... FOR     *)
(* UPDATE does, and makes every other write of the row wait.               *)
(***************************************************************************)
EXTENDS Integers, Sequences, FiniteSets

CONSTANTS
    Requests,       \* HTTP requests that may be under way at once
    Keys,           \* idempotency keys of schedule requests
    N,              \* total_chunks
    MaxFaults       \* bound: crashes, database and disk errors in a behaviour

ASSUME ChunksAssumption == N \in Nat \ {0}
ASSUME FaultsAssumption == MaxFaults \in Nat

VARIABLES
    status,     \* the status column; "deleted" once the row is gone
    received,   \* received_chunks
    expired,    \* now() > expires_at
    checked,    \* checksum_sha256 is not null (and is that of the whole file)
    safe,       \* the verdict of UploadFileValidator on the file's first bytes
    lock,       \* the request that holds the row lock
    chunks,     \* files in the session's chunk directory
    quarantine, \* the assembled file in quarantine, as a set of at most one file
    served,     \* the file at its servable path, likewise
    records,    \* checksums of the archive records made from the session
    schedules,  \* scheduled_uploads rows made from it: <<idempotency key, checksum>>
    pc, op,     \* requests: next step and operation
    at,         \* requests: the chunk uploaded, or the next one to assemble
    key,        \* requests: idempotencyKey
    part,       \* requests: what has been read, of the row or of the chunks
    then,       \* requests: what follows the deletion of the chunks
    acked,      \* chunks a client has been told are stored
    spoiled,    \* two consumers have overlapped, or one was cut short
    unwritten,  \* chunks of which a write has failed without anybody noticing
    misplaced,  \* a move has failed without anybody noticing
    faults      \* crashes, database and disk errors so far

sessionVars == <<status, received, lock>>
rigidVars   == <<checked, safe>>
lossVars    == <<unwritten, misplaced>>
fileVars    == <<chunks, quarantine, served>>
outcomeVars == <<records, schedules>>
requestVars == <<pc, op, at, key, part, then>>
vars == <<sessionVars, rigidVars, lossVars, expired, fileVars, outcomeVars, requestVars,
          acked, spoiled, faults>>

Index == 0..(N - 1)
File == SUBSET Index
Pcs == {"idle", "expire", "put", "lock", "record", "session", "assemble", "store",
        "drop", "sniff", "move", "insert", "purge", "mark", "commit", "undo", "remove"}

\* UploadSessionsController::create has inserted the row.
Init ==
    /\ status = "pending" /\ received = {} /\ expired = FALSE
    /\ checked \in BOOLEAN /\ safe \in BOOLEAN
    /\ lock = {} /\ chunks = {} /\ quarantine = {} /\ served = {}
    /\ records = <<>> /\ schedules = {}
    /\ pc = [r \in Requests |-> "idle"]
    /\ op = [r \in Requests |-> "none"]
    /\ at = [r \in Requests |-> 0]
    /\ key \in [Requests -> Keys]
    /\ part = [r \in Requests |-> {}]
    /\ then = [r \in Requests |-> "none"]
    /\ acked = {} /\ spoiled = FALSE
    /\ unwritten = {} /\ misplaced = FALSE /\ faults = 0

Goto(r, l) == pc' = [pc EXCEPT ![r] = l]

\* The response is sent, or an exception ends the request.
Done(r) ==
    /\ Goto(r, "idle")
    /\ op' = [op EXCEPT ![r] = "none"]
    /\ at' = [at EXCEPT ![r] = 0]
    /\ part' = [part EXCEPT ![r] = {}]
    /\ then' = [then EXCEPT ![r] = "none"]
    /\ UNCHANGED key

Start(r, o, l, i) ==
    /\ pc[r] = "idle"
    /\ Goto(r, l)
    /\ op' = [op EXCEPT ![r] = o]
    /\ at' = [at EXCEPT ![r] = i]
    /\ UNCHANGED <<key, part, then>>

Step(r, from, to) ==
    /\ pc[r] = from
    /\ Goto(r, to)
    /\ UNCHANGED <<op, at, key, part, then>>

\* Mutant: the row is read and written without a lock.
RowIsFree_Always == TRUE

RowIsFree == lock = {}

\* assertSessionUsable, on the row a request has just read.
Usable == status = "pending" /\ ~expired

missingChunks == Index \ received

\* A request that has passed the checks that admit a consumer of the session.
Consuming(r) ==
    /\ op[r] \in {"complete", "schedule", "destroy"}
    /\ pc[r] \notin {"idle", "session"}

Admit == spoiled' = (spoiled \/ \E q \in Requests : Consuming(q))

Fault == faults < MaxFaults /\ faults' = faults + 1

-----------------------------------------------------------------------------
(* PUT /uploads/sessions/{id}/chunks/{index}                               *)

UploadChunk(r, i) ==
    /\ Usable
    /\ Start(r, "chunk", "put", i)
    /\ UNCHANGED <<sessionVars, rigidVars, lossVars, expired, fileVars, outcomeVars,
                   acked, spoiled, faults>>

PutChunk(r) ==
    /\ Step(r, "put", "lock")
    /\ chunks' = chunks \cup {at[r]}
    /\ UNCHANGED <<sessionVars, rigidVars, lossVars, expired, quarantine, served, outcomeVars,
                   acked, spoiled, faults>>

\* The disks have 'throw' => false, and nobody reads what put() returns: a write
\* that fails leaves what was there, and the request goes on.
PutUnnoticed(r) ==
    /\ Fault
    /\ Step(r, "put", "lock")
    /\ unwritten' = unwritten \cup {at[r]}
    /\ UNCHANGED <<sessionVars, rigidVars, misplaced, expired, fileVars, outcomeVars,
                   acked, spoiled>>

LockChunk(r) ==
    /\ pc[r] = "lock" /\ RowIsFree /\ status # "deleted"
    /\ lock' = {r}
    /\ part' = [part EXCEPT ![r] = received]
    /\ Goto(r, "record")
    /\ UNCHANGED <<op, at, key, then, status, received, rigidVars, lossVars, expired, fileVars,
                   outcomeVars, acked, spoiled, faults>>

\* $locked is null: the file stays behind, the request fails.
OrphanChunk(r) ==
    /\ pc[r] = "lock" /\ RowIsFree /\ status = "deleted"
    /\ Done(r)
    /\ UNCHANGED <<sessionVars, rigidVars, lossVars, expired, fileVars, outcomeVars,
                   acked, spoiled, faults>>

RecordChunk(r) ==
    /\ pc[r] = "record"
    /\ received' = part[r] \cup {at[r]}
    /\ acked' = acked \cup {at[r]}
    /\ lock' = {}
    /\ Done(r)
    /\ UNCHANGED <<status, rigidVars, lossVars, expired, fileVars, outcomeVars, spoiled, faults>>

\* A chunk or complete request finds the session past its expiry ...
FindExpired(r) ==
    /\ status = "pending" /\ expired
    /\ Start(r, "none", "expire", 0)
    /\ UNCHANGED <<sessionVars, rigidVars, lossVars, expired, fileVars, outcomeVars,
                   acked, spoiled, faults>>

\* ... and writes 'aborted' by key, whatever the row has become.
AbortExpired(r) ==
    /\ pc[r] = "expire" /\ RowIsFree
    /\ status' = IF status = "deleted" THEN status ELSE "aborted"
    /\ Done(r)
    /\ UNCHANGED <<received, lock, rigidVars, lossVars, expired, fileVars, outcomeVars,
                   acked, spoiled, faults>>

-----------------------------------------------------------------------------
(* POST /uploads/sessions/{id}/complete                                    *)

Complete(r) ==
    /\ Usable /\ missingChunks = {}
    /\ Start(r, "complete", "assemble", 0)
    /\ Admit
    /\ UNCHANGED <<sessionVars, rigidVars, lossVars, expired, fileVars, outcomeVars, acked, faults>>

(***************************************************************************)
(* assembleChunks.  Storage::get() returns null for a missing chunk.  The  *)
(* controller concatenates and hashes null as nothing; UploadStager is     *)
(* strict_types, so hash_update() throws and the transaction rolls back.   *)
(***************************************************************************)
\* Mutant: the stager reads a missing chunk as the controller does.
Readable_Loose(r) == TRUE

Readable(r) == op[r] = "complete" \/ at[r] \in chunks

MoreChunks(r) == at[r] < N

AssembleChunk(r) ==
    /\ pc[r] = "assemble" /\ MoreChunks(r) /\ Readable(r)
    /\ part' = [part EXCEPT ![r] = @ \cup ({at[r]} \cap chunks)]
    /\ at' = [at EXCEPT ![r] = @ + 1]
    /\ UNCHANGED <<sessionVars, rigidVars, lossVars, expired, fileVars, outcomeVars,
                   pc, op, key, then, acked, spoiled, faults>>

StageMissing(r) ==
    /\ pc[r] = "assemble" /\ MoreChunks(r) /\ ~Readable(r)
    /\ lock' = {}
    /\ Done(r)
    /\ UNCHANGED <<status, received, rigidVars, lossVars, expired, fileVars, outcomeVars,
                   acked, spoiled, faults>>

EndAssembly(r) ==
    /\ pc[r] = "assemble" /\ ~MoreChunks(r)
    /\ Step(r, "assemble", "store")
    /\ UNCHANGED <<sessionVars, rigidVars, lossVars, expired, fileVars, outcomeVars,
                   acked, spoiled, faults>>

\* Mutant: the checksum supplied at creation is not compared.
Mismatch_Never(r) == FALSE

Mismatch(r) == checked /\ part[r] # Index

AfterStore(r) == IF Mismatch(r) THEN "drop" ELSE "sniff"

StoreAssembled(r) ==
    /\ Step(r, "store", AfterStore(r))
    /\ quarantine' = {part[r]}
    /\ UNCHANGED <<sessionVars, rigidVars, lossVars, expired, chunks, served, outcomeVars,
                   acked, spoiled, faults>>

\* The assembled file is not written, and its checksum is that of what was read.
StoreUnnoticed(r) ==
    /\ Fault
    /\ Step(r, "store", AfterStore(r))
    /\ UNCHANGED <<sessionVars, rigidVars, lossVars, expired, fileVars, outcomeVars,
                   acked, spoiled>>

\* The sample is the first bytes: the first chunk's, or those of whatever the
\* file begins with, an empty file included.
SafeVerdicts(f) == IF 0 \in f THEN {safe} ELSE BOOLEAN

\* assertSafeContent reads the quarantined file again, by path.
Accepted == \E f \in quarantine : TRUE \in SafeVerdicts(f)
Refusable == \A f \in quarantine : FALSE \in SafeVerdicts(f)

SniffAccepts(r) ==
    /\ op[r] = "complete" /\ Accepted
    /\ Step(r, "sniff", "move")
    /\ UNCHANGED <<sessionVars, rigidVars, lossVars, expired, fileVars, outcomeVars,
                   acked, spoiled, faults>>

SniffRefuses(r) ==
    /\ Refusable
    /\ Step(r, "sniff", "drop")
    /\ UNCHANGED <<sessionVars, rigidVars, lossVars, expired, fileVars, outcomeVars,
                   acked, spoiled, faults>>

\* stage() is satisfied and goes on to delete the chunks.
StageVerified(r) ==
    /\ op[r] = "schedule" /\ Accepted
    /\ pc[r] = "sniff"
    /\ Goto(r, "purge")
    /\ then' = [then EXCEPT ![r] = "staged"]
    /\ UNCHANGED <<sessionVars, rigidVars, lossVars, expired, fileVars, outcomeVars,
                   op, at, key, part, acked, spoiled, faults>>

\* The assembled file is refused and deleted, before the chunks are.
DropAssembled(r) ==
    /\ pc[r] = "drop"
    /\ quarantine' = {}
    /\ Goto(r, "purge")
    /\ then' = [then EXCEPT ![r] = IF op[r] = "complete" THEN "aborted" ELSE "refused"]
    /\ UNCHANGED <<sessionVars, rigidVars, lossVars, expired, chunks, served, outcomeVars,
                   op, at, key, part, acked, spoiled, faults>>

\* UploadFinalizer::finalize.  move() of a missing file returns false, which
\* nobody reads.
MoveToServed(r) ==
    /\ Step(r, "move", "insert")
    /\ served' = IF quarantine = {} THEN served ELSE quarantine
    /\ quarantine' = {}
    /\ UNCHANGED <<sessionVars, rigidVars, lossVars, expired, chunks, outcomeVars,
                   acked, spoiled, faults>>

\* The move fails, or (on an object store) copies the file and cannot delete it;
\* the record is made all the same.
MoveUnnoticed(r) ==
    /\ Fault
    /\ Step(r, "move", "insert")
    /\ served' \in {served, IF quarantine = {} THEN served ELSE quarantine}
    /\ misplaced' = TRUE
    /\ UNCHANGED <<sessionVars, rigidVars, unwritten, expired, chunks, quarantine,
                   outcomeVars, acked, spoiled>>

InsertRecord(r) ==
    /\ pc[r] = "insert"
    /\ records' = Append(records, part[r])
    /\ Goto(r, "purge")
    /\ then' = [then EXCEPT ![r] = "completed"]
    /\ UNCHANGED <<sessionVars, rigidVars, lossVars, expired, fileVars, schedules,
                   op, at, key, part, acked, spoiled, faults>>

\* deleteChunks removes the directory file by file ...
PurgeChunk(r) ==
    /\ pc[r] = "purge"
    /\ \E i \in chunks : chunks' = chunks \ {i}
    /\ UNCHANGED <<sessionVars, rigidVars, lossVars, expired, quarantine, served, outcomeVars,
                   requestVars, acked, spoiled, faults>>

AfterPurge(r) == CASE then[r] = "staged" -> "commit"
                   [] then[r] = "deleted" -> "remove"
                   [] OTHER -> "mark"

\* ... until it is empty.
EndPurge(r) ==
    /\ chunks = {} /\ then[r] # "refused"
    /\ Step(r, "purge", AfterPurge(r))
    /\ UNCHANGED <<sessionVars, rigidVars, lossVars, expired, fileVars, outcomeVars,
                   acked, spoiled, faults>>

\* Mutant: a refused assembly returns without closing the session.
Outcome_Unmarked(r) == IF then[r] = "aborted" THEN status ELSE then[r]

Outcome(r) == then[r]

\* complete() writes 'completed' or 'aborted' by key.
MarkSession(r) ==
    /\ pc[r] = "mark" /\ RowIsFree
    /\ status' = IF status = "deleted" THEN status ELSE Outcome(r)
    /\ Done(r)
    /\ UNCHANGED <<received, lock, rigidVars, lossVars, expired, fileVars, outcomeVars,
                   acked, spoiled, faults>>

-----------------------------------------------------------------------------
(* DELETE /uploads/sessions/{id}                                           *)

Destroy(r) ==
    /\ status # "deleted"
    /\ pc[r] = "idle"
    /\ Goto(r, "purge")
    /\ op' = [op EXCEPT ![r] = "destroy"]
    /\ then' = [then EXCEPT ![r] = "deleted"]
    /\ Admit
    /\ UNCHANGED <<sessionVars, rigidVars, lossVars, expired, fileVars, outcomeVars,
                   at, key, part, acked, faults>>

RemoveSession(r) ==
    /\ pc[r] = "remove" /\ RowIsFree
    /\ status' = "deleted"
    /\ Done(r)
    /\ UNCHANGED <<received, lock, rigidVars, lossVars, expired, fileVars, outcomeVars,
                   acked, spoiled, faults>>

-----------------------------------------------------------------------------
(* POST /scheduled-uploads                                                 *)

Scheduled(k) == \E s \in schedules : s[1] = k

\* sessionConflict looks at the status and at the chunks, not at expires_at.
Stageable == status = "pending" /\ missingChunks = {}

\* The idempotency lookup and the fast-path check; a key that has a schedule
\* is answered with it.
Schedule(r) ==
    /\ ~Scheduled(key[r]) /\ Stageable
    /\ Start(r, "schedule", "session", 0)
    /\ UNCHANGED <<sessionVars, rigidVars, lossVars, expired, fileVars, outcomeVars,
                   acked, spoiled, faults>>

\* The transaction opens: lockForUpdate, then the authoritative check.
LockSession(r) ==
    /\ RowIsFree /\ Stageable
    /\ Step(r, "session", "assemble")
    /\ lock' = {r}
    /\ Admit
    /\ UNCHANGED <<status, received, rigidVars, lossVars, expired, fileVars, outcomeVars,
                   acked, faults>>

\* The session has been consumed or removed while the request waited.
SessionConflict(r) ==
    /\ pc[r] = "session" /\ RowIsFree /\ ~Stageable
    /\ Done(r)
    /\ UNCHANGED <<sessionVars, rigidVars, lossVars, expired, fileVars, outcomeVars,
                   acked, spoiled, faults>>

\* stage() throws after deleting the artifact and the chunks; the transaction
\* rolls back and the session stays pending.
StageRefused(r) ==
    /\ pc[r] = "purge" /\ then[r] = "refused" /\ chunks = {}
    /\ lock' = {}
    /\ spoiled' = TRUE
    /\ Done(r)
    /\ UNCHANGED <<status, received, rigidVars, lossVars, expired, fileVars, outcomeVars,
                   acked, faults>>

\* Mutant: the commit leaves the session pending.
StagedStatus_Unset == status

StagedStatus == "staged"

\* The schedule is inserted, the session is 'staged', the transaction commits.
CommitSchedule(r) ==
    /\ pc[r] = "commit" /\ ~Scheduled(key[r])
    /\ schedules' = schedules \cup {<<key[r], part[r]>>}
    /\ status' = StagedStatus
    /\ lock' = {}
    /\ Done(r)
    /\ UNCHANGED <<received, rigidVars, lossVars, expired, fileVars, records,
                   acked, spoiled, faults>>

\* The insert or the commit fails: rollback, then the artifact is deleted.
CommitFails(r) ==
    /\ Fault
    /\ Step(r, "commit", "undo")
    /\ lock' = {}
    /\ spoiled' = TRUE
    /\ UNCHANGED <<status, received, rigidVars, lossVars, expired, fileVars, outcomeVars, acked>>

UndoStage(r) ==
    /\ pc[r] = "undo"
    /\ quarantine' = {}
    /\ Done(r)
    /\ UNCHANGED <<sessionVars, rigidVars, lossVars, expired, chunks, served, outcomeVars,
                   acked, spoiled, faults>>

-----------------------------------------------------------------------------
(* The environment.                                                        *)

Expire ==
    /\ ~expired
    /\ expired' = TRUE
    /\ UNCHANGED <<sessionVars, rigidVars, lossVars, fileVars, outcomeVars, requestVars,
                   acked, spoiled, faults>>

\* The PHP process dies; the database drops its connection and its lock.
Crash(r) ==
    /\ pc[r] # "idle" /\ Fault
    /\ spoiled' = (spoiled \/ Consuming(r))
    /\ lock' = lock \ {r}
    /\ Done(r)
    /\ UNCHANGED <<status, received, rigidVars, lossVars, expired, fileVars, outcomeVars, acked>>

ChunkRequest(r) ==
    \/ \E i \in Index : UploadChunk(r, i)
    \/ PutChunk(r) \/ PutUnnoticed(r) \/ LockChunk(r) \/ OrphanChunk(r) \/ RecordChunk(r)
    \/ FindExpired(r) \/ AbortExpired(r)

CompleteRequest(r) ==
    \/ Complete(r) \/ AssembleChunk(r) \/ EndAssembly(r) \/ StoreAssembled(r) \/ StoreUnnoticed(r)
    \/ SniffAccepts(r) \/ SniffRefuses(r) \/ DropAssembled(r)
    \/ MoveToServed(r) \/ MoveUnnoticed(r) \/ InsertRecord(r)
    \/ PurgeChunk(r) \/ EndPurge(r) \/ MarkSession(r)

ScheduleRequest(r) ==
    \/ Schedule(r) \/ LockSession(r) \/ SessionConflict(r)
    \/ StageMissing(r) \/ StageVerified(r) \/ StageRefused(r)
    \/ CommitSchedule(r) \/ CommitFails(r) \/ UndoStage(r)

Next ==
    \/ Expire
    \/ \E r \in Requests :
          \/ ChunkRequest(r) \/ CompleteRequest(r) \/ ScheduleRequest(r)
          \/ Destroy(r) \/ RemoveSession(r) \/ Crash(r)

Spec == Init /\ [][Next]_vars

-----------------------------------------------------------------------------
(* Properties.                                                             *)

\* The types, and the row lock held exactly inside the two transactions.
TypeOK ==
    /\ status \in {"pending", "completed", "aborted", "staged", "deleted"}
    /\ received \in File /\ chunks \in File /\ acked \in File
    /\ unwritten \in File
    /\ {expired, checked, safe, spoiled, misplaced} \subseteq BOOLEAN
    /\ lock \in SUBSET Requests
    /\ quarantine \in SUBSET File /\ served \in SUBSET File
    /\ records \in Seq(File)
    /\ schedules \in SUBSET (Keys \X File)
    /\ pc \in [Requests -> Pcs]
    /\ op \in [Requests -> {"none", "chunk", "complete", "schedule", "destroy"}]
    /\ at \in [Requests -> 0..N]
    /\ key \in [Requests -> Keys]
    /\ part \in [Requests -> File]
    /\ then \in [Requests -> {"none", "completed", "aborted", "staged", "refused", "deleted"}]
    /\ faults \in 0..MaxFaults

\* A chunk the client was told is received stays in received_chunks, however
\* many uploads, completions and expirations race: the list never loses an update.
AckedKept == acked \subseteq received

\* One session becomes at most one scheduled upload, whatever the number of
\* requests and idempotency keys: the check under the lock gates staging.
OneStaging == Cardinality(schedules) <= 1

\* The checksum stored on a schedule is that of the whole file, even when an
\* abort or a completion is deleting the chunks while the stager reads them.
ScheduleIsWhole == \A s \in schedules : s[2] = Index

\* With a client checksum, every archive record carries the whole file's
\* checksum, whatever was missing on disk when it was assembled.
RecordIsWhole == checked => \A n \in 1..Len(records) : records[n] = Index

\* While nobody consumes the session, what GET tells a resuming client it need
\* not send again really is on disk, except for the writes that failed unnoticed.
Quiet == \A r \in Requests : ~Consuming(r)
HasWhatItClaims == status = "pending" /\ Quiet => received \ unwritten \subseteq chunks

ResumeIsSound == ~spoiled => HasWhatItClaims

\* A session ends in one outcome: an archive record or a scheduled upload.
OneOutcome == Len(records) + Cardinality(schedules) <= 1

\* The file of a record is the one whose checksum the record carries: where the
\* record says it is, or still in quarantine after a move that failed unnoticed.
\* It lacks no chunk but those whose write failed unnoticed.
Filed(file) ==
    /\ served = {file} \/ (misplaced /\ quarantine = {file})
    /\ Index \ unwritten \subseteq file

\* Consumers that neither overlap nor are cut short leave one outcome, and the
\* file behind it is the one it was made from: whatever the disks fail to write
\* or to move, no file is lost, exchanged, or short of a chunk that was written.
SerialConsumersAreSound ==
    ~spoiled =>
        /\ OneOutcome
        /\ \A n \in 1..Len(records) : Filed(records[n])
        /\ schedules # {} => quarantine = {Index}

=============================================================================
