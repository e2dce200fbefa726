---------------------------- MODULE UploadClient ----------------------------
(***************************************************************************)
(* The tabs of one browser upload large files in chunks, now or for a      *)
(* schedule (archive-next/lib/chunked-upload.ts, UploadForm.tsx).  They    *)
(* share the map in localStorage that lets an interrupted upload resume.   *)
(*                                                                         *)
(* The server's side of a call is one step here: what requests that        *)
(* overlap do to one session is UploadSessions' subject.  A file is its    *)
(* name, its stamp (size and lastModified) and its body; a file of up to   *)
(* 200 MB is hashed when its session is created.                           *)
(***************************************************************************)
EXTENDS Naturals, Sequences, FiniteSets

CONSTANTS
    UploadTabs,
    Files,          \* records: name, stamp, body, and whether it is hashed
    ChunkCount,     \* chunks of a file
    MaxSessions, MaxBegins, MaxFailures     \* bounds

ASSUME UploadAssumption ==
    /\ \A f, g \in Files : f.stamp = g.stamp => f.hashed = g.hashed    \* by the size
    /\ \A f \in Files : f.stamp \in Nat /\ f.hashed \in BOOLEAN
    /\ ChunkCount \in Nat \ {0}
    /\ MaxSessions \in Nat /\ MaxBegins \in Nat /\ MaxFailures \in Nat

VARIABLES
    upload,     \* each tab's upload
    resume,     \* the resume map: the session of a fingerprint, 0 for none
    session,    \* upload_sessions, in the order of their creation
    made,       \* what the records and schedules were made of: sets of chunks
    begins, failures,
    shared,     \* two tabs have worked on one fingerprint at once
    forgot      \* a resume entry was cleared for want of an answer

uploadVars == <<upload, resume, session, made, begins, failures, shared, forgot>>

ChunkIndex == 0..(ChunkCount - 1)
SessionIds == 0..MaxSessions

\* Mutant: the size and the time are left out of the fingerprint.
Fingerprint_NameOnly(f) == <<f.name, 0>>

\* fileFingerprint, in one folder.
Fingerprint(f) == <<f.name, f.stamp>>

Steps == {"idle", "status", "create", "chunk", "complete", "schedule", "describe", "failed"}

\* received: what the server had when the session was opened; index: where the
\* loop is; answer: that to the call under way.  An idle tab may have a file
\* selected.
Uploads == [step : Steps, file : SUBSET Files, scheduled : BOOLEAN, id : SessionIds,
            received : SUBSET ChunkIndex, index : 0..ChunkCount,
            answer : {"none", "ok", "refused", "lost"}]
NoUpload == [step |-> "idle", file |-> {}, scheduled |-> FALSE, id |-> 0,
             received |-> {}, index |-> 0, answer |-> "none"]

\* stored: the chunks on disk, by index and file they came from.
SessionRows == [status : {"pending", "completed", "staged", "aborted"},
                received : SUBSET ChunkIndex, stored : SUBSET (ChunkIndex \X Files),
                checksum : SUBSET Files]

UploadInit ==
    /\ upload = [t \in UploadTabs |-> NoUpload]
    /\ resume = [p \in {Fingerprint(f) : f \in Files} |-> 0]
    /\ session = <<>> /\ made = {}
    /\ begins = 0 /\ failures = 0
    /\ shared = FALSE /\ forgot = FALSE

-----------------------------------------------------------------------------
(* The client.                                                             *)

FileOf(t) == CHOOSE f \in upload[t].file : TRUE
PrintOf(t) == Fingerprint(FileOf(t))
Resting(t) == upload[t].step \in {"idle", "failed"}
Busy(t) == ~Resting(t)

Put(t, u) == upload' = [upload EXCEPT ![t] = u]
Fail(t) == Put(t, [NoUpload EXCEPT !.step = "failed", !.file = upload[t].file,
                                   !.scheduled = upload[t].scheduled])

Remember(p, id) == resume' = [resume EXCEPT ![p] = id]

\* stageUploadSession starts from what the map says.
StageUpload(t, f, scheduled) ==
    /\ Put(t, [NoUpload EXCEPT !.step = IF resume[Fingerprint(f)] = 0 THEN "create" ELSE "status",
                               !.file = {f}, !.scheduled = scheduled, !.id = resume[Fingerprint(f)]])
    /\ shared' = (shared \/ \E o \in UploadTabs \ {t} : Busy(o) /\ PrintOf(o) = Fingerprint(f))

\* handleSubmit, with a file of the user's choice.
BeginUpload(t, f, scheduled) ==
    /\ Resting(t) /\ begins < MaxBegins
    /\ begins' = begins + 1
    /\ StageUpload(t, f, scheduled)
    /\ UNCHANGED <<resume, session, made, failures, forgot>>

\* retryFailedFiles; the user may have gone from scheduling to uploading now.
RetryUpload(t, scheduled) ==
    /\ upload[t].step = "failed" /\ begins < MaxBegins
    /\ begins' = begins + 1
    /\ StageUpload(t, FileOf(t), scheduled)
    /\ UNCHANGED <<resume, session, made, failures, forgot>>

\* The page is closed or loaded again.  What was sent may still be served:
\* that is a call whose answer is lost.
LeavePage(t) ==
    /\ Busy(t) /\ failures < MaxFailures
    /\ failures' = failures + 1
    /\ Put(t, NoUpload)
    /\ UNCHANGED <<resume, session, made, begins, shared, forgot>>

\* Mutant: the search starts one chunk late.
NextChunk_Late(i, received) ==
    LET left == {j \in (i + 1)..(ChunkCount - 1) : j \notin received}
    IN  IF left = {} THEN ChunkCount ELSE CHOOSE j \in left : \A l \in left : j <= l

\* The first chunk from index i on that the server does not have.
NextChunk(i, received) ==
    LET left == {j \in i..(ChunkCount - 1) : j \notin received}
    IN  IF left = {} THEN ChunkCount ELSE CHOOSE j \in left : \A l \in left : j <= l

FirstChunk(received) == NextChunk(0, received)

IsChunk(i) == i < ChunkCount

\* On to chunk i; after the last one the caller completes the session or
\* schedules it.
Continue(u, i) ==
    [u EXCEPT !.answer = "none", !.index = i,
              !.step = IF IsChunk(i) THEN "chunk" ELSE IF u.scheduled THEN "schedule" ELSE "complete"]

\* The session that the map named is pending, or a new one is asked for.
HearStatus(t) ==
    /\ upload[t].step = "status" /\ upload[t].answer /= "none"
    /\ IF upload[t].answer = "ok"
       THEN /\ Put(t, Continue(upload[t], FirstChunk(upload[t].received)))
            /\ Remember(PrintOf(t), upload[t].id)
            /\ UNCHANGED forgot
       ELSE /\ Put(t, [upload[t] EXCEPT !.step = "create", !.answer = "none", !.id = 0])
            /\ Remember(PrintOf(t), 0)
            /\ forgot' = (forgot \/ upload[t].answer = "lost")
    /\ UNCHANGED <<session, made, begins, failures, shared>>

\* Mutant: the session is remembered only when it is completed.
OpenedSaved_Never(t) == UNCHANGED resume

\* saveResumeEntry, before the first chunk.
OpenedSaved(t) == Remember(PrintOf(t), upload[t].id)

HearCreate(t) ==
    /\ upload[t].step = "create" /\ upload[t].answer /= "none"
    /\ IF upload[t].answer = "ok"
       THEN Put(t, Continue(upload[t], FirstChunk(upload[t].received))) /\ OpenedSaved(t)
       ELSE Fail(t) /\ UNCHANGED resume
    /\ UNCHANGED <<session, made, begins, failures, shared, forgot>>

HearChunk(t) ==
    /\ upload[t].step = "chunk" /\ upload[t].answer /= "none"
    /\ IF upload[t].answer = "ok"
       THEN Put(t, Continue(upload[t], NextChunk(upload[t].index + 1, upload[t].received)))
       ELSE Fail(t)
    /\ UNCHANGED <<resume, session, made, begins, failures, shared, forgot>>

\* A consumed session is forgotten; after an upload the record is described.
HearConsumed(t) ==
    /\ upload[t].step \in {"complete", "schedule"} /\ upload[t].answer /= "none"
    /\ IF upload[t].answer = "ok"
       THEN /\ Remember(PrintOf(t), 0)
            /\ Put(t, IF upload[t].scheduled THEN NoUpload
                      ELSE [NoUpload EXCEPT !.step = "describe", !.file = upload[t].file])
       ELSE Fail(t) /\ UNCHANGED resume
    /\ UNCHANGED <<session, made, begins, failures, shared, forgot>>

\* bulkRecords: when it fails so does the upload, with its record made.
Describe(t) ==
    /\ upload[t].step = "describe"
    /\ Put(t, NoUpload) \/ Fail(t)
    /\ UNCHANGED <<resume, session, made, begins, failures, shared, forgot>>

-----------------------------------------------------------------------------
(* The server.                                                             *)

Asked(t, step) == upload[t].step = step /\ upload[t].answer = "none"
Row(t) == session[upload[t].id]
Answer(t, answer) == Put(t, [upload[t] EXCEPT !.answer = answer])

\* A call that is served, and whose answer the client then has or loses.
Reaches(t, answer) ==
    \/ Answer(t, answer) /\ UNCHANGED failures
    \/ failures < MaxFailures /\ failures' = failures + 1 /\ Answer(t, "lost")

ServeStatus(t) ==
    /\ Asked(t, "status")
    /\ IF Row(t).status = "pending"
       THEN Put(t, [upload[t] EXCEPT !.answer = "ok", !.received = Row(t).received])
       ELSE Answer(t, "refused")
    /\ UNCHANGED <<resume, session, made, begins, failures, shared, forgot>>

ServeCreate(t) ==
    /\ Asked(t, "create") /\ Len(session) < MaxSessions
    /\ session' = Append(session, [status |-> "pending", received |-> {}, stored |-> {},
                                   checksum |-> IF FileOf(t).hashed THEN {FileOf(t)} ELSE {}])
    /\ \/ Put(t, [upload[t] EXCEPT !.answer = "ok", !.id = Len(session) + 1]) /\ UNCHANGED failures
       \/ failures < MaxFailures /\ failures' = failures + 1 /\ Answer(t, "lost")
    /\ UNCHANGED <<resume, made, begins, shared, forgot>>

\* The chunk replaces the one on disk.
ServeChunk(t) ==
    /\ Asked(t, "chunk")
    /\ IF Row(t).status = "pending"
       THEN /\ session' = [session EXCEPT ![upload[t].id] = [Row(t) EXCEPT
                   !.received = @ \cup {upload[t].index},
                   !.stored = {c \in @ : c[1] /= upload[t].index} \cup {<<upload[t].index, FileOf(t)>>}]]
            /\ Reaches(t, "ok")
       ELSE Answer(t, "refused") /\ UNCHANGED <<session, failures>>
    /\ UNCHANGED <<resume, made, begins, shared, forgot>>

Consumable(t) == Row(t).status = "pending" /\ Row(t).received = ChunkIndex

\* The checksum is that of the whole file for which the session was made.
IsWhole(r) == \A f \in r.checksum : r.stored = {<<i, f>> : i \in ChunkIndex}

\* complete() of UploadSessionsController.
ServeComplete(t) ==
    /\ Asked(t, "complete")
    /\ IF Consumable(t)
       THEN /\ session' = [session EXCEPT ![upload[t].id] = [@ EXCEPT !.stored = {},
                   !.status = IF IsWhole(Row(t)) THEN "completed" ELSE "aborted"]]
            /\ made' = IF IsWhole(Row(t)) THEN made \cup {Row(t).stored} ELSE made
            /\ Reaches(t, IF IsWhole(Row(t)) THEN "ok" ELSE "refused")
       ELSE Answer(t, "refused") /\ UNCHANGED <<session, made, failures>>
    /\ UNCHANGED <<resume, begins, shared, forgot>>

\* create() of ScheduledUploadsController; its idempotency key is the session.
\* The stager deletes the chunks of a file that it refuses, and of one that it
\* cannot read, and the session stays pending.
ServeSchedule(t) ==
    /\ Asked(t, "schedule")
    /\ CASE Row(t).status = "staged" ->
              Reaches(t, "ok") /\ UNCHANGED <<session, made>>
         [] Consumable(t) ->
              LET whole == IsWhole(Row(t)) /\ Row(t).stored /= {}
              IN  /\ session' = [session EXCEPT ![upload[t].id] = [@ EXCEPT !.stored = {},
                                    !.status = IF whole THEN "staged" ELSE "pending"]]
                  /\ made' = IF whole THEN made \cup {Row(t).stored} ELSE made
                  /\ Reaches(t, IF whole THEN "ok" ELSE "refused")
         [] OTHER -> Answer(t, "refused") /\ UNCHANGED <<session, made, failures>>
    /\ UNCHANGED <<resume, begins, shared, forgot>>

\* A call that does not reach the server.
CallFails(t) ==
    /\ upload[t].step \in {"status", "create", "chunk", "complete", "schedule"}
    /\ upload[t].answer = "none" /\ failures < MaxFailures
    /\ failures' = failures + 1
    /\ Answer(t, "lost")
    /\ UNCHANGED <<resume, session, made, begins, shared, forgot>>

\* The session's time is up, which the next chunk or completion finds; what it
\* has stored no longer matters.
ExpireSession ==
    \E id \in DOMAIN session :
        /\ session[id].status = "pending"
        /\ session' = [session EXCEPT ![id].status = "aborted", ![id].stored = {}]
        /\ UNCHANGED <<upload, resume, made, begins, failures, shared, forgot>>

UploadNext ==
    \/ \E t \in UploadTabs :
          \/ \E scheduled \in BOOLEAN :
                \/ \E f \in Files : BeginUpload(t, f, scheduled)
                \/ RetryUpload(t, scheduled)
          \/ HearStatus(t) \/ HearCreate(t) \/ HearChunk(t) \/ HearConsumed(t) \/ Describe(t)
          \/ ServeStatus(t) \/ ServeCreate(t) \/ ServeChunk(t) \/ ServeComplete(t) \/ ServeSchedule(t)
          \/ CallFails(t) \/ LeavePage(t)
    \/ ExpireSession

UploadSpec == UploadInit /\ [][UploadNext]_uploadVars

-----------------------------------------------------------------------------
(* Properties                                                              *)

UploadTypeOK ==
    /\ upload \in [UploadTabs -> Uploads]
    /\ resume \in [{Fingerprint(f) : f \in Files} -> SessionIds]
    /\ session \in Seq(SessionRows) /\ Len(session) <= MaxSessions
    /\ \A id \in DOMAIN session : {c[1] : c \in session[id].stored} \subseteq session[id].received
    /\ \A c \in made : c \subseteq ChunkIndex \X Files
    /\ begins \in 0..MaxBegins /\ failures \in 0..MaxFailures

\* What an upload resumes is its own: the chunks of a record or a schedule are
\* those of one file, whichever tabs took turns on its session.  The exception
\* are files that agree in name, size and time and are too large to be hashed.
MadeOfOneFile ==
    \A chunks \in made : \A c, d \in chunks :
        c[2] = d[2] \/ (c[2].name = d[2].name /\ c[2].stamp = d[2].stamp /\ ~c[2].hashed)

\* A client that skips what the server has leaves nothing out: when its loop
\* is through, the session has every chunk or is no longer pending, so the
\* server never answers "Not all chunks have been received."
NothingIsLeftOut ==
    \A t \in UploadTabs :
        upload[t].step \in {"complete", "schedule"} /\ Row(t).status = "pending" =>
            Row(t).received = ChunkIndex

\* "Resumable across page reloads": a pending session that has chunks is the
\* one that the next upload of its file resumes, or a tab is at work on it,
\* unless two tabs shared the fingerprint or a status call failed.
InterruptedIsResumed ==
    ~shared /\ ~forgot =>
        \A id \in DOMAIN session : session[id].status = "pending" /\ session[id].received /= {} =>
            \E p \in DOMAIN resume : resume[p] = id

=============================================================================
