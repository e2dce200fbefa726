# Archive Suite: verification

TLA+ models of the state machines of Archive Suite, the configurations that
check them with TLC, and proofs about them that TLAPS checks. Paths are relative
to `src/`; `app/` alone is short for `archive-laravel/app/`, `lib/` and
`components/` for those of `archive-next/`.

## The system

Archive Suite keeps an archive of media records. A Laravel application
(`archive-laravel`) serves the API, runs queue workers (Horizon, redis) and
scheduled commands; a Next.js application (`archive-next`) is its client; the
scripts of the control center (`scripts/control-center*`) install, update and
roll back the whole. State lives in PostgreSQL, in redis (queues, locks), on
disks reached through Flysystem, in the browser (memory, cookies, localStorage)
and in the installation manifest. What makes it hard:

* on the server, HTTP requests, queue workers and scheduled commands read a row,
  work, and write it back, each statement on its own; messages are delivered at
  least once; disks and the database do not share transactions;
* in the browser, tabs share a cookie and localStorage, what is shown is ahead of
  or behind what the server has, answers are late or lost, and a page may be
  reloaded between any two steps;
* in an installation, containers boot, migrate and back up by themselves while a
  command works through its steps, each of which may fail, and the command may
  be killed.

| part | state it keeps | operations | works with | what makes it correct |
|---|---|---|---|---|
| Scheduled uploads (`Services/Uploads/ScheduledUploadState`, `Jobs/FinalizeScheduledUpload`, three commands, a controller) | `scheduled_uploads`, the staged file, queue messages, the overlap lock | create, reschedule, cancel, retry; dispatch, recover, sweep; finalize | upload sessions, records, media jobs | one record per schedule, settled rows stay settled, claims are never lost |
| Upload sessions (`UploadSessionsController`, `UploadStager`) | `upload_sessions`, chunk files | put a chunk, complete, abort, expire | scheduled uploads, records | one record per session, from exactly its chunks |
| Media jobs (`ProcessMediaWorkflow`, `MediaJobsController`) | `media_jobs`, queue messages, the overlap lock | create, cancel, retry; process, fail; prune | derivatives, exports, inspections | every job settles, what hangs on it settles with it |
| Derivatives (`MediaDerivativeService`, `IngestDerivativeService`) | `media_derivatives` | find or build, attach, ready, failed | media jobs, ingest, review links | one in progress is in somebody's hands |
| Montage (`Domain/Montage`) | projects, revisions, exports | save, restore, request an export, cancel, retry | media jobs, rights | no edit is lost, an export is of the revision asked for |
| Transcript versions (`TranscriptVersionService`) | `transcript_versions`, the record's mirror | save, lock, restore | records, search | a locked transcript changes only by an explicit unlock |
| Storage operations (`Services/Storage`) | `storage_operations`, items | preview, start, cancel, transfer | disks | one operation per key, a copy equals its source |
| Webhooks, Dropbox (`DeliverWebhook`, `Services/Dropbox`) | failure counter, cursor | deliver, retry, disable; import | queue, ingest | a dead hook is disabled, no entry is skipped |
| Approvals (`ApprovalRequestService`) | requests, decisions | submit, decide, execute | bulk macros | nothing runs that enough others did not approve, no quorum is missed |
| Reviews (`ReviewSessionService`, `ExternalReviewService`) | sessions, links, decisions, comments | transition, decide | derivatives | the last decision counts |
| Bulk macros (`BulkMacroService`) | macros, runs, results per target | apply, retry, roll back | records, trash | rolling back undoes what the run did, and no more |
| Records, freezes, trash, merge (`RecordsController`, `TrashController`, `RecordMergeController`) | `storage_rows`, `trash`, `record_freezes`, relations | upsert, delete, restore, purge, merge | everything | a record is live or in the trash, not both and not neither; a frozen one does not change |
| Edit claims, collaboration | claims, locks, versioned documents | claim, release, lock, update | records | no update is lost under a lock |
| Audit chain (`Models/AuditLog`) | hash-chained entries | append, prune, verify | every request | the chain of an untouched log verifies |
| Automation, ingest (`AutomationRuleRunner`, `Services/Ingest`) | rules, pending entries | run, scan, apply | records, media jobs | one record per file, rules keep later edits |
| Backup and restore (`Services/Backup`) | archives, checks | run, verify, restore, rotate | database, disks | what is restored was verified |
| Release lifecycle (`scripts/control-center`) | the manifest, containers, schema, backups | install, repair, update, roll back, uninstall, start, stop | compose, artisan | what is reported runs, what serves is migrated, a rollback loses no more than it must |
| Offline queue (`lib/offline-*.ts`, `lib/connectivity-probe.ts`) | queued mutations, connectivity, the replay | queue, clear, probe, replay, reload | the API | nothing is lost in silence, nothing accepted is sent again |
| Montage editor (`lib/montage-editor.ts`, `components/montage`) | clips, undo history, the revision it is at | edit, undo, redo, save, import | montage projects | clips stay valid, nobody's revision is overwritten unseen |
| Sign-in session (`lib/auth-session.tsx`, `lib/archive-api.ts`, `AuthController`) | access tokens per tab, the refresh cookie, `api_sessions` | load, refresh, rotate, retry | every request | tabs that refresh together do not sign each other out |
| Capability settings (`lib/experience-profile-context.tsx`, `CapabilitySettingsService`) | rows with versions, the screen, the cache | load, switch, take back | all pages | nobody overwrites what they have not seen |
| Schedule times (`lib/scheduled-upload.ts`) | a wall-clock reading and its zone | type, submit, reschedule | scheduled uploads | the instant sent is the one that was read |
| Search page (`app/search/page.tsx`) | the results, the form, the page number, the address | search, choose, turn the page, reset, open an address | search API | the results shown are those of the last search |
| Upload client (`lib/chunked-upload.ts`, `app/uploads/UploadForm.tsx`) | the upload, the resume map | begin, resume, retry, leave | upload sessions | an interrupted upload resumes, and is of one file |

The other parts (rights, vocabulary, search, transcription tools, AI assistants,
reports, the ODBC gateway, and most of the web client's pages) keep no protocol
of their own, or run outside the program; `PROJECT.json` lists each with the
reason it is left out. The API's clients are in every model of the server: they
may call any endpoint at any time.

## Modules

| module | what it is |
|---|---|
| `ScheduledUploads` | the scheduled-upload pipeline, one action per statement, queue call or storage call |
| `UploadLifecycle` | what the pipeline promises of one row: its life from creation to deletion |
| `RowSnapshots` | the abstract optimistic update: who still holds a current copy of a row |
| `VersionedRow` | the update of `ScheduledUploadState::transition`, with the version column |
| `UploadSessions` | one chunked-upload session and the requests that race over it, up to the record or the schedule it becomes |
| `ApprovalRequests` | one request for approval, its decisions and its execution, against the macro's edits |
| `MediaJobs` | the derivatives of one cache key, the jobs that make them, and their deliveries |
| `ReleaseLifecycle` | the commands of the control center, one action per effect, against containers, schema and backups |
| `InstallationManifest` | the manifest and the functions that change it |
| `ReleaseRecord` | what the manifest promises of the adopted release |
| `OfflineQueue` | the offline queue of one tab: queue, probe, replay, reloads |
| `MontageTimeline` | the clips of a montage and the reducer behind the editing keys |
| `MontageSession` | several people's panels on one project: histories, saves, revisions |
| `AuthSession` | the tabs of a browser, their refreshes and the rotating session |
| `CapabilitySettings` | administrators' switches: optimistic screen, cache, compare and write |
| `ScheduleTime` | readings, zones and instants of the schedule dialogs |
| `UploadClient` | chunked uploads of a browser's tabs and their resume map |
| `SearchPage` | the search page: searches answered out of order, the form and the address |
| `ScheduledUploadsProofs`, `UploadSessionsProofs`, `ReleaseLifecycleProofs`, `UploadClientProofs` | theorems and proofs about the module of that name |
| `ServerProofs` | those about `VersionedRow`, `ApprovalRequests` and `MediaJobs`, and about the server's parts together |
| `MontageProofs`, `BrowserProofs` | those about the two montage modules, and about `AuthSession`, `CapabilitySettings`, `OfflineQueue`, `ScheduleTime` and `SearchPage` |
| `WebClientProofs` | what the web client's parts promise together |
| `MCScheduledUploads`, `MCUploadSessions`, `MCMediaJobs`, `MCQueueFaults`, `MCServer`, `MCReleaseLifecycle`, `MCScheduleTime`, `MCWebClient` | instances for TLC |

### Scheduled uploads

`create()` stages an artifact in quarantine and inserts a row with status
*scheduled*. Every minute `uploads:dispatch-scheduled` reads the due rows, claims
each and pushes a `FinalizeScheduledUpload` message. A worker takes the message,
takes the overlap lock of the schedule, moves the row to *processing*, checks
artifact and creator, moves the file, inserts the record and completes the row.
`uploads:recover-scheduled` returns claims whose lease has run out, and
`uploads:cleanup-scheduled` deletes old cancelled and failed rows. The owner
reschedules, cancels and retries.

State and code:

* `status, lease, due, failure, aged, recordId` are columns of `scheduled_uploads`;
  times are reduced to whether they have passed, and `BecomeDue`, `LeaseExpires`
  and `RetentionPasses` let them.
* `fresh[s]` is the set of actors whose copy of row `s` carries its current
  `version`. `Transition` is the guarded `UPDATE`: it needs a current copy, the
  status and a legal step, and turns every other copy stale. `Conflict` is the
  update that matches no row. `VersionedRow` has the version number itself, and
  implements `RowSnapshots`, whose guard is this one.
* `staged, stored, records` are the quarantine file, the servable file and the
  number of committed records.
* `queue[s][a]` counts the waiting messages of `s` that have been attempted `a`
  times; `owned[w]` says whether worker `w` still owns the message it runs, which
  `Redeliver` takes away when `retry_after` (90 s) passes. `Pop` counts the
  attempt, `PopExhausted` fails a message beyond its tries. `overlap` is the
  `WithoutOverlapping` lock; the code sets no expiry, so a killed worker leaves
  it `"leaked"`.
* `pc, job, try, verdict` are a worker's place in `handle()` and `failed()`;
  `dpc, dtodo, dcur` a dispatcher's place in its loop; `watch`, `sweep` and
  `swept` what the watchdog and the sweep have read and not yet handled; `cop,
  cjob` a client between its read and its write.
* Failures are actions: `PushFails`, `HandleThrows`, `Rollback`, `MoveUnnoticed`
  (the disks have `'throw' => false` and the result of `move()` is dropped),
  `ArtifactFault`, `Crash` and `CrashDispatcher`.

One worker step stands for the code between two points where others can
interfere. The finalizer's transaction is the exception: its inserts and its
update become visible at the commit, so `Commit` is one action, while the file
move before it is an action of its own that a rollback does not undo.

External parts, modelled from their use: the queue (`Pop`, `PopExhausted`,
`Redeliver`, `Waiting`), the lock's release (`Unlock`) and killed processes.

Left out: validation, presentation and listing; the batch size (a batch takes
every candidate, the code at most 100); the media job queued by the finalizer,
which is `QueueBaseline` of `MediaJobs`; the staging of chunks, which is one step
here (`Create`) and spelled out in `UploadSessions`. The watchdog and
the sweep are one actor each, for the code schedules them with
`withoutOverlapping()`; two dispatchers are modelled although it is too, because
a run that outlives that mutex, or one started by hand, meets another.

### Upload sessions

A client creates a session, uploads chunks in any order and in parallel, asks
which have arrived after an interruption, and then completes the session (a
record) or schedules it (a scheduled upload). Any request may be repeated while
its first call still runs: the web client resumes and completes again whenever a
call failed for it (`src/archive-next/lib/chunked-upload.ts`).

State and code:

* `status, received, expired, checked` are columns of `upload_sessions` (`checked`:
  the client gave a checksum, which it omits above 200 MB). `lock` is the request
  that holds the row's `FOR UPDATE` lock; `RowIsFree` makes the other writes wait,
  as PostgreSQL does. Reads take no lock.
* A file is the set of chunks whose bytes it holds: `chunks` is the directory,
  `quarantine` the assembled file, whose path completion and staging share,
  `served` the file a record points to. A checksum is the file it was computed from.
* `records` and `schedules` are the outcomes, each with the checksum it stores.
* `pc, op, at, part, then` are a request's place in its handler: `UploadChunk` to
  `RecordChunk`; `Complete`, the assembly chunk by chunk, `SniffAccepts`,
  `MoveToServed`, `InsertRecord`, the purge file by file and `MarkSession`;
  `Schedule`, `LockSession`, the same assembly, `StageVerified`, `CommitSchedule`;
  `Destroy` and `RemoveSession`; and `FindExpired` with `AbortExpired`.
* Completion and staging read a missing chunk differently: the controller takes it
  for nothing, `UploadStager` has `strict_types` and throws (`Readable`).
* `spoiled` is a history variable: two consumers (a completion, a staging that has
  the lock, an abort) have overlapped, or one was killed, failed to commit or was
  refused by the stager. `acked` is what clients have been told.
* `Crash`, `CommitFails`, `PutUnnoticed`, `StoreUnnoticed` and `MoveUnnoticed` are the
  failures, `faults` counts them. The last three are `put()` and `move()` on disks
  with `'throw' => false`: they return a false that nobody reads, and the handler goes
  on. `unwritten` and `misplaced` are history variables: the chunks whose write failed
  so, and whether the assembled file did not reach the servable directory.

Left out: files written in part, deletions that fail unnoticed, GET, the target folder, the free-space check, and the jobs a new record
queues. The content check is a verdict on the first chunk, any verdict if that is
missing. Chunk bytes never differ between repetitions of an upload.

### Approval requests

A macro that policy guards is submitted, decided on by people and executed.
`requestStatus, approvedVersion` are the request's columns, `decisions` each
person's row (one per person, by a unique key), `macro` the version, content and
existence of the macro, a content being the number of the edit that saved it.
`approvedEdit` and `runs` are history variables: the content that the request was
made of, and the contents that have run for it. `call` is the
place of each server process between a read and a write: `OpenDecision`,
`RecordDecision`, `CountApprovals`, `SaveStatus`; `OpenExecution`, `FindMacro`,
`Run`, `SaveStatus`; `OpenMacro`, then `Submit` or `UpdateMacro`. No statement
has a guard, so a step is one statement. `Die` kills a process anywhere. The
policies themselves, listing, and what a run does to its records are left out.

### Media jobs

All derivative rows are of one cache key. `record` says whether the key's record
is there, is being ingested by an open transaction, or has an attachment that the
key names, which makes it unique. `jobStatus, makes, derivative` are the rows;
`caller` is the place of a request or a finalizer: `FindOrBuild`, `InsertJob`,
`AttachJob`, `Dispatch` for a request, `OpenRetry` for the retry of a failed job,
`OpenCancel` and `SaveCancel`, `QueueBaseline` and `CommitBaseline` for an ingest,
whose message is on the queue before its rows are committed (`after_commit` is
false). `messages, holder, worker` are the queue and the workers as in
`ScheduledUploads`: `OfferAgain` is `retry_after`, `WorkerDies` a kill, which
leaks the lock. A worker goes through `FindJob`, `BeginJob`, the work, then
`CompleteJob` and `MarkReady`, or `StopCanceled` or `WorkThrows`; `FailedFinds`,
`MarkJobFailed` and `MarkDerivativeFailed` are `failed()`. `givenUp` is a history
variable: a delivery did not find the row, or a process died between two writes
that only it would make. Rows are written by `save()`, which names the key alone.

Left out: what the tools make, jobs of other operations (they have no derivative,
and otherwise the same steps), the rows of exports, progress notices, pruning.

### Releases

The control center installs and repairs (compose, or a list of native steps),
updates in seven steps, rolls back in four, and uninstalls. `op, phase, at` are
the command's place; each step has its effect, then `Record` writes it to the
manifest; a step may fail half-way (`PartlyUp`, `PartlyDown`), and `Kill` ends
the command before any effect. `running, fpm, ready` are what compose has made of
the containers: `Boot` migrates (`MigrateSafe`) before it serves, `NightlyBackup`
and `Cleanup` go on meanwhile, `NewRelease` changes the descriptor in the
checkout. `InstallationManifest` has the manifest's functions, of which
`ResumeIndex` decides where a repair goes on. `told` is what the command
reported, `own` when the last update took its backup, `restored` which backup the
last rollback restored, `applied` which native steps have ever run.

Left out: local sources, the reconnection of data volumes, the offline bundle,
the maintenance mode after a failed migration, a partial deletion of volumes, and
what a native step does. A release's migrations are one step of `schema`: one that
fails leaves the backup taken before it (`MigrateFails`), and ends the container that
boots.

### The web client

The parts share no state but the browser, and each is a module of its own.

* `OfflineQueue`. `queued, stored` are the queue in memory and in localStorage, as
  sets of mutations whose ids tell their order; `replay` is the batch that is being sent. `Enqueue` has no caller in the
  application yet: it is the use the module is written for. A step is what runs
  between two awaits; the fetch under way answers in `Succeeds` or `Fails`.
* `MontageTimeline`. `clips` is the timeline in whole frames, as `snapToFrame`
  makes them; an action is a key or a button with the part of the reducer it
  reaches.
* `MontageSession`. `panel` is a person's editor state, `asked` the request under
  way, `revisions` the project's list. A timeline is the number of the edit that
  made it. `Serve` is the check of `expectedRevision` with the insert: of two
  transactions that pass the check one fails on the unique revision number.
  `seen` is a history variable, the revision the page was loaded from.
* `AuthSession`. The tokens of one rotation are one number. `Refresh` is the server's
  read, unlocked, with its three cases: the session of a current token will be
  rotated, a token rotated away from a moment ago gets a session of its own, any other
  is refused. `Rotate` is the `UPDATE` that follows a read of the first kind, by id and
  without a guard: `updates` are those still to run, and `erased` (history) the tokens
  that one has overwritten in a session changed since it was read. The answer sets the
  cookie when it arrives (`HearRefresh`). `disturbed` says that an answer was lost. The
  second case is one step with its insert: the insert adds a row of its own, and the
  grace that was read may run out before it without changing what it does.
* `CapabilitySettings`. `screen, cache, load, write` are a tab's; a switch goes
  through `Switch`, `CheckVersion`, `StoreValue`, `ReadAnswer` and `HearWrite`,
  with a failure or a reload anywhere. A value is the number of the write that
  made it. `told, replaced, raced` are history variables.
* `ScheduleTime`. Instants and readings are whole minutes; a zone is an offset
  before and after one change. `Resolved` and `Verdict` are the two functions.
* `UploadClient`. `upload` is a tab's place in `stageUploadSession` and its
  callers, `resume` the map in localStorage, `session` the rows at the server, one
  step per call: what overlapping requests do to one session is the subject of
  `UploadSessions`. `made` is what records and schedules were made of.
* `SearchPage`. `searches` are the calls of `search()` that wait, each for its
  results or for the descriptions that follow, with the number it took from
  `searchRequestId`; an answer is applied only to the latest. `searchForm,
  currentPage, address` are what the user sees and shares; `Mount` restores a
  search from the address or from preferences, in two effects; when the search context
  is not recorded the session is blanked, and the mount is one search and an empty form.

## Runs

Every run has `CHECK_DEADLOCK FALSE`: an archive with no pending work stands still.

| run | instance | shows |
|---|---|---|
| `sched_client` | 1 row, a client, 2 workers, 1 try, redelivery, short leases, 1 fault | `AtMostOneRecord`; `OneFinalizer`; `SettledIsFinal`; `ImplementsLifecycle` |
| `sched_dispatch` | 2 rows, 2 dispatchers, client, 2 workers, sweep, no faults | `OneDelivery`; `CompletedHasFile`; `DueIsSettled` |
| `queue_faults` | uploads: client, 2 workers, 2 tries, 1 fault; media: 2 jobs, 1 caller, 2 workers, 2 tries, 1 kill or offer | `ClaimsMoveOn`; `ProcessingEnds`; `JobsSettle` |
| `server` | sessions: 2 requests at a time, 2 chunks, 2 keys, 1 fault, content that is refused only with a checksum; row: 3 actors, 6 versions; approval: 3 calls, 4 people, 2 approvals, with 1 edit and 1 kill, or with 2 edits and 2 people who agree; media: 2 jobs, 2 callers, 2 workers, 2 tries, with 1 derivative and 1 kill or offer, or with 2 derivatives | `AckedKept`; `OneStaging`; `ScheduleIsWhole`; `RecordIsWhole`; `ResumeIsSound`; `SerialConsumersAreSound`; `ImplementsSnapshots`; `ApprovedByOthers`; `NoDecisionIsMissed`; `InHands` |
| `release_lifecycle` | 3 releases, 3 backups, 2 faults, 4 native steps | `ReportedReleaseRuns`; `ReadyIsMigrated`; `RollbackLosesNoMore`; `NativeProgress`; `ImplementsRecord` |
| `web_client` | each part with two tabs or people | `WebTypeOK`; `NothingLostInSilence`, `AcceptedIsGone`; `ClipsAreValid`, `SplitKeepsProgramme`, `AddCoversNothing`; `HistoryIsALine`, `OthersWorkIsKept`; `CookieStaysAlive`; `OverwritesTheKnown`; `VerdictIsRight`; `MadeOfOneFile`, `NothingIsLeftOut`, `InterruptedIsResumed`; `ScreenFollowsSearch` |

A behaviour of `web_client`, `server` or `queue_faults` is one of the part that its
`page` or `about` names, with the others at rest: they share no state, so that
nothing is gained by interleaving them. At rest no step is enabled that fairness
asks for.

The properties:

* `AtMostOneRecord`: whatever is redelivered, recovered, crashed or retried, a
  schedule makes at most one record, and a completed row names it.
* `OneFinalizer`: two workers are never inside one schedule's artifact.
* `SettledIsFinal`: no stale retry, release, recovery or late worker revives a
  completed or cancelled row.
* `ImplementsLifecycle`: each step of the six kinds of actor is a step in the life
  `UploadLifecycle` gives a row, or none. It forbids, for instance, a claim that
  skips *scheduled* or a record of a row that was not in *processing*.
* `CompletedHasFile`: the record's file is where it says. It needs the absence of
  faults: see the findings.
* `OneDelivery`: without faults, and with leases longer than the queue, racing
  dispatchers put one delivery of a schedule under way, not two.
* `DueIsSettled`, `ClaimsMoveOn`, `ProcessingEnds`: liveness of the pipeline
  without faults, of claims and of work with one fault.
* `AckedKept`: the list of received chunks never loses an update.
* `OneStaging`: a session becomes at most one schedule, whatever the keys.
* `ScheduleIsWhole`, `RecordIsWhole`: checksums stored are of the whole file (for a
  record, if the client gave one), although chunks vanish while they are read.
* `ResumeIsSound`, `SerialConsumersAreSound`: as long as consumers come one after
  another, a pending session has every chunk it lists, and it ends in one outcome
  whose file is whole and in place. What failed unnoticed is all that may be missing:
  a chunk that was not written, and from the servable directory a file that was not
  moved, which is then in quarantine. `session_outcomes` shows one outcome to be too
  much to ask of consumers that overlap.
* `ImplementsSnapshots`: the version column grants a write to the current copies.
* `ApprovedByOthers`: a request is approved, and its macro run, only after enough
  people other than the requester have approved, and what runs is the content they were
  asked about, unless two updates have saved one version number (a divergence).
* `NoDecisionIsMissed`: approvals that come together are both counted by the later.
* `InHands`: a derivative in progress is carried by a message or a worker, through
  requests, retries and deliveries that overlap. It excepts what the code gives up.
* `JobsSettle`: liveness of a dispatched job, through one kill or one second offer.

* `ReportedReleaseRuns`: after a switch that gave up half-way, a restored release is
  the only one with containers, and the manifest names it.
* `ReadyIsMigrated`: an update migrates with the code of the container it
  replaces; it is the boot that migrates for the new one before it serves.
* `RollbackLosesNoMore`: a rollback restores nothing older than the update's backup.
* `NativeProgress`: a repair that resumes after the recorded step skips nothing that
  never ran.
* `ImplementsRecord`: the adopted release moves only to one that alone has
  containers and answers, and an update is undone once.
* `NothingLostInSilence`, `AcceptedIsGone`: a mutation queued during a replay, skipped
  by it or left by a closed tab stays; an accepted one is not sent again.
* `ClipsAreValid`, `SplitKeepsProgramme`, `AddCoversNothing`: a clip never becomes
  empty or starts before zero, although a ripple trim compares places on the
  timeline with places in the source; a split is unseen; an added clip covers none.
* `HistoryIsALine`: undo and redo walk one line of timelines in the order they were made.
* `OthersWorkIsKept`: another person's revision is followed only by one whose page was
  loaded at or after it, through lost answers and edits under a save.
* `CookieStaysAlive`: in whatever order racing refreshes read and update the session
  and their answers set the cookie, the server accepts it, unless an answer was lost or
  an overlapping update has overwritten it: `auth_race` shows that this happens.
* `OverwritesTheKnown`: a write replaces what its tab had been told of, through
  optimistic values, taken-back switches, late loads and a page painted from the cache.
* `VerdictIsRight`: near a change of the clocks, an accepted reading is the one the
  clocks show, and a refused one they never show.
* `MadeOfOneFile`, `NothingIsLeftOut`, `InterruptedIsResumed`: a resumed upload skips what
  the server has and nothing else, and is found again after a reload.
* `ScreenFollowsSearch`: whatever the order of answers, the results shown are those of
  the last search, and a page that loads waits for an answer that will be applied.

Bounds. One row suffices where actors interfere only through a row: rows share
nothing but the dispatcher's batch and the ceiling, which `sched_dispatch` checks
with two. Two workers give every pair of overlapping deliveries, and a duplicate
claim gives the second message. `QueueBound` (one or two messages waiting per
row) limits only how many wait at once; a push blocks meanwhile. `Tries` is 5 in
the code: one or two reach the first try, a retry and the exhaustion. `MaxFaults`
is one, anywhere; the proofs have no bound on any of these. A session interferes
with no other; a request's place is one of two processes that may start again
any number of times, so sequences are unbounded and overlaps are of two. Two chunks
make a file half deleted and half read. Three calls are two decisions and a third
that executes, edits or decides against them; three people besides the requester
give a quorum and a dissenter. Two media jobs are a failed one and its retry, or
those of two requests; two derivative rows are what two requests for one key
insert. `MaxDisturbances` is one kill or one second offer, anywhere.

Three releases give an update, a second one and a rollback between
them; two faults are a failed step and a failed or killed remedy; three backups
are the update's, the migration's and a nightly one. In the web client two tabs or
people race; three mutations on two endpoints give an older, a skipped and a late
one; a history of one timeline is full at once (50 in the code); clips start up to
frame 5 with sources of 3 frames, so that every order of two clips and three parts
occurs; zones change their offset by up to four minutes either way within eight;
two chunks, two sessions and two failures interrupt an upload, resume it and
interrupt it again. `MaxTokens`, `MaxLoads`, `MaxWrites`, `MaxFetches`,
`MaxEdits`, `MaxRevisions` and `MaxOpens` only end a behaviour.

Fairness (`FairSpec`). The scheduler starts its commands every one and five
minutes and the supervisor keeps workers polling: weak fairness of each
dispatcher, of the watchdog and of each worker's own steps, of media workers too,
whose tools have a timeout. Time passes: weak
fairness of `BecomeDue` and `LeaseExpires`. Nothing is assumed of clients, of the
retention sweep, of faults or of redelivery.

### Findings

Each is a run TLC must find violated.

* `sched_lost_artifact`: the file is moved inside the database transaction; when
  the transaction rolls back, the next try finds no artifact and fails the
  upload for good as *artifact_missing*.
* `session_outcomes`: a completion that is repeated while the first still works
  makes a second record of one session.
* `media_stale_failed`: a message offered again while the tool runs bounces off the
  overlap lock until its tries are gone, so a job is marked as failed that then
  completes.
* `auth_transient`: the codes on which a page tries a refresh again are not the
  codes that the server and the client use, so a throttled refresh, or one that
  lost the race, makes a guest of a user whose cookie is good.
* `profile_cache`: the cache is written from the optimistic screen, so a reload
  shows a switch that the server never accepted.
* `auth_race`: two refreshes that both read the session before either wrote it rotate it
  twice, and the second update keeps no trace of the first one's token. If that token's
  answer comes last, both tabs are left with a cookie that the server refuses, although
  no answer was lost and the old token was kept "so a racing sibling request can still
  recover".

### Known divergences

Seen while modelling, and part of the models or named as an exception of a
property, without a run of their own:

* The retention sweep reads old rows and deletes each by id alone
  (`app/Console/Commands/CleanupScheduledUploads.php:45`): a row its owner retries in
  between is deleted with them, although the comment at :13-16 speaks of settled rows.
* The overlap lock has no expiry (`app/Jobs/FinalizeScheduledUpload.php:63`): after a
  worker is killed inside, the upload is claimed, released and recovered for ever,
  against `RecoverScheduledUploads.php:13-18`. `DueIsSettled` is checked without crashes.
* A move that fails without throwing completes a schedule whose file is nowhere
  (`MoveUnnoticed`): `CompletedHasFile` is checked without faults. An artifact that
  cannot be opened is taken for one that differs (`Unlike`,
  `FinalizeScheduledUpload.php:181-183`) and refused for good.
* A chunk whose write fails without throwing is listed and acknowledged all the same
  (`UploadSessionsController.php:115`): a completion without a checksum makes a record of
  a file with a hole, and the stager throws until the chunk is uploaded again. An
  assembled file that is not written, or not moved, leaves a record whose file is an
  older attempt's or nowhere (`:233`, `UploadFinalizer.php:59`).
* The reschedule dialog shows the first 16 characters of a time in UTC
  (`ScheduledUploadsClient.tsx:121`) and reads them in the schedule's zone (:126): saved as
  it was opened it moves the upload by the zone's offset.
* A duplicate message that only met the overlap lock uses up its tries, and its
  `failed()` fails a row another worker is finalizing. A second crash, between the
  last try's deletion of its message and `failed()`, leaves a row in *processing*
  that nothing looks at again: `queue_faults` has one fault.
* When staging refuses a file its chunks are gone and the session stays pending with
  all of them listed (`ScheduledUploadsController.php:102`, against
  `UploadSessionsController.php:20-24`). `ResumeIsSound` makes an exception of it.
* The montage page starts from an empty timeline when the project answers and its
  revision does not (`app/media/montage/[id]/page.tsx:47-60`), at the project's
  revision, so that a save replaces it. `OthersWorkIsKept` counts it as loaded.
* An imported EDL moves the panel to the new revision and leaves its timeline
  (`components/montage/MontageEditorPanel.tsx:232-234`): the next save undoes the import.
* A rollback restores the newest backup, which may be younger than the update
  (`scripts/control-center.mjs:551-561`): it loses no more than promised, and may
  restore data that the old code does not know.
* A repair after a failed preflight finds every step recorded and reports success
  without starting anything (`scripts/control-center/runtime-adapter.mjs:38-41`).
* A replay skips an older mutation of an endpoint, which stays queued and is sent by
  the next replay, over the newer one (`lib/offline-manager.ts:101-104,130-135`).
* The capability service reads the version without a lock
  (`app/Services/Settings/CapabilitySettingsService.php:56-70`): two transactions that
  overlap both succeed. `OverwritesTheKnown` makes an exception of them.
* When describing a new record fails, the file counts as failed, and a retry uploads
  it again as a second record (`app/uploads/UploadForm.tsx:372-380`).

* An approver who has counted saves *approved* over a rejection saved meanwhile
  (`ApprovalRequestService.php:107-126`, against the comment at :108-109). Two executions
  may both run the macro, and a late approval's save takes an executed request back to
  *approved*. Two concurrent edits of a macro save one version number, which the check
  for a stale approval cannot tell apart. A process that dies between its decision and
  its save leaves the request pending: the person cannot decide again.
* The baseline's message is queued inside the finalizer's transaction
  (`Services/Media/IngestDerivativeService.php:66`): a worker that is faster than the
  commit finds no row and drops the message, and job and derivative wait for ever,
  against `MediaDerivativeService.php:66-72`. `InHands` and `JobsSettle` except it.
* Cancelling a queued job leaves its derivative in *processing*: the worker that finds
  the job canceled returns early (`ProcessMediaWorkflow.php:114`). A cancellation may
  also be saved over *completed* or *failed*, and *completed* over a cancellation.
* Of two first requests for one attachment's derivative, the second fails on the unique
  key after it has inserted its job, which stays queued and is never dispatched.
* A retried export is a new row that nothing queues (`MontageExportsController.php:151,179`).
* A transcript's lock is checked before the transaction that writes
  (`Services/Media/TranscriptVersionService.php:92`), so a lock set in between does not hold.
* The Dropbox cursor is saved before the entries it covers are handed on
  (`Services/Dropbox/DropboxSyncService.php:22`): a crash in between loses them.
* Two appends to the audit log at once read one newest hash (`Models/AuditLog.php:37`), and
  the chain of a log that nobody altered is reported as broken.
* Resetting the search does not advance the request counter
  (`app/search/page.tsx:467-485`): a search under way puts its results back, against the
  comment at :223-224. Restored date filters are in the form and not in that first search.

## Proofs

Every safety invariant and every action property of a passing run is a theorem, for
all values of the constants: any sets of schedules, requests, workers, tabs, people,
files, switches and releases, and any number of messages, tries and faults. The
assumptions are those the modules name, which TLC evaluates in every run: bounds are
numbers, there is at least one try, chunk, release and native step, kinds of actor
are disjoint, and values such as `None`, `Nothing` and `"none"` are distinct from
what they stand in for. Those that say something of the code: native steps have
different names (`StepsAssumption`), a guarded approval needs more than one approver
(`ApprovalAssumption`, `RequiredApprovals`), and whether a file is hashed follows from
its size, which is in its fingerprint (`UploadAssumption`).

A property is seldom inductive. Each section below names the inductive invariant and
why it is needed. A step lemma has one case per action, and under it one per part
that the action can disturb.

### `ScheduledUploadsProofs`

* `TypeCorrect`: `TypeOK`, which is inductive as it stands. It includes that a
  process under way has a schedule, a refusing worker a verdict and an owned
  message a busy worker, without which steps would index outside the rows.
* `LifecycleImplemented`: `Spec => ImplementsLifecycle`. A step maps to a step of
  `UploadLifecycle` only if a stale actor cannot write, and only if the row it
  writes exists. The invariant is therefore `TypeOK` with `Live` (no actor holds
  a current copy of a row that does not exist) and `SweptExist` (the sweep's rows
  have been inserted). The proof has one step per action that writes a row; all
  others are shown to leave the abstract variables alone by one lemma.
* `OneRecord`, `ClaimsAreLeased` and `SettledStaysSettled`: `AtMostOneRecord`,
  `ClaimHasLease` (a claim without a lease would be lost to the watchdog) and
  `SettledIsFinal` are proved on the abstract steps and so of the pipeline.
* `FinalizersExclude`: `OneFinalizer`, from `LockHeld` (a finalizing worker's
  name is in its schedule's lock), which each action preserves.
* `CompletedIsStored`: as long as no fault has happened, `CompletedHasFile`, from
  `FileMoved` (the file of a worker that is about to commit is where the record
  will say) and `Inserted` (a worker that has read a row works on one that exists).
* `DeliveredOnce`: `OneDelivery`, which carries its own premise of no faults, no
  redelivery and leases longer than the queue. `CarriedOnce`: a row is carried by at
  most one push, message or worker, and by none while it may be claimed, now or
  after a recovery or a retry. `DispatchersPush`: a dispatcher has a row only to push
  it; `TakenBack`: a current copy of the watchdog or of a client that retries is of a
  row that nothing carries any more.

### `UploadSessionsProofs`

`TypeCorrect`, `ChunksAreKept`, `StagedOnce`, `SchedulesAreWhole`, `RecordsAreWhole`,
`ResumesSoundly` and `ConsumedOnce`. `IInv` adds, in this order,
`Shape` (which operation may stand at which step), `Locking` (the lock belongs to
the one request whose transaction is open), `Reading` (while a request holds the
lock its copy of the list is the list, and what the stager has read is every chunk
so far), `Staging` (a session being staged is pending, one that has been staged
is not) and `Serial`: until it is spoiled a session has one consumer, and at each
of the consumer's steps the chunks, the quarantine file and the outcomes are what
an undisturbed consumer relies on (`ServesAlone`), while nobody is deleting chunks
of a pending session all that the row lists, but those whose write failed unnoticed, are
on disk (`OnDisk`). A store or a move that failed unnoticed changes only where, and with
which chunks, these steps have left the file. Each part is
preserved with the help of those before it.

### `ServerProofs`

* `VersionedRow`: `VersionImplementsSnapshots`, from the invariant that no copy is
  ahead of its row and that a current copy has its row's status.
* `ApprovalRequests`: `ApprovalTypes`, `OthersApprove` and `DecisionsCount`. The
  status says nothing of the calls that are about to change it, so the invariant
  adds `NotBefore` (nothing is decided of a request that is not submitted),
  `OthersDecide` (a call that decides is not the requester's) and `QuorumSeen` (a
  call that is about to save *approved*, or to execute, has a quorum behind it).
  What runs needs versions and contents to be told apart: `EditsInv` says that until two
  updates save one version number, a version is one more than the number of the edit that
  saved it, for the request and every call that will use both (`EditsSeen`), and that no
  call expects a later one (`VersionsBehind`).
  `NotMissed` says that a pending request with a quorum or a rejection has a call
  that has yet to count or to save: of two approvals the one that counts later
  sees both.
* `MediaJobs`: `MediaTypesHold` and `DerivativesInHands`. `InHands` asks only for
  a message or a worker, which a step may use up: `Answered` says that a derivative
  in progress has a job that answers for it, by being canceled or given up (the
  divergences), by a worker that is about to write the derivative, or by a message
  or a worker that still pursues a job that is not completed. `CallersInv` says
  that a request between its first write and its last holds a job that is on no
  message yet and that only a cancellation can be at, so that what it dispatches
  cannot be somebody else's; `WorkersInv` and `RowsInv` that a worker past its read
  has a row.
* `ServerIsSound`: a behaviour of `MCServer` is one of every part
  (`ServerPartsAreRun`), so it has the properties of each.

### `ReleaseLifecycleProofs`

`TypeCorrect`, `ReportsAreTrue`, `ServesMigrated`, `LossIsBounded` and
`NothingIsSkipped`. `IInv` adds `Shape` (which phase and step each command can be at),
`Adoption` (an update or a rollback remembers where it came from, and goes elsewhere),
`Hosting` (once the target has been switched to it alone has containers, and it is
ready once probed, until the command completes or gives up), `Saving` (the newest
backup is never cleaned up, and what a rollback has restored is no older than the
update's own) and `Installing` (the native steps before the one under way have run).
`RecordIsImplemented` is the refinement `Spec => ImplementsRecord`: every action
either leaves what the manifest adopts alone (`AdoptionKept`) or is one of the few
that move it (`Moves`), and of those the invariant shows that the release adopted
runs alone and is ready.

### `BrowserProofs`

* `AuthSession`: `AuthTypesHold` and `CookieLives`. A cookie is unusable for a while
  after each rotation, so `AuthInv` says what replaces it: until an answer is lost, a
  cookie that is set is current in a session, in the grace of one whose new token is on
  its way, or erased (`Kept`); a token that a pending update will write is numbered,
  belongs to one call that waits for it and is in no session yet (`FreshUpdates`,
  `WaitedFor`), and no tab has it before it was answered (`Secret`), so that no other tab
  rotates it away first.
* `CapabilitySettings`: `CapabilityTypes` needs a count: a version stays in its type
  because every write that has yet to add one has a switch of its own left
  (`CountOK`). `KnownOverwritten`, from `Knowledge`: what a tab shows, caches or
  would fall back to it was told of (`Painted`), so what a write expects was told
  (`SentWhatItKnew`); and without overlapping transactions whatever was told has been
  the setting, and is the setting if it has its version (`Truthful`).
* `OfflineQueue`: `OfflineTypesHold`, `KeptUntilAnswered` and `AcceptedLeaves`.
  `OfflineInv` relates the queue to the replay: what the replay has still to send has
  retries left in the queue too and was not accepted, and what it has sent was
  accepted or is among its failures, which it will report before it removes them.
* `ScheduleTime`: `ScheduleTypes` and `VerdictsAreRight`, for every set of zones that
  change their offset once: `ShownIsFound` says that a reading the clocks show is
  resolved to an instant at which they show it, by cases on the side of the change
  on which the reading and the guess lie.
* `SearchPage`: `SearchTypesHold` and `ScreenFollows`, from `LatestIsSearchedFor`: a
  waiting call that holds the latest number is for the query searched for last.

### `MontageProofs`

* `MontageTimeline`: `ClipsStayValid`, `SplitIsUnseen` and `AddsCoverNothing`. The end
  of a track is a maximum, which exists only in a finite set: `TimelineInv` adds that
  each part of the clips has a last end, kept by induction-free lemmas about unions
  and shifts.
* `MontageSession`: `SessionTypes` (with the bound on the history); `WorkIsKept`, from
  `OwnInv`, which says that all revisions after the one a page was loaded from, up to
  the one it believes it is at, expects or has been answered, are its own: that is
  what the check of `expectedRevision` passes on to the property; and
  `HistoriesAreLines`, from `LineInv`: past, present and future of a panel ascend, and
  no timeline, saved or on its way, is newer than the last edit, so that the next
  edit extends every line.

### `UploadClientProofs`

`UploadTypesHold`, `MadeFromOneFile`, `SkipsWhatIsThere` and `ResumesAfterReload`.
`UploadInv` says of every tab that its step, its session and its list of received
chunks agree, and that the server has all chunks before the one it is at
(`TabsAreSound`); it stays so because a session's chunks only grow. There is an
assignment of sessions to fingerprints that the resume map, the tabs and the stored
chunks respect (`KeyedByPrint`), which makes a record of one file: two files with one
fingerprint differ only if they are hashed, and then the checksum tells them apart.
Until two tabs share a fingerprint, the map names the session each works on
(`Apart`, `Recalled`).

### `WebClientProofs`

`PartsKeepTypes` and `WebClientIsSound`: a behaviour of `MCWebClient` is one of every
part (`PartsAreRun`), whichever page is shown, and so has the properties of each.

### Only model-checked

The liveness properties `DueIsSettled`, `ClaimsMoveOn`, `ProcessingEnds` and
`JobsSettle` (the prover has no rule for fairness), and the findings, which say what
does not hold. The bounds that the models carry (`MaxTokens`, `MaxWrites` and the
like) are constants in the proofs, of any size.

## Not modelled

Of the server: transcripts, exports, webhooks, Dropbox, the audit chain and edit claims
check and then write one row without a guard, and what a property would say of them does
not hold (see the divergences); storage operations have rows and nothing that runs them;
reviews repeat the pattern of approvals; records, the trash, merges, automation and ingest
are requests without a protocol between them, left out for their size. The rest are
one-row requests, queries, conversions, or calls of programs outside. `PROJECT.json` has
the reason for each.

Of the web client: three quarters of its lines are the generated contract of the
API, one function per endpoint, message catalogues, and pages that keep form state,
send one request and show its answer. There is nothing in them that a model could
get wrong in an interesting way, and a specification that named them would only
repeat them; the share of the lines that the modules stand for is small for that
reason.
