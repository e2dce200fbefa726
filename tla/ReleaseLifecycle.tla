-------------------------- MODULE ReleaseLifecycle --------------------------
(***************************************************************************)
(* The control center's lifecycle of an installation: install and repair   *)
(* (runtime-adapter.mjs, native-runtime-adapter.mjs), update               *)
(* (update-release.mjs), rollback (rollback-release.mjs), uninstall        *)
(* (uninstall.mjs) and the plain start and stop, against the containers,   *)
(* the database schema and the backups they act on.                        *)
(*                                                                         *)
(* One command runs at a time; between two of its effects the host goes    *)
(* on: containers boot (which migrates the database), the nightly backup   *)
(* runs, a newer release is published.  Every effect may fail and the      *)
(* command may be killed before any of them.                               *)
(***************************************************************************)
EXTENDS InstallationManifest, FiniteSets

CONSTANTS
    MaxRelease,     \* releases are published in the order 1, 2, ...
    NativeSteps,    \* installationSteps of a native platform
    MaxBackups,     \* bound: backups taken in a behaviour
    MaxFaults       \* bound: failures and kills in a behaviour

ASSUME ReleaseAssumption == MaxRelease \in Nat \ {0}
\* "none" stands for the null of a manifest without a recorded step.
ASSUME StepsAssumption ==
    /\ NativeSteps \in Seq(STRING \ {"none"}) /\ NativeSteps /= <<>>
    /\ \A i, j \in 1..Len(NativeSteps) : NativeSteps[i] = NativeSteps[j] => i = j
ASSUME BoundsAssumption == MaxBackups \in Nat /\ MaxFaults \in Nat

Releases == 1..MaxRelease

VARIABLES
    mode,       \* configuration.mode: "docker" or "native"
    manifest,   \* the installation manifest
    descriptor, \* the release the descriptor in the checkout describes
    running,    \* releases that have containers
    fpm,        \* the release of the laravel-fpm container, 0 for none
    ready,      \* that container has booted and serves requests
    schema,     \* the release whose migrations the database has, 0 when empty
    backups,    \* backups on the storage volume: when, and under which adopted release
    stamp,      \* when the last backup was taken
    applied,    \* native install steps that have run
    op, phase, at,      \* the command under way, what it does next, its step
    from, to,           \* the release it started from and its target
    own,                \* when the last update took its backup
    restored,           \* the backup the last rollback restored
    told,               \* what the last command reported
    faults              \* failures and kills so far

hostVars    == <<running, fpm, ready>>
dataVars    == <<schema, backups, stamp>>
historyVars == <<own, restored, applied>>
commandVars == <<op, phase, at, from, to, told>>
vars == <<mode, manifest, descriptor, hostVars, dataVars, historyVars, commandVars, faults>>

NoBackup == [at |-> 0, under |-> 0]
Backup == [at : 0..MaxBackups, under : {0} \cup Releases]
Latest == CHOOSE b \in backups : \A c \in backups : c.at <= b.at

DOCKER_STEPS == <<"environment-ready", "services-started">>
UPDATE_STEPS == <<"preflight-verified", "backup-created", "new-version-pulled", "migrated",
                  "switched", "health-verified", "role-smoke-verified">>
ROLLBACK_STEPS == <<"preflight-verified", "switched", "backup-restored", "health-verified">>

Steps ==
    CASE op = "update"   -> UPDATE_STEPS
      [] op = "rollback" -> ROLLBACK_STEPS
      [] OTHER           -> IF mode = "docker" THEN DOCKER_STEPS ELSE NativeSteps
Doing(o, step) == op = o /\ phase = "do" /\ Steps[at] = step

Reports == {"none", "rejected", "installed", "install-failed", "unchanged", "restored",
            "unknown", "updated", "unhealthy", "unverified", "rolled-back", "uninstalled"}
Phases == {"do", "skip", "start", "record", "stop", "restart", "mark", "complete", "forget"}
Commands == {"none", "install", "repair", "update", "rollback", "uninstall"}

Init ==
    /\ mode \in {"docker", "native"}
    /\ manifest = NoManifest
    /\ descriptor = 1
    /\ running = {} /\ fpm = 0 /\ ready = FALSE
    /\ schema = 0 /\ backups = {} /\ stamp = 0
    /\ applied = {} /\ own = 0 /\ restored = NoBackup
    /\ op = "none" /\ phase = "do" /\ at = 1 /\ from = 0 /\ to = 0
    /\ told = "none" /\ faults = 0

Fault == faults < MaxFaults /\ faults' = faults + 1

\* An effect may always fail, and does when what it needs is not there.
FailsWhen(missing) == Fault \/ (missing /\ UNCHANGED faults)

-----------------------------------------------------------------------------
(* What compose, artisan and the containers do.                            *)

\* `compose up -d` recreates what runs another image; the rest stays up.
Up(r) ==
    /\ running' = {r}
    /\ fpm' = r
    /\ ready' = (ready /\ fpm = r)

\* It gave up half-way: any mix of old, new and missing containers.
PartlyUp(r) ==
    /\ running' \in SUBSET (running \cup {r})
    /\ fpm' \in {0, fpm, r} \cap (running' \cup {0})
    /\ ready' = (ready /\ fpm' = fpm)

Down == running' = {} /\ fpm' = 0 /\ ready' = FALSE

PartlyDown ==
    /\ running' \in SUBSET running
    /\ fpm' \in {0, fpm} \cap (running' \cup {0})
    /\ ready' = (ready /\ fpm' = fpm)

\* archive:backup-run, executed in the application container.
TakeBackup ==
    /\ fpm /= 0 /\ stamp < MaxBackups
    /\ stamp' = stamp + 1
    /\ backups' = backups \cup {[at |-> stamp + 1, under |-> manifest.version]}

\* The container's code has migrations that the database, not an empty one, has not.
Outdated == 0 < schema /\ schema < fpm

\* archive:migrate-safe: pending migrations are applied, after a backup unless
\* the database is empty.
MigrateSafe ==
    /\ fpm /= 0
    /\ schema' = IF schema < fpm THEN fpm ELSE schema
    /\ IF Outdated THEN TakeBackup ELSE UNCHANGED <<backups, stamp>>

\* A migration that fails may leave the backup taken before it.
MigrateFails ==
    /\ \/ Outdated /\ TakeBackup
       \/ UNCHANGED <<backups, stamp>>
    /\ UNCHANGED schema

\* Mutant: the container serves requests before it has migrated.
Boot_Unmigrated ==
    /\ fpm /= 0 /\ ~ready
    /\ ready' = TRUE
    /\ UNCHANGED <<mode, manifest, descriptor, running, fpm, dataVars, historyVars,
                   commandVars, faults>>

\* The container's command: migrate-safe, the seeder, then php-fpm. The
\* container ends when one of them fails.
Boot ==
    /\ fpm /= 0 /\ ~ready
    /\ \/ MigrateSafe /\ ready' = TRUE /\ UNCHANGED <<fpm, faults>>
       \/ Fault /\ (MigrateFails \/ MigrateSafe) /\ fpm' = 0 /\ UNCHANGED ready
    /\ UNCHANGED <<mode, manifest, descriptor, running, historyVars, commandVars>>

\* The nightly archive:backup-run, or the operator's.
NightlyBackup ==
    /\ TakeBackup
    /\ UNCHANGED <<mode, manifest, descriptor, hostVars, schema, historyVars, commandVars, faults>>

\* backup:cleanup keeps the most recent backup.
Cleanup ==
    /\ \E b, c \in backups : b.at < c.at /\ backups' = backups \ {b}
    /\ UNCHANGED <<mode, manifest, descriptor, hostVars, schema, stamp, historyVars,
                   commandVars, faults>>

\* The operator checks out a newer release's descriptor.
NewRelease ==
    /\ descriptor + 1 \in Releases
    /\ descriptor' = descriptor + 1
    /\ UNCHANGED <<mode, manifest, hostVars, dataVars, historyVars, commandVars, faults>>

-----------------------------------------------------------------------------
(* The frame of a command: it starts, takes and records steps, ends.       *)

Idle == op = "none"
Frame == UNCHANGED <<mode, descriptor>>
Goto(p) == phase' = p /\ UNCHANGED <<op, at, from, to>>
Done ==
    /\ op' = "none" /\ phase' = "do" /\ at' = 1
    /\ UNCHANGED <<from, to>>
Told(report) == told' = report

\* The step has had its effect; its record comes next.
StepTaken == Goto("record") /\ UNCHANGED told

\* After the last step a release changes hands, if the command is about one.
Advance ==
    IF at < Len(Steps)
    THEN phase' = "do" /\ at' = at + 1 /\ UNCHANGED <<op, from, to, told>>
    ELSE IF op \in {"update", "rollback"}
         THEN Goto("complete") /\ UNCHANGED told
         ELSE Done /\ Told("installed")

\* updateLastSuccessfulStep() after a step.
Record ==
    /\ op /= "none" /\ phase = "record"
    /\ manifest' = Recorded(manifest, Steps[at])
    /\ Advance
    /\ Frame /\ UNCHANGED <<hostVars, dataVars, historyVars, faults>>

\* The write fails.  From the switch on an update restores the old release.
RecordFails ==
    /\ op /= "none" /\ phase = "record" /\ Fault
    /\ IF op = "update" /\ Steps[at] \in {"switched", "health-verified", "role-smoke-verified"}
       THEN Goto("stop") ELSE Done
    /\ Told("unknown")
    /\ Frame /\ UNCHANGED <<manifest, hostVars, dataVars, historyVars>>

\* markInstallationFailed() after the report has been decided, or its failure.
Mark ==
    /\ op /= "none" /\ phase = "mark"
    /\ \/ manifest' = Failed(manifest) /\ UNCHANGED faults
       \/ Fault /\ UNCHANGED manifest
    /\ Done /\ UNCHANGED told
    /\ Frame /\ UNCHANGED <<hostVars, dataVars, historyVars>>

\* The command is killed between two effects, or the host restarts.
Kill ==
    /\ op /= "none" /\ Fault
    /\ Done /\ Told("none")
    /\ Frame /\ UNCHANGED <<manifest, hostVars, dataVars, historyVars>>

-----------------------------------------------------------------------------
(* Install and repair.                                                     *)

Begin(o, v, w, first) ==
    /\ op' = o /\ from' = v /\ to' = w /\ at' = first
    /\ Told("none")

\* The host does not meet the preconditions: an existing manifest is marked.
PreflightRefuses ==
    /\ Idle /\ Fault
    /\ manifest' = IF manifest = NoManifest THEN manifest ELSE Failed(manifest)
    /\ Told("rejected")
    /\ Frame /\ UNCHANGED <<op, phase, at, from, to, hostVars, dataVars, historyVars>>

\* beginInstallationOperation() and what it decides.  Compose is one step.
InstallOrRepair(o) ==
    /\ Idle
    /\ LET steps == IF mode = "docker" THEN DOCKER_STEPS ELSE NativeSteps
           first == ResumeIndex(manifest, descriptor, steps)
       IN  /\ Begin(o, manifest.version, descriptor,
                    IF mode = "docker" \/ first > Len(steps) THEN Len(steps) ELSE first)
           /\ phase' = IF first > Len(steps) THEN "skip" ELSE "do"
    /\ manifest' = Begun(Created(manifest, descriptor), o)
    /\ Frame /\ UNCHANGED <<hostVars, dataVars, historyVars, faults>>

\* Nothing is left to resume: the last step is recorded again, and that is all.
NothingToResume ==
    /\ op \in {"install", "repair"} /\ phase = "skip"
    /\ manifest' = Recorded(manifest, Steps[at])
    /\ Done /\ Told("installed")
    /\ Frame /\ UNCHANGED <<hostVars, dataVars, historyVars, faults>>

\* compose up -d with the images of the descriptor.
StartServices ==
    /\ op \in {"install", "repair"} /\ phase = "do" /\ mode = "docker"
    /\ \/ Up(to) /\ StepTaken /\ UNCHANGED faults
       \/ Fault /\ PartlyUp(to) /\ Goto("mark") /\ Told("install-failed")
    /\ Frame /\ UNCHANGED <<manifest, dataVars, historyVars>>

\* One native step: the data gate first, then the platform's, in order.
NativeStep ==
    /\ op \in {"install", "repair"} /\ phase = "do" /\ mode = "native"
    /\ \/ applied' = applied \cup {Steps[at]} /\ StepTaken /\ UNCHANGED faults
       \/ Fault /\ Goto("mark") /\ Told("install-failed") /\ UNCHANGED applied
    /\ Frame /\ UNCHANGED <<manifest, hostVars, dataVars, own, restored>>

-----------------------------------------------------------------------------
(* Update.                                                                 *)

\* Preflight: an installation, in docker mode, that is not up to date.
Update ==
    /\ Idle /\ mode = "docker"
    /\ manifest /= NoManifest /\ descriptor /= manifest.version
    /\ manifest' = Begun(manifest, "update")
    /\ Begin("update", manifest.version, descriptor, 1) /\ phase' = "record"
    /\ Frame /\ UNCHANGED <<hostVars, dataVars, historyVars, faults>>

\* A step before the switch fails: nothing has been switched.
FailUnswitched == Goto("mark") /\ Told("unchanged")

BackUp ==
    /\ Doing("update", "backup-created")
    /\ \/ TakeBackup /\ own' = stamp + 1 /\ StepTaken /\ UNCHANGED faults
       \/ FailsWhen(fpm = 0) /\ FailUnswitched /\ UNCHANGED <<backups, stamp, own>>
    /\ Frame /\ UNCHANGED <<manifest, hostVars, schema, restored, applied>>

Pull ==
    /\ Doing("update", "new-version-pulled")
    /\ \/ StepTaken /\ UNCHANGED faults
       \/ Fault /\ FailUnswitched
    /\ Frame /\ UNCHANGED <<manifest, hostVars, dataVars, historyVars>>

\* migrate-safe in whichever container runs now.
Migrate ==
    /\ Doing("update", "migrated")
    /\ \/ MigrateSafe /\ StepTaken /\ UNCHANGED faults
       \/ FailsWhen(fpm = 0) /\ FailUnswitched /\ MigrateFails
    /\ Frame /\ UNCHANGED <<manifest, hostVars, historyVars>>

Switch ==
    /\ Doing("update", "switched")
    /\ \/ Up(to) /\ StepTaken /\ UNCHANGED faults
       \/ Fault /\ PartlyUp(to) /\ Goto("stop") /\ UNCHANGED told
    /\ Frame /\ UNCHANGED <<manifest, dataVars, historyVars>>

\* Mutant: the switch is not gated by the health check.
Healthy_Always == TRUE

\* GET /api/v1/health answers 200.
Healthy == fpm /= 0 /\ ready

\* The deep health check, then the role smoke: one probe, no waiting.
Probe ==
    /\ Doing("update", "health-verified") \/ Doing("update", "role-smoke-verified")
    /\ \/ Healthy /\ StepTaken /\ UNCHANGED faults
       \/ /\ FailsWhen(~Healthy)
          /\ Goto("stop") /\ UNCHANGED told
    /\ Frame /\ UNCHANGED <<manifest, hostVars, dataVars, historyVars>>

\* completeUpdateOperation(), or its failure, which restores the old release.
CompleteUpdate ==
    /\ op = "update" /\ phase = "complete"
    /\ \/ /\ manifest' = Updated(manifest, to, "role-smoke-verified")
          /\ Done /\ Told("updated") /\ UNCHANGED faults
       \/ Fault /\ Goto("stop") /\ Told("unknown") /\ UNCHANGED manifest
    /\ Frame /\ UNCHANGED <<hostVars, dataVars, historyVars>>

\* restorePreviousRelease() and restoreCurrentRelease(): what the command
\* started is stopped, then the release it came from is started.
StopTarget ==
    /\ op /= "none" /\ phase = "stop"
    /\ \/ Down /\ Goto("restart") /\ UNCHANGED <<told, faults>>
       \/ /\ Fault /\ PartlyDown
          /\ IF told = "unknown" THEN Done ELSE Goto("mark")
          /\ Told("unknown")
    /\ Frame /\ UNCHANGED <<manifest, dataVars, historyVars>>

\* Mutant: the result of the restart is not looked at.
RestartOld_Unchecked ==
    /\ op /= "none" /\ phase = "restart"
    /\ IF told = "unknown" THEN Done ELSE Goto("mark")
    /\ \/ Up(from) /\ Told("restored") /\ UNCHANGED faults
       \/ Fault /\ PartlyUp(from) /\ Told("restored")
    /\ Frame /\ UNCHANGED <<manifest, dataVars, historyVars>>

\* After a failed write of the manifest nothing more is written to it.
RestartOld ==
    /\ op /= "none" /\ phase = "restart"
    /\ IF told = "unknown" THEN Done ELSE Goto("mark")
    /\ \/ Up(from) /\ Told("restored") /\ UNCHANGED faults
       \/ Fault /\ PartlyUp(from) /\ Told("unknown")
    /\ Frame /\ UNCHANGED <<manifest, dataVars, historyVars>>

-----------------------------------------------------------------------------
(* Rollback: every rollback is taken for irreversible and was confirmed.   *)

Rollback ==
    /\ Idle /\ mode = "docker" /\ manifest.previous /= 0
    /\ manifest' = Begun(manifest, "rollback")
    /\ Begin("rollback", manifest.version, manifest.previous, 1) /\ phase' = "record"
    /\ Frame /\ UNCHANGED <<hostVars, dataVars, historyVars, faults>>

\* The current release is stopped ...
StopCurrent ==
    /\ Doing("rollback", "switched")
    /\ \/ Down /\ Goto("start") /\ UNCHANGED faults
       \/ Fault /\ PartlyDown /\ Goto("stop")
    /\ Frame /\ UNCHANGED <<manifest, dataVars, historyVars, told>>

\* ... and the previous one started.
StartPrevious ==
    /\ op = "rollback" /\ phase = "start"
    /\ \/ Up(to) /\ StepTaken /\ UNCHANGED faults
       \/ Fault /\ PartlyUp(to) /\ Goto("stop") /\ UNCHANGED told
    /\ Frame /\ UNCHANGED <<manifest, dataVars, historyVars>>

\* Mutant: the list is sorted the other way round.
Chosen_Oldest == CHOOSE b \in backups : \A c \in backups : b.at <= c.at

\* restoreLatestBackupForRollback()
Chosen == Latest

RestoreBackup ==
    /\ Doing("rollback", "backup-restored")
    /\ \/ fpm /= 0 /\ backups /= {} /\ restored' = Chosen /\ StepTaken /\ UNCHANGED faults
       \/ /\ FailsWhen(fpm = 0 \/ backups = {})
          /\ Goto("mark") /\ Told("unverified") /\ UNCHANGED restored
    /\ Frame /\ UNCHANGED <<manifest, hostVars, dataVars, own, applied>>

\* A failed check never switches forward again.
ProbeRestored ==
    /\ Doing("rollback", "health-verified")
    /\ \/ Healthy /\ StepTaken /\ UNCHANGED faults
       \/ /\ FailsWhen(~Healthy)
          /\ Goto("mark") /\ Told("unhealthy")
    /\ Frame /\ UNCHANGED <<manifest, hostVars, dataVars, historyVars>>

CompleteRollback ==
    /\ op = "rollback" /\ phase = "complete"
    /\ \/ /\ manifest' = RolledBack(manifest, "health-verified")
          /\ Done /\ Told("rolled-back") /\ UNCHANGED faults
       \/ Fault /\ Done /\ Told("unknown") /\ UNCHANGED manifest
    /\ Frame /\ UNCHANGED <<hostVars, dataVars, historyVars>>

-----------------------------------------------------------------------------
(* Uninstall, start and stop.                                              *)

\* Deleting the data asks for a backup first, and removes the volumes: the
\* database, and the backups with it.
Uninstall(deleteData) ==
    /\ Idle /\ manifest /= NoManifest
    /\ deleteData => mode = "docker" /\ fpm /= 0 /\ backups /= {}
    /\ Begin("uninstall", manifest.version, 0, 1) /\ phase' = "forget"
    /\ Down
    /\ IF deleteData THEN schema' = 0 /\ backups' = {} ELSE UNCHANGED <<schema, backups>>
    /\ Frame /\ UNCHANGED <<manifest, stamp, historyVars, faults>>

\* The services could not be removed: the manifest stays.
UninstallFails ==
    /\ Idle /\ manifest /= NoManifest /\ Fault
    /\ PartlyDown
    /\ Told("none")
    /\ Frame /\ UNCHANGED <<manifest, dataVars, historyVars, op, phase, at, from, to>>

\* The manifest goes last; until then a failure leaves it for a retry.
RemoveManifest ==
    /\ op = "uninstall" /\ phase = "forget"
    /\ \/ manifest' = NoManifest /\ applied' = {} /\ Told("uninstalled") /\ UNCHANGED faults
       \/ Fault /\ Told("none") /\ UNCHANGED <<manifest, applied>>
    /\ Done
    /\ Frame /\ UNCHANGED <<hostVars, dataVars, own, restored>>

\* `setup start` brings up the release of the descriptor, `setup stop` stops.
StartOrStop ==
    /\ Idle /\ mode = "docker" /\ manifest /= NoManifest
    /\ Up(descriptor) \/ Down
    /\ Told("none")
    /\ Frame /\ UNCHANGED <<manifest, dataVars, historyVars, op, phase, at, from, to, faults>>

-----------------------------------------------------------------------------
Host == Boot \/ NightlyBackup \/ Cleanup \/ NewRelease
Command ==
    \/ Record \/ RecordFails \/ Mark \/ Kill
    \/ PreflightRefuses \/ NothingToResume \/ StartServices \/ NativeStep
    \/ BackUp \/ Pull \/ Migrate \/ Switch \/ Probe \/ CompleteUpdate
    \/ StopTarget \/ RestartOld
    \/ StopCurrent \/ StartPrevious \/ RestoreBackup \/ ProbeRestored \/ CompleteRollback
    \/ RemoveManifest
Operator ==
    \/ \E o \in {"install", "repair"} : InstallOrRepair(o)
    \/ Update \/ Rollback \/ StartOrStop
    \/ UninstallFails \/ \E deleteData \in BOOLEAN : Uninstall(deleteData)
Next == Host \/ Command \/ Operator

Spec == Init /\ [][Next]_vars

-----------------------------------------------------------------------------
(* Properties.                                                             *)

Range == {NativeSteps[i] : i \in 1..Len(NativeSteps)}
StepNames == {DOCKER_STEPS[i] : i \in 1..2} \cup {UPDATE_STEPS[i] : i \in 1..7}
             \cup {ROLLBACK_STEPS[i] : i \in 1..4} \cup Range \cup {"none"}

\* Every variable holds a value of its type.
TypeOK ==
    /\ mode \in {"docker", "native"}
    /\ manifest \in [version : {0} \cup Releases, last : StepNames, type : OperationTypes,
                     status : OperationStatus, previous : {0} \cup Releases]
    /\ descriptor \in Releases
    /\ running \subseteq Releases /\ fpm \in {0} \cup running /\ ready \in BOOLEAN
    /\ schema \in {0} \cup Releases /\ stamp \in 0..MaxBackups
    /\ backups \subseteq Backup /\ \A b \in backups : b.at <= stamp
    /\ applied \subseteq Range /\ own \in 0..stamp /\ restored \in Backup
    /\ op \in Commands /\ phase \in Phases /\ at \in 1..Len(Steps)
    /\ from \in {0} \cup Releases /\ to \in {0} \cup Releases
    /\ told \in Reports /\ faults \in 0..MaxFaults

\* When a command reports that an update or a rollback completed, or that the
\* previous release was restored, exactly that release has containers, and it
\* is the one the manifest names: nothing is left of a switch that gave up
\* half-way.
ReportedReleaseRuns ==
    told \in {"updated", "rolled-back", "restored"} => running = {manifest.version}

\* No container serves requests against a database that lacks its migrations,
\* although update migrates with the code of the container it replaces.
ReadyIsMigrated == ready => fpm /= 0 /\ fpm <= schema

\* A rollback never goes back behind the backup the last update took for it:
\* what it loses is at most what was written since.
RollbackLosesNoMore == told = "rolled-back" => restored.at >= own

\* What the manifest records of a native installation has been done: when
\* repair resumes after the recorded step it skips nothing that never ran.
NativeProgress ==
    mode = "native" =>
        \A k \in 1..Len(NativeSteps) :
            manifest.last = NativeSteps[k] => \A i \in 1..k : NativeSteps[i] \in applied

\* The adopted release moves only as ReleaseRecord allows: an update or a
\* rollback lands only on the one release that runs and answers.
Record_ == INSTANCE ReleaseRecord WITH
    version <- manifest.version, previous <- manifest.previous, live <- running, up <- ready
ImplementsRecord == Record_!Spec
=============================================================================
