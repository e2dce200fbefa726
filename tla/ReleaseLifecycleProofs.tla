----------------------- MODULE ReleaseLifecycleProofs -----------------------
(***************************************************************************)
(* Proofs about ReleaseLifecycle, for any number of releases, native       *)
(* steps, backups and faults.  The inductive invariant says, for every     *)
(* point of every command: which phase it can be in (Shape), which release *)
(* it came from and goes to (Adoption), which containers it has left       *)
(* running (Hosting), which backup it restored (Saving), and which native  *)
(* steps have run (Installing).                                            *)
(***************************************************************************)
EXTENDS ReleaseLifecycle, TLAPS

\* Step n of the command has been taken, and nothing has gone wrong since.
Reached(n) ==
    /\ phase \in {"do", "record", "complete"}
    /\ at > n \/ (at = n /\ phase /= "do")

\* Which phase each command can be in, and at which step.
Shape ==
    /\ op = "none" => phase = "do" /\ at = 1
    /\ op \in {"install", "repair"} =>
          phase \in {"do", "skip", "record", "mark"} /\ (mode = "docker" => at = 2)
    /\ op = "update" =>
          mode = "docker" /\ phase \in {"do", "record", "stop", "restart", "mark", "complete"}
    /\ op = "rollback" =>
          mode = "docker" /\ phase \in {"do", "record", "start", "stop", "restart", "mark", "complete"}
    /\ op = "uninstall" => phase = "forget" /\ at = 1
    /\ op = "update" /\ phase = "complete" => at = 7
    /\ op = "rollback" /\ phase = "complete" => at = 4
    /\ phase = "start" => at = 2
    /\ told \in {"updated", "rolled-back", "restored"} => op = "none" \/ phase = "mark"
    /\ told \in {"updated", "rolled-back"} => op = "none"

\* A command under way has an installation to act on; an update or a rollback
\* remembers where it came from and goes to another release.
Adoption ==
    /\ manifest.version = 0 => manifest = NoManifest
    /\ op /= "none" => manifest.version /= 0
    /\ op \notin {"none", "uninstall"} => to \in Releases
    /\ op \in {"update", "rollback"} => from = manifest.version
    /\ op = "update" => to /= from
    /\ op = "rollback" => to = manifest.previous

\* Once the target has been started it alone has containers, and after the probe
\* it is ready, until the command completes or gives up.
Hosting ==
    /\ op = "uninstall" => running = {}
    /\ op = "update" /\ Reached(5) => running = {to}
    /\ op = "update" /\ Reached(6) => ready
    /\ op = "rollback" /\ Reached(2) => running = {to}
    /\ op = "rollback" /\ Reached(4) => ready

\* The newest backup is never cleaned up.
NewestKept == backups = {} \/ \E b \in backups : b.at = stamp

Saving ==
    /\ NewestKept
    /\ op = "rollback" /\ Reached(3) => restored.at >= own

\* The native steps before the one under way have run.
Installing ==
    mode = "native" /\ op \in {"install", "repair"} =>
        /\ phase = "do" => \A i \in 1..(at - 1) : NativeSteps[i] \in applied
        /\ phase \in {"record", "skip"} => \A i \in 1..at : NativeSteps[i] \in applied

\* The steps of an update, by their numbers.
LEMMA UpdateSteps ==
    ASSUME op = "update"
    PROVE  /\ Len(Steps) = 7
           /\ \A n \in 1..7 : /\ Steps[n] = "backup-created" <=> n = 2
                              /\ Steps[n] = "new-version-pulled" <=> n = 3
                              /\ Steps[n] = "migrated" <=> n = 4
                              /\ Steps[n] = "switched" <=> n = 5
                              /\ Steps[n] = "health-verified" <=> n = 6
                              /\ Steps[n] = "role-smoke-verified" <=> n = 7
                              /\ Steps[n] \in StepNames
<1>1. Steps = UPDATE_STEPS
  BY DEF Steps
<1>2. /\ UPDATE_STEPS[1] = "preflight-verified" /\ UPDATE_STEPS[2] = "backup-created"
      /\ UPDATE_STEPS[3] = "new-version-pulled" /\ UPDATE_STEPS[4] = "migrated"
      /\ UPDATE_STEPS[5] = "switched" /\ UPDATE_STEPS[6] = "health-verified"
      /\ UPDATE_STEPS[7] = "role-smoke-verified"
  BY DEF UPDATE_STEPS
<1>3. Len(UPDATE_STEPS) = 7
  BY DEF UPDATE_STEPS
<1>4. \A n \in 1..7 : UPDATE_STEPS[n] \in StepNames
  BY DEF StepNames
<1>5. \A n \in 1..7 : n = 1 \/ n = 2 \/ n = 3 \/ n = 4 \/ n = 5 \/ n = 6 \/ n = 7
  OBVIOUS
<1> QED
  BY <1>1, <1>2, <1>3, <1>4, <1>5

\* The steps of a rollback, by their numbers.
LEMMA RollbackSteps ==
    ASSUME op = "rollback"
    PROVE  /\ Len(Steps) = 4
           /\ \A n \in 1..4 : /\ Steps[n] = "switched" <=> n = 2
                              /\ Steps[n] = "backup-restored" <=> n = 3
                              /\ Steps[n] = "health-verified" <=> n = 4
                              /\ Steps[n] \in StepNames
<1>1. Steps = ROLLBACK_STEPS
  BY DEF Steps
<1>2. /\ ROLLBACK_STEPS[1] = "preflight-verified" /\ ROLLBACK_STEPS[2] = "switched"
      /\ ROLLBACK_STEPS[3] = "backup-restored" /\ ROLLBACK_STEPS[4] = "health-verified"
  BY DEF ROLLBACK_STEPS
<1>3. Len(ROLLBACK_STEPS) = 4
  BY DEF ROLLBACK_STEPS
<1>4. \A n \in 1..4 : ROLLBACK_STEPS[n] \in StepNames
  BY DEF StepNames
<1>5. \A n \in 1..4 : n = 1 \/ n = 2 \/ n = 3 \/ n = 4
  OBVIOUS
<1> QED
  BY <1>1, <1>2, <1>3, <1>4, <1>5

\* The steps of an installation are those of its mode.
LEMMA InstallSteps ==
    ASSUME op \notin {"update", "rollback"}
    PROVE  /\ mode = "docker" => Steps = DOCKER_STEPS
           /\ mode /= "docker" => Steps = NativeSteps
           /\ Len(DOCKER_STEPS) = 2 /\ Len(NativeSteps) \in Nat \ {0}
           /\ Len(Steps) \in Nat \ {0}
           /\ \A n \in 1..Len(Steps) : Steps[n] \in StepNames
<1>1. Len(DOCKER_STEPS) = 2 /\ Len(NativeSteps) \in Nat \ {0}
  BY StepsAssumption DEF DOCKER_STEPS
<1>2. \A n \in 1..2 : DOCKER_STEPS[n] \in StepNames
  BY DEF StepNames
<1>3. \A n \in 1..Len(NativeSteps) : NativeSteps[n] \in StepNames
  BY DEF StepNames, Range
<1>4. CASE mode = "docker"
  <2>1. Steps = DOCKER_STEPS
    BY <1>4 DEF Steps
  <2>2. Len(Steps) = 2 /\ Len(Steps) \in Nat \ {0}
    BY <1>1, <2>1
  <2>3. \A n \in 1..Len(Steps) : Steps[n] \in StepNames
    BY <1>2, <2>1, <2>2
  <2> QED
    BY <1>1, <1>4, <2>1, <2>2, <2>3
<1>5. CASE mode /= "docker"
  <2>1. Steps = NativeSteps
    BY <1>5 DEF Steps
  <2> QED
    BY <1>1, <1>3, <1>5, <2>1
<1> QED
  BY <1>4, <1>5

\* Whatever the command, its steps are known by name.
LEMMA StepsOf ==
    /\ Len(Steps) \in Nat \ {0}
    /\ \A n \in 1..Len(Steps) : Steps[n] \in StepNames
  BY UpdateSteps, RollbackSteps, InstallSteps

\* The manifests there can be.
Manifests == [version : {0} \cup Releases, last : StepNames, type : OperationTypes,
              status : OperationStatus, previous : {0} \cup Releases]

\* What a write of the manifest changes, and what it leaves.
LEMMA FailedWrites ==
    ASSUME NEW m \in Manifests
    PROVE  /\ Failed(m) \in Manifests /\ Failed(m).version = m.version
           /\ Failed(m).previous = m.previous /\ Failed(m).last = m.last
  BY DEF Manifests, Failed, OperationStatus

\* A recorded step changes the last step only.
LEMMA RecordedWrites ==
    ASSUME NEW m \in Manifests, NEW s \in StepNames
    PROVE  /\ Recorded(m, s) \in Manifests /\ Recorded(m, s).version = m.version
           /\ Recorded(m, s).previous = m.previous /\ Recorded(m, s).last = s
  BY DEF Manifests, Recorded, OperationStatus

\* An operation that begins keeps the version and the steps.
LEMMA BegunWrites ==
    ASSUME NEW m \in Manifests, NEW t \in OperationTypes
    PROVE  /\ Begun(m, t) \in Manifests /\ Begun(m, t).version = m.version
           /\ Begun(m, t).previous = m.previous /\ Begun(m, t).last = m.last
  BY DEF Manifests, Begun, OperationStatus

\* A manifest that exists is kept when an installation begins.
LEMMA CreatedWrites ==
    ASSUME NEW m \in Manifests, NEW v \in Releases
    PROVE  /\ Created(m, v) \in Manifests /\ (m /= NoManifest => Created(m, v) = m)
           /\ m = NoManifest => /\ Created(m, v).version = v /\ Created(m, v).last = "none"
                                /\ Created(m, v).previous = 0
<1>1. "none" \in StepNames
  BY DEF StepNames
<1> QED
  BY <1>1 DEF Created, Manifests, OperationTypes, OperationStatus

\* The manifest of a host on which nothing is installed.
LEMMA NothingWritten ==
    /\ NoManifest \in Manifests /\ NoManifest.version = 0
    /\ NoManifest.last = "none" /\ NoManifest.previous = 0
  BY DEF NoManifest, Manifests, StepNames, OperationTypes, OperationStatus

\* A completed update keeps the release it replaced, a completed rollback none.
LEMMA CompletionWrites ==
    ASSUME NEW m \in Manifests, NEW v \in Releases, NEW s \in StepNames
    PROVE  /\ Updated(m, v, s) \in Manifests /\ Updated(m, v, s).version = v
           /\ Updated(m, v, s).previous = m.version /\ Updated(m, v, s).last = s
           /\ RolledBack(m, s) \in Manifests /\ RolledBack(m, s).version = m.previous
           /\ RolledBack(m, s).previous = 0 /\ RolledBack(m, s).last = s
  BY DEF Updated, RolledBack, Manifests, OperationTypes, OperationStatus

\* The step a command is about to take, by its number.
LEMMA StepDone ==
    ASSUME TypeOK
    PROVE  /\ Doing("update", "backup-created") => op = "update" /\ phase = "do" /\ at = 2
           /\ Doing("update", "new-version-pulled") => op = "update" /\ phase = "do" /\ at = 3
           /\ Doing("update", "migrated") => op = "update" /\ phase = "do" /\ at = 4
           /\ Doing("update", "switched") => op = "update" /\ phase = "do" /\ at = 5
           /\ Doing("update", "health-verified") => op = "update" /\ phase = "do" /\ at = 6
           /\ Doing("update", "role-smoke-verified") => op = "update" /\ phase = "do" /\ at = 7
           /\ Doing("rollback", "switched") => op = "rollback" /\ phase = "do" /\ at = 2
           /\ Doing("rollback", "backup-restored") => op = "rollback" /\ phase = "do" /\ at = 3
           /\ Doing("rollback", "health-verified") => op = "rollback" /\ phase = "do" /\ at = 4
<1>1. at \in 1..Len(Steps)
  BY DEF TypeOK
<1>2. op = "update" => at \in 1..7
  BY <1>1, UpdateSteps
<1>3. op = "rollback" => at \in 1..4
  BY <1>1, RollbackSteps
<1> QED
  BY <1>2, <1>3, UpdateSteps, RollbackSteps DEF Doing

\* After a step's record a command goes on to the next, or to its end.
LEMMA RecordAdvances ==
    ASSUME TypeOK, Shape, Record
    PROVE  /\ phase = "record" /\ UNCHANGED <<mode, hostVars, dataVars, historyVars, from, to>>
           /\ op = "update" => /\ op' = op /\ told' = told
                              /\ \/ at < 7 /\ at' = at + 1 /\ phase' = "do"
                                 \/ at = 7 /\ at' = at /\ phase' = "complete"
           /\ op = "rollback" => /\ op' = op /\ told' = told
                                /\ \/ at < 4 /\ at' = at + 1 /\ phase' = "do"
                                   \/ at = 4 /\ at' = at /\ phase' = "complete"
           /\ op \notin {"update", "rollback"} =>
                 \/ at < Len(Steps) /\ op' = op /\ told' = told /\ at' = at + 1 /\ phase' = "do"
                 \/ op' = "none" /\ told' = "installed" /\ phase' = "do" /\ at' = 1
<1>1. at \in 1..Len(Steps)
  BY DEF TypeOK
<1>2. phase = "record" /\ op /= "none" /\ Advance
      /\ UNCHANGED <<mode, hostVars, dataVars, historyVars>>
  BY DEF Record, Frame
<1>3. UNCHANGED <<from, to>>
  BY <1>2 DEF Advance, Goto, Done
<1>4. ASSUME op \in {"update", "rollback"}
      PROVE  /\ op' = op /\ told' = told
             /\ \/ at < Len(Steps) /\ at' = at + 1 /\ phase' = "do"
                \/ at = Len(Steps) /\ at' = at /\ phase' = "complete"
  <2>1. CASE at < Len(Steps)
    BY <1>2, <2>1 DEF Advance
  <2>2. CASE ~(at < Len(Steps))
    <3>1. at = Len(Steps)
      BY <1>1, <2>2, StepsOf
    <3> QED
      BY <1>2, <1>4, <2>2, <3>1 DEF Advance, Goto
  <2> QED
    BY <2>1, <2>2
<1>5. ASSUME op \notin {"update", "rollback"}
      PROVE  \/ at < Len(Steps) /\ op' = op /\ told' = told /\ at' = at + 1 /\ phase' = "do"
             \/ op' = "none" /\ told' = "installed" /\ phase' = "do" /\ at' = 1
  BY <1>2, <1>5 DEF Advance, Done, Told
<1> QED
  BY <1>2, <1>3, <1>4, <1>5, UpdateSteps, RollbackSteps

\* A command goes through its own phases, in order.
LEMMA ShapePreserved ==
    ASSUME TypeOK, Shape, [Next]_vars
    PROVE  Shape'
<1>a. at \in Nat /\ at >= 1
  BY StepsOf DEF TypeOK
<1> USE <1>a
<1> USE DEF Shape, hostVars, dataVars, historyVars, commandVars
<1>1. CASE UNCHANGED vars
  BY <1>1 DEF vars
<1>2. CASE Boot
  BY <1>2 DEF Boot, Fault, MigrateSafe, MigrateFails, TakeBackup
<1>3. CASE NightlyBackup
  BY <1>3 DEF NightlyBackup, TakeBackup
<1>4. CASE Cleanup
  BY <1>4 DEF Cleanup
<1>5. CASE NewRelease
  BY <1>5 DEF NewRelease
<1>6. CASE Record
  <2>1. op /= "none"
    BY <1>6 DEF Record
  <2>2. op \in {"install", "repair"} /\ mode = "docker" => ~(at < Len(Steps))
    BY InstallSteps
  <2> QED
    BY <2>1, <2>2, <1>6, RecordAdvances
<1>7. CASE RecordFails
  BY <1>7 DEF RecordFails, Fault, Goto, Done, Told, Frame
<1>8. CASE Mark
  BY <1>8 DEF Mark, Fault, Done, Frame, Failed
<1>9. CASE Kill
  BY <1>9 DEF Kill, Fault, Done, Told, Frame
<1>10. CASE PreflightRefuses
  BY <1>10 DEF PreflightRefuses, Idle, Fault, Told, Frame, Failed, NoManifest
<1>11. CASE NothingToResume
  BY <1>11 DEF NothingToResume, Done, Told, Frame, Recorded
<1>12. CASE StartServices
  BY <1>12 DEF StartServices, Up, PartlyUp, StepTaken, Goto, Fault, Told, Frame
<1>13. CASE NativeStep
  BY <1>13 DEF NativeStep, StepTaken, Goto, Fault, Told, Frame
<1>14. CASE BackUp
  BY <1>14 DEF BackUp, Doing, TakeBackup, StepTaken, Goto, Fault, FailsWhen, FailUnswitched,
     Told, Frame
<1>15. CASE Pull
  BY <1>15 DEF Pull, Doing, StepTaken, Goto, Fault, FailUnswitched, Told, Frame
<1>16. CASE Migrate
  BY <1>16 DEF Migrate, Doing, MigrateSafe, MigrateFails, TakeBackup, StepTaken, Goto, Fault, FailsWhen,
     FailUnswitched, Told, Frame
<1>17. CASE Switch
  BY <1>17 DEF Switch, Doing, Up, PartlyUp, StepTaken, Goto, Fault, Frame
<1>18. CASE Probe
  BY <1>18 DEF Probe, Doing, Healthy, StepTaken, Goto, FailsWhen, Fault, Frame
<1>19. CASE CompleteUpdate
  BY <1>19 DEF CompleteUpdate, Done, Told, Goto, Fault, Frame, Updated, NoManifest
<1>20. CASE StopTarget
  BY <1>20 DEF StopTarget, Down, PartlyDown, Goto, Done, Told, Fault, Frame
<1>21. CASE RestartOld
  BY <1>21 DEF RestartOld, Up, PartlyUp, Goto, Done, Told, Fault, Frame
<1>22. CASE Rollback
  BY <1>22 DEF Rollback, Idle, Begin, Told, Frame, Begun, NoManifest
<1>23. CASE StopCurrent
  BY <1>23, StepDone DEF StopCurrent, Down, PartlyDown, Goto, Fault, Frame
<1>24. CASE StartPrevious
  BY <1>24 DEF StartPrevious, Up, PartlyUp, StepTaken, Goto, Fault, Frame
<1>25. CASE RestoreBackup
  BY <1>25 DEF RestoreBackup, Doing, StepTaken, Goto, FailsWhen, Fault, Told, Frame
<1>26. CASE ProbeRestored
  BY <1>26 DEF ProbeRestored, Doing, Healthy, StepTaken, Goto, FailsWhen, Fault, Told, Frame
<1>27. CASE CompleteRollback
  BY <1>27 DEF CompleteRollback, Done, Told, Fault, Frame, RolledBack, NoManifest
<1>28. CASE RemoveManifest
  BY <1>28 DEF RemoveManifest, Done, Told, Fault, Frame, NoManifest
<1>29. CASE Update
  BY <1>29 DEF Update, Idle, Begin, Told, Frame, Begun, NoManifest
<1>30. CASE StartOrStop
  BY <1>30 DEF StartOrStop, Idle, Up, Down, Told, Frame
<1>31. CASE UninstallFails
  BY <1>31 DEF UninstallFails, Idle, Fault, PartlyDown, Told, Frame
<1>32. ASSUME NEW o \in {"install", "repair"}, InstallOrRepair(o) PROVE Shape'
  BY <1>32 DEF InstallOrRepair, Idle, Begin, Told, Frame, DOCKER_STEPS
<1>33. ASSUME NEW deleteData \in BOOLEAN, Uninstall(deleteData) PROVE Shape'
  BY <1>33 DEF Uninstall, Idle, Begin, Told, Frame, Down
<1> QED
  BY <1>1, <1>2, <1>3, <1>4, <1>5, <1>6, <1>7, <1>8, <1>9, <1>10, <1>11, <1>12, <1>13,
     <1>14, <1>15, <1>16, <1>17, <1>18, <1>19, <1>20, <1>21, <1>22, <1>23, <1>24, <1>25,
     <1>26, <1>27, <1>28, <1>29, <1>30, <1>31, <1>32, <1>33
     DEF Next, Host, Command, Operator

\* While a command is under way the manifest goes on naming the releases it started with.
LEMMA AdoptionPreserved ==
    ASSUME TypeOK, Shape, Adoption, [Next]_vars
    PROVE  Adoption'
<1>a. at \in Nat /\ at >= 1 /\ MaxRelease \in Nat
  BY StepsOf, ReleaseAssumption DEF TypeOK
<1>b. descriptor \in Releases /\ manifest.previous \in {0} \cup Releases
  BY DEF TypeOK
<1>c. manifest \in Manifests /\ "none" \in StepNames
  BY DEF TypeOK, Manifests, StepNames
<1> USE <1>a, <1>b
<1> USE DEF Shape, Adoption, Releases, hostVars, dataVars, historyVars, commandVars
<1>1. CASE UNCHANGED vars
  BY <1>1 DEF vars
<1>2. CASE Boot
  BY <1>2 DEF Boot, Fault, MigrateSafe, MigrateFails, TakeBackup
<1>3. CASE NightlyBackup
  BY <1>3 DEF NightlyBackup, TakeBackup
<1>4. CASE Cleanup
  BY <1>4 DEF Cleanup
<1>5. CASE NewRelease
  BY <1>5 DEF NewRelease
<1>6. CASE Record
  <2>1. op /= "none" /\ manifest' = Recorded(manifest, Steps[at])
    BY <1>6 DEF Record
  <2>2. Steps[at] \in StepNames
    BY StepsOf DEF TypeOK
  <2>3. manifest'.version = manifest.version /\ manifest'.previous = manifest.previous
    BY <1>c, <2>1, <2>2, RecordedWrites
  <2> QED
    BY <2>1, <2>3, <1>6, RecordAdvances
<1>7. CASE RecordFails
  BY <1>7 DEF RecordFails, Fault, Goto, Done, Told, Frame
<1>8. CASE Mark
  <2>1. manifest'.version = manifest.version
    BY <1>8, <1>c, FailedWrites DEF Mark
  <2> QED
    BY <1>8, <2>1 DEF Mark, Done, Frame
<1>9. CASE Kill
  BY <1>9 DEF Kill, Fault, Done, Told, Frame
<1>10. CASE PreflightRefuses
  BY <1>10 DEF PreflightRefuses, Idle, Fault, Told, Frame, Failed, NoManifest
<1>11. CASE NothingToResume
  BY <1>11 DEF NothingToResume, Done, Told, Frame, Recorded
<1>12. CASE StartServices
  BY <1>12 DEF StartServices, Up, PartlyUp, StepTaken, Goto, Fault, Told, Frame
<1>13. CASE NativeStep
  BY <1>13 DEF NativeStep, StepTaken, Goto, Fault, Told, Frame
<1>14. CASE BackUp
  BY <1>14 DEF BackUp, Doing, TakeBackup, StepTaken, Goto, Fault, FailsWhen, FailUnswitched,
     Told, Frame
<1>15. CASE Pull
  BY <1>15 DEF Pull, Doing, StepTaken, Goto, Fault, FailUnswitched, Told, Frame
<1>16. CASE Migrate
  BY <1>16 DEF Migrate, Doing, MigrateSafe, MigrateFails, TakeBackup, StepTaken, Goto, Fault, FailsWhen,
     FailUnswitched, Told, Frame
<1>17. CASE Switch
  BY <1>17 DEF Switch, Doing, Up, PartlyUp, StepTaken, Goto, Fault, Frame
<1>18. CASE Probe
  BY <1>18 DEF Probe, Doing, Healthy, StepTaken, Goto, FailsWhen, Fault, Frame
<1>19. CASE CompleteUpdate
  BY <1>19 DEF CompleteUpdate, Done, Told, Goto, Fault, Frame, Updated, NoManifest
<1>20. CASE StopTarget
  BY <1>20 DEF StopTarget, Down, PartlyDown, Goto, Done, Told, Fault, Frame
<1>21. CASE RestartOld
  BY <1>21 DEF RestartOld, Up, PartlyUp, Goto, Done, Told, Fault, Frame
<1>22. CASE Rollback
  BY <1>22 DEF Rollback, Idle, Begin, Told, Frame, Begun, NoManifest
<1>23. CASE StopCurrent
  BY <1>23 DEF StopCurrent, Doing, Down, PartlyDown, Goto, Fault, Frame
<1>24. CASE StartPrevious
  BY <1>24 DEF StartPrevious, Up, PartlyUp, StepTaken, Goto, Fault, Frame
<1>25. CASE RestoreBackup
  BY <1>25 DEF RestoreBackup, Doing, StepTaken, Goto, FailsWhen, Fault, Told, Frame
<1>26. CASE ProbeRestored
  BY <1>26 DEF ProbeRestored, Doing, Healthy, StepTaken, Goto, FailsWhen, Fault, Told, Frame
<1>27. CASE CompleteRollback
  BY <1>27 DEF CompleteRollback, Done, Told, Fault, Frame, RolledBack, NoManifest
<1>28. CASE RemoveManifest
  BY <1>28 DEF RemoveManifest, Done, Told, Fault, Frame, NoManifest
<1>29. CASE Update
  BY <1>29 DEF Update, Idle, Begin, Told, Frame, Begun, NoManifest
<1>30. CASE StartOrStop
  BY <1>30 DEF StartOrStop, Idle, Up, Down, Told, Frame
<1>31. CASE UninstallFails
  BY <1>31 DEF UninstallFails, Idle, Fault, PartlyDown, Told, Frame
<1>32. ASSUME NEW o \in {"install", "repair"}, InstallOrRepair(o) PROVE Adoption'
  BY <1>32 DEF InstallOrRepair, Idle, Begin, Told, Frame, Begun, Created, NoManifest
<1>33. ASSUME NEW deleteData \in BOOLEAN, Uninstall(deleteData) PROVE Adoption'
  BY <1>33 DEF Uninstall, Idle, Begin, Told, Frame, Down
<1> QED
  BY <1>1, <1>2, <1>3, <1>4, <1>5, <1>6, <1>7, <1>8, <1>9, <1>10, <1>11, <1>12, <1>13,
     <1>14, <1>15, <1>16, <1>17, <1>18, <1>19, <1>20, <1>21, <1>22, <1>23, <1>24, <1>25,
     <1>26, <1>27, <1>28, <1>29, <1>30, <1>31, <1>32, <1>33
     DEF Next, Host, Command, Operator

\* A backup is stamped later than all before it.
LEMMA BackupIsNewest ==
    ASSUME TypeOK, NewestKept, TakeBackup
    PROVE  NewestKept' /\ stamp' = stamp + 1
<1> DEFINE b == [at |-> stamp + 1, under |-> manifest.version]
<1>1. b \in backups' /\ stamp' = stamp + 1
  BY DEF TakeBackup
<1>2. b.at = stamp'
  BY <1>1
<1> QED
  BY <1>1, <1>2 DEF NewestKept

\* Migrations run after a backup, or need none; failing they change no more.
LEMMA MigrationKeepsNewest ==
    ASSUME TypeOK, NewestKept, MigrateSafe \/ MigrateFails
    PROVE  NewestKept' /\ stamp' >= stamp
<1>1. stamp \in Nat
  BY DEF TypeOK
<1>2. CASE TakeBackup
  BY <1>1, <1>2, BackupIsNewest
<1>3. CASE UNCHANGED <<backups, stamp>>
  BY <1>1, <1>3 DEF NewestKept
<1> QED
  BY <1>2, <1>3 DEF MigrateSafe, MigrateFails

\* The latest backup is the newest of all.
LEMMA LatestIsNewest ==
    ASSUME TypeOK, NewestKept, backups /= {}
    PROVE  Latest \in backups /\ Latest.at = stamp
<1>1. PICK b \in backups : b.at = stamp
  BY DEF NewestKept
<1>2. \A c \in backups : c.at <= stamp /\ c.at \in Nat
  BY DEF TypeOK, Backup
<1>3. \E d \in backups : \A c \in backups : c.at <= d.at
  BY <1>1, <1>2
<1>4. Latest \in backups /\ \A c \in backups : c.at <= Latest.at
  BY <1>3 DEF Latest
<1>5. stamp \in Nat
  BY DEF TypeOK
<1> QED
  BY <1>1, <1>2, <1>4, <1>5

\* From the switch on the target's containers are the only ones.
LEMMA HostingPreserved ==
    ASSUME TypeOK, Shape, Adoption, Hosting, [Next]_vars
    PROVE  Hosting'
<1>a. at \in Nat /\ at >= 1
  BY StepsOf DEF TypeOK
<1> USE <1>a
<1> USE DEF Shape, Adoption, Hosting, Reached, hostVars, dataVars, historyVars, commandVars
<1>1. CASE UNCHANGED vars
  BY <1>1 DEF vars
<1>2. CASE Boot
  BY <1>2 DEF Boot, Fault, MigrateSafe, MigrateFails, TakeBackup
<1>3. CASE NightlyBackup
  BY <1>3 DEF NightlyBackup, TakeBackup
<1>4. CASE Cleanup
  BY <1>4 DEF Cleanup
<1>5. CASE NewRelease
  BY <1>5 DEF NewRelease
<1>6. CASE Record
  <2>1. op /= "none"
    BY <1>6 DEF Record
  <2> QED
    BY <2>1, <1>6, RecordAdvances
<1>7. CASE RecordFails
  BY <1>7 DEF RecordFails, Fault, Goto, Done, Told, Frame
<1>8. CASE Mark
  BY <1>8 DEF Mark, Fault, Done, Frame, Failed
<1>9. CASE Kill
  BY <1>9 DEF Kill, Fault, Done, Told, Frame
<1>10. CASE PreflightRefuses
  BY <1>10 DEF PreflightRefuses, Idle, Fault, Told, Frame, Failed, NoManifest
<1>11. CASE NothingToResume
  BY <1>11 DEF NothingToResume, Done, Told, Frame, Recorded
<1>12. CASE StartServices
  BY <1>12 DEF StartServices, Up, PartlyUp, StepTaken, Goto, Fault, Told, Frame
<1>13. CASE NativeStep
  BY <1>13 DEF NativeStep, StepTaken, Goto, Fault, Told, Frame
<1>14. CASE BackUp
  BY <1>14, StepDone DEF BackUp, TakeBackup, StepTaken, Goto, Fault, FailsWhen, FailUnswitched,
     Told, Frame
<1>15. CASE Pull
  BY <1>15, StepDone DEF Pull, StepTaken, Goto, Fault, FailUnswitched, Told, Frame
<1>16. CASE Migrate
  BY <1>16, StepDone DEF Migrate, MigrateSafe, MigrateFails, TakeBackup, StepTaken, Goto, Fault, FailsWhen,
     FailUnswitched, Told, Frame
<1>17. CASE Switch
  <2>1. at = 5 /\ op = "update" /\ UNCHANGED <<op, at, to>>
    BY <1>17, StepDone DEF Switch, StepTaken, Goto
  <2>2. CASE Up(to) /\ phase' = "record"
    <3>1. running' = {to}
      BY <2>2 DEF Up
    <3> QED
      BY <2>1, <2>2, <3>1
  <2>3. CASE phase' = "stop"
    BY <2>1, <2>3
  <2> QED
    BY <1>17, <2>2, <2>3 DEF Switch, StepTaken, Goto
<1>18. CASE Probe
  BY <1>18, StepDone DEF Probe, Healthy, StepTaken, Goto, FailsWhen, Fault, Frame
<1>19. CASE CompleteUpdate
  BY <1>19 DEF CompleteUpdate, Done, Told, Goto, Fault, Frame, Updated, NoManifest
<1>20. CASE StopTarget
  BY <1>20 DEF StopTarget, Down, PartlyDown, Goto, Done, Told, Fault, Frame
<1>21. CASE RestartOld
  BY <1>21 DEF RestartOld, Up, PartlyUp, Goto, Done, Told, Fault, Frame
<1>22. CASE Rollback
  BY <1>22 DEF Rollback, Idle, Begin, Told, Frame, Begun, NoManifest
<1>23. CASE StopCurrent
  BY <1>23, StepDone DEF StopCurrent, Down, PartlyDown, Goto, Fault, Frame
<1>24. CASE StartPrevious
  <2>1. at = 2 /\ op = "rollback" /\ UNCHANGED <<op, at, to>>
    BY <1>24 DEF StartPrevious, StepTaken, Goto
  <2>2. CASE Up(to) /\ phase' = "record"
    <3>1. running' = {to}
      BY <2>2 DEF Up
    <3> QED
      BY <2>1, <2>2, <3>1
  <2>3. CASE phase' = "stop"
    BY <2>1, <2>3
  <2> QED
    BY <1>24, <2>2, <2>3 DEF StartPrevious, StepTaken, Goto
<1>25. CASE RestoreBackup
  BY <1>25, StepDone DEF RestoreBackup, StepTaken, Goto, FailsWhen, Fault, Told, Frame
<1>26. CASE ProbeRestored
  BY <1>26, StepDone DEF ProbeRestored, Healthy, StepTaken, Goto, FailsWhen, Fault, Told, Frame
<1>27. CASE CompleteRollback
  BY <1>27 DEF CompleteRollback, Done, Told, Fault, Frame, RolledBack, NoManifest
<1>28. CASE RemoveManifest
  BY <1>28 DEF RemoveManifest, Done, Told, Fault, Frame, NoManifest
<1>29. CASE Update
  BY <1>29 DEF Update, Idle, Begin, Told, Frame, Begun, NoManifest
<1>30. CASE StartOrStop
  BY <1>30 DEF StartOrStop, Idle, Up, Down, Told, Frame
<1>31. CASE UninstallFails
  BY <1>31 DEF UninstallFails, Idle, Fault, PartlyDown, Told, Frame
<1>32. ASSUME NEW o \in {"install", "repair"}, InstallOrRepair(o) PROVE Hosting'
  BY <1>32 DEF InstallOrRepair, Idle, Begin, Told, Frame, Begun, Created, NoManifest
<1>33. ASSUME NEW deleteData \in BOOLEAN, Uninstall(deleteData) PROVE Hosting'
  BY <1>33 DEF Uninstall, Idle, Begin, Told, Frame, Down
<1> QED
  BY <1>1, <1>2, <1>3, <1>4, <1>5, <1>6, <1>7, <1>8, <1>9, <1>10, <1>11, <1>12, <1>13,
     <1>14, <1>15, <1>16, <1>17, <1>18, <1>19, <1>20, <1>21, <1>22, <1>23, <1>24, <1>25,
     <1>26, <1>27, <1>28, <1>29, <1>30, <1>31, <1>32, <1>33
     DEF Next, Host, Command, Operator

\* The newest backup is there, and is the one a rollback restores.
LEMMA SavingPreserved ==
    ASSUME TypeOK, Shape, Saving, [Next]_vars
    PROVE  Saving'
<1>a. at \in Nat /\ at >= 1 /\ stamp \in Nat /\ own \in 0..stamp
  BY StepsOf DEF TypeOK
<1>b. \A b \in backups : b.at \in Nat /\ b.at <= stamp
  BY DEF TypeOK, Backup
<1>c. UNCHANGED <<backups, stamp>> => NewestKept'
  BY DEF Saving, NewestKept
<1> USE <1>a, <1>c
<1> USE DEF Shape, Saving, Reached, hostVars, dataVars, historyVars, commandVars
<1>1. CASE UNCHANGED vars
  BY <1>1 DEF vars
<1>2. CASE Boot
  BY <1>2, MigrationKeepsNewest DEF Boot
<1>3. CASE NightlyBackup
  BY <1>3, BackupIsNewest DEF NightlyBackup
<1>4. CASE Cleanup
  <2>1. PICK b \in backups, c \in backups : b.at < c.at /\ backups' = backups \ {b}
    BY <1>4 DEF Cleanup
  <2>2. stamp \in Nat /\ b.at \in Nat /\ c.at \in Nat /\ c.at <= stamp
    BY <1>b
  <2>3. UNCHANGED <<stamp, op, phase, at, own, restored>>
    BY <1>4 DEF Cleanup
  <2>4. PICK d \in backups : d.at = stamp
    BY <2>1 DEF NewestKept
  <2>5. d \in backups'
    BY <2>1, <2>2, <2>4
  <2> QED
    BY <2>3, <2>4, <2>5 DEF NewestKept
<1>5. CASE NewRelease
  BY <1>5 DEF NewRelease
<1>6. CASE Record
  <2>1. op /= "none"
    BY <1>6 DEF Record
  <2> QED
    BY <2>1, <1>6, RecordAdvances
<1>7. CASE RecordFails
  BY <1>7 DEF RecordFails, Fault, Goto, Done, Told, Frame
<1>8. CASE Mark
  BY <1>8 DEF Mark, Fault, Done, Frame, Failed
<1>9. CASE Kill
  BY <1>9 DEF Kill, Fault, Done, Told, Frame
<1>10. CASE PreflightRefuses
  BY <1>10 DEF PreflightRefuses, Idle, Fault, Told, Frame, Failed, NoManifest
<1>11. CASE NothingToResume
  BY <1>11 DEF NothingToResume, Done, Told, Frame, Recorded
<1>12. CASE StartServices
  BY <1>12 DEF StartServices, Up, PartlyUp, StepTaken, Goto, Fault, Told, Frame
<1>13. CASE NativeStep
  BY <1>13 DEF NativeStep, StepTaken, Goto, Fault, Told, Frame
<1>14. CASE BackUp
  BY <1>14, StepDone, BackupIsNewest DEF BackUp, StepTaken, Goto, FailUnswitched, Frame
<1>15. CASE Pull
  BY <1>15 DEF Pull, Doing, StepTaken, Goto, Fault, FailUnswitched, Told, Frame
<1>16. CASE Migrate
  BY <1>16, StepDone, MigrationKeepsNewest DEF Migrate, StepTaken, Goto, FailUnswitched, Frame
<1>17. CASE Switch
  BY <1>17 DEF Switch, Doing, Up, PartlyUp, StepTaken, Goto, Fault, Frame
<1>18. CASE Probe
  BY <1>18 DEF Probe, Doing, Healthy, StepTaken, Goto, FailsWhen, Fault, Frame
<1>19. CASE CompleteUpdate
  BY <1>19 DEF CompleteUpdate, Done, Told, Goto, Fault, Frame, Updated, NoManifest
<1>20. CASE StopTarget
  BY <1>20 DEF StopTarget, Down, PartlyDown, Goto, Done, Told, Fault, Frame
<1>21. CASE RestartOld
  BY <1>21 DEF RestartOld, Up, PartlyUp, Goto, Done, Told, Fault, Frame
<1>22. CASE Rollback
  BY <1>22 DEF Rollback, Idle, Begin, Told, Frame, Begun, NoManifest
<1>23. CASE StopCurrent
  BY <1>23, StepDone DEF StopCurrent, Down, PartlyDown, Goto, Fault, Frame
<1>24. CASE StartPrevious
  <2>1. at = 2 /\ UNCHANGED <<op, at, backups, stamp, own, restored>>
    BY <1>24 DEF StartPrevious, StepTaken, Goto
  <2>2. ~Reached(3)'
    BY <2>1
  <2> QED
    BY <2>1, <2>2
<1>25. CASE RestoreBackup
  <2>1. op = "rollback" /\ at = 3 /\ UNCHANGED <<op, at, backups, stamp, own>>
    BY <1>25, StepDone DEF RestoreBackup, StepTaken, Goto
  <2>2. CASE backups /= {} /\ restored' = Chosen
    <3>1. restored'.at >= own
      BY <2>2, LatestIsNewest DEF Chosen
    <3> QED
      BY <2>1, <3>1 DEF NewestKept
  <2>3. CASE phase' = "mark"
    BY <2>1, <2>3 DEF NewestKept
  <2> QED
    BY <1>25, <2>2, <2>3 DEF RestoreBackup, Goto
<1>26. CASE ProbeRestored
  BY <1>26, StepDone DEF ProbeRestored, Healthy, StepTaken, Goto, FailsWhen, Fault, Told, Frame
<1>27. CASE CompleteRollback
  BY <1>27 DEF CompleteRollback, Done, Told, Fault, Frame, RolledBack, NoManifest
<1>28. CASE RemoveManifest
  BY <1>28 DEF RemoveManifest, Done, Told, Fault, Frame, NoManifest
<1>29. CASE Update
  BY <1>29 DEF Update, Idle, Begin, Told, Frame, Begun, NoManifest
<1>30. CASE StartOrStop
  BY <1>30 DEF StartOrStop, Idle, Up, Down, Told, Frame
<1>31. CASE UninstallFails
  BY <1>31 DEF UninstallFails, Idle, Fault, PartlyDown, Told, Frame
<1>32. ASSUME NEW o \in {"install", "repair"}, InstallOrRepair(o) PROVE Saving'
  BY <1>32 DEF InstallOrRepair, Idle, Begin, Told, Frame, Begun, Created, NoManifest
<1>33. ASSUME NEW deleteData \in BOOLEAN, Uninstall(deleteData) PROVE Saving'
  BY <1>33 DEF Uninstall, Idle, Begin, Told, Frame, Down, NewestKept
<1> QED
  BY <1>1, <1>2, <1>3, <1>4, <1>5, <1>6, <1>7, <1>8, <1>9, <1>10, <1>11, <1>12, <1>13,
     <1>14, <1>15, <1>16, <1>17, <1>18, <1>19, <1>20, <1>21, <1>22, <1>23, <1>24, <1>25,
     <1>26, <1>27, <1>28, <1>29, <1>30, <1>31, <1>32, <1>33
     DEF Next, Host, Command, Operator

\* The parts of the type invariant.
HostTypes ==
    /\ mode \in {"docker", "native"} /\ descriptor \in Releases
    /\ running \subseteq Releases /\ fpm \in {0} \cup running /\ ready \in BOOLEAN

DataTypes ==
    /\ schema \in {0} \cup Releases /\ stamp \in 0..MaxBackups
    /\ backups \subseteq Backup /\ \A b \in backups : b.at <= stamp
    /\ own \in 0..stamp /\ restored \in Backup

CommandTypes ==
    /\ op \in Commands /\ phase \in Phases
    /\ from \in {0} \cup Releases /\ to \in {0} \cup Releases
    /\ told \in Reports /\ faults \in 0..MaxFaults /\ applied \subseteq Range

Located == at \in 1..Len(Steps)

\* They make up TypeOK.
LEMMA TypesApart ==
    TypeOK <=> HostTypes /\ DataTypes /\ CommandTypes /\ Located /\ manifest \in Manifests
  BY DEF TypeOK, HostTypes, DataTypes, CommandTypes, Located, Manifests

\* A command's steps are never none, whatever it does next.
LEMMA StepsAhead == Len(Steps') \in Nat \ {0}
<1>1. \/ Steps' = UPDATE_STEPS \/ Steps' = ROLLBACK_STEPS
      \/ Steps' = DOCKER_STEPS \/ Steps' = NativeSteps
  BY DEF Steps
<1>2. Len(UPDATE_STEPS) = 7 /\ Len(ROLLBACK_STEPS) = 4 /\ Len(DOCKER_STEPS) = 2
  BY DEF UPDATE_STEPS, ROLLBACK_STEPS, DOCKER_STEPS
<1>3. Len(NativeSteps) \in Nat \ {0}
  BY StepsAssumption
<1>4. CASE Steps' = UPDATE_STEPS
  BY <1>2, <1>4
<1>5. CASE Steps' = ROLLBACK_STEPS
  BY <1>2, <1>5
<1>6. CASE Steps' = DOCKER_STEPS
  <2>1. Len(Steps') = Len(DOCKER_STEPS)
    BY <1>6
  <2> QED
    BY <1>2, <2>1
<1>7. CASE Steps' = NativeSteps
  BY <1>3, <1>7
<1> QED
  BY <1>1, <1>4, <1>5, <1>6, <1>7

\* A resumed installation starts after the step that the manifest recorded last.
LEMMA ResumesAfterRecorded ==
    ASSUME NEW m, NEW v, NEW steps, Len(steps) \in Nat
    PROVE  /\ ResumeIndex(m, v, steps) \in 1..(Len(steps) + 1)
           /\ ResumeIndex(m, v, steps) > 1 => m.last = steps[ResumeIndex(m, v, steps) - 1]
<1> DEFINE done == {i \in 1..Len(steps) : steps[i] = m.last}
           i == CHOOSE i \in done : TRUE
<1>1. CASE m.version = v /\ m.status = "failed" /\ done /= {}
  <2>1. i \in done
    BY <1>1
  <2>2. ResumeIndex(m, v, steps) = i + 1
    BY <1>1 DEF ResumeIndex
  <2>3. i \in 1..Len(steps) /\ steps[i] = m.last
    BY <2>1
  <2> HIDE DEF i, done
  <2> QED
    BY <2>2, <2>3
<1>2. CASE ~(m.version = v /\ m.status = "failed" /\ done /= {})
  <2>1. ResumeIndex(m, v, steps) = 1
    BY <1>2 DEF ResumeIndex
  <2> QED
    BY <2>1
<1> QED
  BY <1>1, <1>2

\* Containers are of published releases.
LEMMA HostTypesPreserved ==
    ASSUME TypeOK, Shape, Adoption, [Next]_vars
    PROVE  HostTypes'
<1>a. HostTypes /\ manifest \in Manifests
  BY TypesApart
<1>b. op \notin {"none", "uninstall"} => to \in Releases
  BY DEF Adoption
<1>c. op \in {"update", "rollback"} => from \in Releases
  BY <1>a DEF Adoption, Manifests
<1>d. op \in Commands
  BY TypesApart DEF CommandTypes
<1> USE <1>a, <1>b, <1>c, <1>d DEF Commands
<1> USE DEF hostVars, dataVars, historyVars, commandVars, HostTypes, Shape
<1>1. CASE UNCHANGED vars
  BY <1>1 DEF vars
<1>2. CASE Boot
  BY <1>2 DEF Boot, Fault, MigrateSafe, MigrateFails, TakeBackup
<1>3. CASE NightlyBackup
  BY <1>3 DEF NightlyBackup, TakeBackup
<1>4. CASE Cleanup
  BY <1>4 DEF Cleanup
<1>5. CASE NewRelease
  BY <1>5 DEF NewRelease
<1>6. CASE Record
  BY <1>6 DEF Record, Advance, Goto, Done, Told, Frame
<1>7. CASE RecordFails
  BY <1>7 DEF RecordFails, Fault, Goto, Done, Told, Frame
<1>8. CASE Mark
  BY <1>8 DEF Mark, Fault, Done, Frame
<1>9. CASE Kill
  BY <1>9 DEF Kill, Fault, Done, Told, Frame
<1>10. CASE PreflightRefuses
  BY <1>10 DEF PreflightRefuses, Idle, Fault, Told, Frame
<1>11. CASE NothingToResume
  BY <1>11 DEF NothingToResume, Done, Told, Frame
<1>12. CASE StartServices
  BY <1>12 DEF StartServices, Up, PartlyUp, StepTaken, Goto, Fault, Told, Frame
<1>13. CASE NativeStep
  BY <1>13 DEF NativeStep, StepTaken, Goto, Fault, Told, Frame
<1>14. CASE BackUp
  BY <1>14 DEF BackUp, Doing, TakeBackup, StepTaken, Goto, Fault, FailsWhen, FailUnswitched,
     Told, Frame
<1>15. CASE Pull
  BY <1>15 DEF Pull, Doing, StepTaken, Goto, Fault, FailUnswitched, Told, Frame
<1>16. CASE Migrate
  BY <1>16 DEF Migrate, Doing, MigrateSafe, MigrateFails, TakeBackup, StepTaken, Goto, Fault, FailsWhen,
     FailUnswitched, Told, Frame
<1>17. CASE Switch
  BY <1>17 DEF Switch, Doing, Up, PartlyUp, StepTaken, Goto, Fault, Frame
<1>18. CASE Probe
  BY <1>18 DEF Probe, Doing, Healthy, StepTaken, Goto, FailsWhen, Fault, Frame
<1>19. CASE CompleteUpdate
  BY <1>19 DEF CompleteUpdate, Done, Told, Goto, Fault, Frame
<1>20. CASE StopTarget
  BY <1>20 DEF StopTarget, Down, PartlyDown, Goto, Done, Told, Fault, Frame
<1>21. CASE RestartOld
  BY <1>21 DEF RestartOld, Up, PartlyUp, Goto, Done, Told, Fault, Frame
<1>22. CASE Rollback
  BY <1>22 DEF Rollback, Idle, Begin, Told, Frame
<1>23. CASE StopCurrent
  BY <1>23 DEF StopCurrent, Doing, Down, PartlyDown, Goto, Fault, Frame
<1>24. CASE StartPrevious
  BY <1>24 DEF StartPrevious, Up, PartlyUp, StepTaken, Goto, Fault, Frame
<1>25. CASE RestoreBackup
  BY <1>25 DEF RestoreBackup, Doing, StepTaken, Goto, FailsWhen, Fault, Told, Frame
<1>26. CASE ProbeRestored
  BY <1>26 DEF ProbeRestored, Doing, Healthy, StepTaken, Goto, FailsWhen, Fault, Told, Frame
<1>27. CASE CompleteRollback
  BY <1>27 DEF CompleteRollback, Done, Told, Fault, Frame
<1>28. CASE RemoveManifest
  BY <1>28 DEF RemoveManifest, Done, Told, Fault, Frame
<1>29. CASE Update
  BY <1>29 DEF Update, Idle, Begin, Told, Frame
<1>30. CASE StartOrStop
  BY <1>30 DEF StartOrStop, Idle, Up, Down, Told, Frame
<1>31. CASE UninstallFails
  BY <1>31 DEF UninstallFails, Idle, Fault, PartlyDown, Told, Frame
<1>32. ASSUME NEW o \in {"install", "repair"}, InstallOrRepair(o) PROVE HostTypes'
  BY <1>32 DEF InstallOrRepair, Idle, Begin, Told, Frame, Begun, Created, NoManifest
<1>33. ASSUME NEW deleteData \in BOOLEAN, Uninstall(deleteData) PROVE HostTypes'
  BY <1>33 DEF Uninstall, Idle, Begin, Told, Frame, Down
<1> QED
  BY <1>1, <1>2, <1>3, <1>4, <1>5, <1>6, <1>7, <1>8, <1>9, <1>10, <1>11, <1>12, <1>13,
     <1>14, <1>15, <1>16, <1>17, <1>18, <1>19, <1>20, <1>21, <1>22, <1>23, <1>24, <1>25,
     <1>26, <1>27, <1>28, <1>29, <1>30, <1>31, <1>32, <1>33
     DEF Next, Host, Command, Operator

\* Backups are stamped in order, and an update's is one of them.
LEMMA DataTypesPreserved ==
    ASSUME TypeOK, Saving, [Next]_vars
    PROVE  DataTypes'
<1>a. DataTypes /\ HostTypes /\ manifest.version \in {0} \cup Releases
  BY TypesApart DEF Manifests
<1>b. MaxRelease \in Nat /\ MaxBackups \in Nat /\ stamp \in Nat /\ own \in Nat
  BY <1>a, ReleaseAssumption, BoundsAssumption DEF DataTypes
<1>c. ASSUME TakeBackup
      PROVE  /\ stamp' \in 0..MaxBackups /\ stamp' = stamp + 1
             /\ backups' \subseteq Backup /\ \A b \in backups' : b.at <= stamp'
  <2>1. stamp' = stamp + 1 /\ stamp < MaxBackups
        /\ backups' = backups \cup {[at |-> stamp + 1, under |-> manifest.version]}
    BY <1>c DEF TakeBackup
  <2>2. stamp' \in 0..MaxBackups
    BY <1>a, <1>b, <2>1
  <2>3. [at |-> stamp + 1, under |-> manifest.version] \in Backup
    BY <1>a, <2>1, <2>2 DEF Backup
  <2>4. ASSUME NEW b \in backups' PROVE b \in Backup /\ b.at <= stamp'
    <3>1. CASE b \in backups
      <4>1. b \in Backup /\ b.at <= stamp /\ b.at \in Nat
        BY <1>a, <3>1 DEF DataTypes, Backup
      <4> QED
        BY <1>b, <2>1, <4>1
    <3>2. CASE b = [at |-> stamp + 1, under |-> manifest.version]
      BY <1>b, <2>1, <2>3, <3>2
    <3> QED
      BY <2>1, <2>4, <3>1, <3>2
  <2> QED
    BY <1>b, <2>1, <2>2, <2>4
<1>d. ASSUME MigrateSafe \/ MigrateFails
      PROVE  /\ schema' \in {0} \cup Releases
             /\ stamp' \in 0..MaxBackups /\ stamp' >= stamp
             /\ backups' \subseteq Backup /\ \A b \in backups' : b.at <= stamp'
  <2>1. schema' \in {0} \cup Releases
    BY <1>a, <1>d DEF MigrateSafe, MigrateFails, HostTypes, DataTypes
  <2>2. CASE TakeBackup
    BY <1>b, <1>c, <2>1, <2>2
  <2>3. CASE UNCHANGED <<backups, stamp>>
    BY <1>a, <1>b, <2>1, <2>3 DEF DataTypes
  <2> QED
    BY <1>d, <2>2, <2>3 DEF MigrateSafe, MigrateFails
<1> USE <1>a, <1>b
<1> USE DEF hostVars, dataVars, historyVars, commandVars, DataTypes
<1>1. CASE UNCHANGED vars
  BY <1>1 DEF vars
<1>2. CASE Boot
  BY <1>2, <1>d DEF Boot
<1>3. CASE NightlyBackup
  BY <1>3, <1>c DEF NightlyBackup
<1>4. CASE Cleanup
  BY <1>4 DEF Cleanup
<1>5. CASE NewRelease
  BY <1>5 DEF NewRelease
<1>6. CASE Record
  BY <1>6 DEF Record, Advance, Goto, Done, Told, Frame
<1>7. CASE RecordFails
  BY <1>7 DEF RecordFails, Fault, Goto, Done, Told, Frame
<1>8. CASE Mark
  BY <1>8 DEF Mark, Fault, Done, Frame
<1>9. CASE Kill
  BY <1>9 DEF Kill, Fault, Done, Told, Frame
<1>10. CASE PreflightRefuses
  BY <1>10 DEF PreflightRefuses, Idle, Fault, Told, Frame
<1>11. CASE NothingToResume
  BY <1>11 DEF NothingToResume, Done, Told, Frame
<1>12. CASE StartServices
  BY <1>12 DEF StartServices, Up, PartlyUp, StepTaken, Goto, Fault, Told, Frame
<1>13. CASE NativeStep
  BY <1>13 DEF NativeStep, StepTaken, Goto, Fault, Told, Frame
<1>14. CASE BackUp
  <2>1. UNCHANGED <<schema, restored>>
    BY <1>14 DEF BackUp
  <2>2. CASE TakeBackup /\ own' = stamp + 1
    <3>1. own' \in 0..stamp'
      BY <1>c, <2>2
    <3> QED
      BY <1>c, <2>1, <2>2, <3>1
  <2>3. CASE UNCHANGED <<backups, stamp, own>>
    BY <2>1, <2>3
  <2> QED
    BY <1>14, <2>2, <2>3 DEF BackUp
<1>15. CASE Pull
  BY <1>15 DEF Pull, Doing, StepTaken, Goto, Fault, FailUnswitched, Told, Frame
<1>16. CASE Migrate
  BY <1>16, <1>d DEF Migrate, Frame
<1>17. CASE Switch
  BY <1>17 DEF Switch, Doing, Up, PartlyUp, StepTaken, Goto, Fault, Frame
<1>18. CASE Probe
  BY <1>18 DEF Probe, Doing, Healthy, StepTaken, Goto, FailsWhen, Fault, Frame
<1>19. CASE CompleteUpdate
  BY <1>19 DEF CompleteUpdate, Done, Told, Goto, Fault, Frame
<1>20. CASE StopTarget
  BY <1>20 DEF StopTarget, Down, PartlyDown, Goto, Done, Told, Fault, Frame
<1>21. CASE RestartOld
  BY <1>21 DEF RestartOld, Up, PartlyUp, Goto, Done, Told, Fault, Frame
<1>22. CASE Rollback
  BY <1>22 DEF Rollback, Idle, Begin, Told, Frame
<1>23. CASE StopCurrent
  BY <1>23 DEF StopCurrent, Doing, Down, PartlyDown, Goto, Fault, Frame
<1>24. CASE StartPrevious
  BY <1>24 DEF StartPrevious, Up, PartlyUp, StepTaken, Goto, Fault, Frame
<1>25. CASE RestoreBackup
  <2>1. backups /= {} => Chosen \in Backup
    BY <1>a, LatestIsNewest DEF Saving, Chosen
  <2> QED
    BY <1>25, <2>1 DEF RestoreBackup, Frame
<1>26. CASE ProbeRestored
  BY <1>26 DEF ProbeRestored, Doing, Healthy, StepTaken, Goto, FailsWhen, Fault, Told, Frame
<1>27. CASE CompleteRollback
  BY <1>27 DEF CompleteRollback, Done, Told, Fault, Frame
<1>28. CASE RemoveManifest
  BY <1>28 DEF RemoveManifest, Done, Told, Fault, Frame
<1>29. CASE Update
  BY <1>29 DEF Update, Idle, Begin, Told, Frame
<1>30. CASE StartOrStop
  BY <1>30 DEF StartOrStop, Idle, Up, Down, Told, Frame
<1>31. CASE UninstallFails
  BY <1>31 DEF UninstallFails, Idle, Fault, PartlyDown, Told, Frame
<1>32. ASSUME NEW o \in {"install", "repair"}, InstallOrRepair(o) PROVE DataTypes'
  BY <1>32 DEF InstallOrRepair, Idle, Begin, Told, Frame, Begun, Created, NoManifest
<1>33. ASSUME NEW deleteData \in BOOLEAN, Uninstall(deleteData) PROVE DataTypes'
  BY <1>33 DEF Uninstall, Idle, Begin, Told, Frame, Down
<1> QED
  BY <1>1, <1>2, <1>3, <1>4, <1>5, <1>6, <1>7, <1>8, <1>9, <1>10, <1>11, <1>12, <1>13,
     <1>14, <1>15, <1>16, <1>17, <1>18, <1>19, <1>20, <1>21, <1>22, <1>23, <1>24, <1>25,
     <1>26, <1>27, <1>28, <1>29, <1>30, <1>31, <1>32, <1>33
     DEF Next, Host, Command, Operator

\* A command's variables and what has been installed keep their types.
LEMMA CommandTypesPreserved ==
    ASSUME TypeOK, Shape, [Next]_vars
    PROVE  CommandTypes'
<1>a. CommandTypes /\ descriptor \in Releases /\ manifest \in Manifests
      /\ manifest.version \in {0} \cup Releases /\ manifest.previous \in {0} \cup Releases
  BY TypesApart DEF Manifests, HostTypes
<1>b. MaxFaults \in Nat
  BY BoundsAssumption
<1>c. op \in {"install", "repair"} /\ mode = "native" => Steps[at] \in Range
  BY TypesApart, InstallSteps DEF Located, Range
<1> USE <1>a, <1>b, <1>c DEF Commands, Phases, Reports
<1> USE DEF hostVars, dataVars, historyVars, commandVars, CommandTypes, Shape
<1>1. CASE UNCHANGED vars
  BY <1>1 DEF vars
<1>2. CASE Boot
  BY <1>2 DEF Boot, Fault, MigrateSafe, MigrateFails, TakeBackup
<1>3. CASE NightlyBackup
  BY <1>3 DEF NightlyBackup, TakeBackup
<1>4. CASE Cleanup
  BY <1>4 DEF Cleanup
<1>5. CASE NewRelease
  BY <1>5 DEF NewRelease
<1>6. CASE Record
  BY <1>6 DEF Record, Advance, Goto, Done, Told, Frame
<1>7. CASE RecordFails
  BY <1>7 DEF RecordFails, Fault, Goto, Done, Told, Frame
<1>8. CASE Mark
  BY <1>8 DEF Mark, Fault, Done, Frame
<1>9. CASE Kill
  BY <1>9 DEF Kill, Fault, Done, Told, Frame
<1>10. CASE PreflightRefuses
  BY <1>10 DEF PreflightRefuses, Idle, Fault, Told, Frame
<1>11. CASE NothingToResume
  BY <1>11 DEF NothingToResume, Done, Told, Frame
<1>12. CASE StartServices
  BY <1>12 DEF StartServices, Up, PartlyUp, StepTaken, Goto, Fault, Told, Frame
<1>13. CASE NativeStep
  BY <1>13 DEF NativeStep, StepTaken, Goto, Fault, Told, Frame
<1>14. CASE BackUp
  BY <1>14 DEF BackUp, Doing, TakeBackup, StepTaken, Goto, Fault, FailsWhen, FailUnswitched,
     Told, Frame
<1>15. CASE Pull
  BY <1>15 DEF Pull, Doing, StepTaken, Goto, Fault, FailUnswitched, Told, Frame
<1>16. CASE Migrate
  BY <1>16 DEF Migrate, Doing, MigrateSafe, MigrateFails, TakeBackup, StepTaken, Goto, Fault, FailsWhen,
     FailUnswitched, Told, Frame
<1>17. CASE Switch
  BY <1>17 DEF Switch, Doing, Up, PartlyUp, StepTaken, Goto, Fault, Frame
<1>18. CASE Probe
  BY <1>18 DEF Probe, Doing, Healthy, StepTaken, Goto, FailsWhen, Fault, Frame
<1>19. CASE CompleteUpdate
  BY <1>19 DEF CompleteUpdate, Done, Told, Goto, Fault, Frame
<1>20. CASE StopTarget
  BY <1>20 DEF StopTarget, Down, PartlyDown, Goto, Done, Told, Fault, Frame
<1>21. CASE RestartOld
  BY <1>21 DEF RestartOld, Up, PartlyUp, Goto, Done, Told, Fault, Frame
<1>22. CASE Rollback
  BY <1>22 DEF Rollback, Idle, Begin, Told, Frame
<1>23. CASE StopCurrent
  BY <1>23 DEF StopCurrent, Doing, Down, PartlyDown, Goto, Fault, Frame
<1>24. CASE StartPrevious
  BY <1>24 DEF StartPrevious, Up, PartlyUp, StepTaken, Goto, Fault, Frame
<1>25. CASE RestoreBackup
  BY <1>25 DEF RestoreBackup, Doing, StepTaken, Goto, FailsWhen, Fault, Told, Frame
<1>26. CASE ProbeRestored
  BY <1>26 DEF ProbeRestored, Doing, Healthy, StepTaken, Goto, FailsWhen, Fault, Told, Frame
<1>27. CASE CompleteRollback
  BY <1>27 DEF CompleteRollback, Done, Told, Fault, Frame
<1>28. CASE RemoveManifest
  BY <1>28 DEF RemoveManifest, Done, Told, Fault, Frame
<1>29. CASE Update
  BY <1>29 DEF Update, Idle, Begin, Told, Frame
<1>30. CASE StartOrStop
  BY <1>30 DEF StartOrStop, Idle, Up, Down, Told, Frame
<1>31. CASE UninstallFails
  BY <1>31 DEF UninstallFails, Idle, Fault, PartlyDown, Told, Frame
<1>32. ASSUME NEW o \in {"install", "repair"}, InstallOrRepair(o) PROVE CommandTypes'
  BY <1>32 DEF InstallOrRepair, Idle, Begin, Told, Frame, Begun, Created, NoManifest
<1>33. ASSUME NEW deleteData \in BOOLEAN, Uninstall(deleteData) PROVE CommandTypes'
  BY <1>33 DEF Uninstall, Idle, Begin, Told, Frame, Down
<1> QED
  BY <1>1, <1>2, <1>3, <1>4, <1>5, <1>6, <1>7, <1>8, <1>9, <1>10, <1>11, <1>12, <1>13,
     <1>14, <1>15, <1>16, <1>17, <1>18, <1>19, <1>20, <1>21, <1>22, <1>23, <1>24, <1>25,
     <1>26, <1>27, <1>28, <1>29, <1>30, <1>31, <1>32, <1>33
     DEF Next, Host, Command, Operator

\* The step under way is one of the command's.
LEMMA LocatedPreserved ==
    ASSUME TypeOK, Shape, [Next]_vars
    PROVE  Located'
<1>a. Located /\ at \in Nat
  BY TypesApart, StepsOf DEF Located
<1>b. UNCHANGED <<op, mode>> => Steps' = Steps
  BY DEF Steps
<1>s. UNCHANGED <<op, mode, at>> \/ at' = 1 => Located'
  BY <1>a, <1>b, StepsAhead DEF Located
<1> USE DEF hostVars, dataVars, historyVars, commandVars
<1>1. CASE UNCHANGED vars
  BY <1>1, <1>s DEF vars
<1>2. CASE Boot
  BY <1>2, <1>s DEF Boot, Fault, MigrateSafe, MigrateFails, TakeBackup
<1>3. CASE NightlyBackup
  BY <1>3, <1>s DEF NightlyBackup, TakeBackup
<1>4. CASE Cleanup
  BY <1>4, <1>s DEF Cleanup
<1>5. CASE NewRelease
  BY <1>5, <1>s DEF NewRelease
<1>6. CASE Record
  <2>1. op /= "none" /\ UNCHANGED mode
    BY <1>6 DEF Record, Frame
  <2>2. CASE op \in {"update", "rollback"}
    <3>1. UNCHANGED op
      BY <1>6, <2>2, RecordAdvances
    <3>2. Steps' = Steps
      BY <1>b, <2>1, <3>1
    <3>3. at' \in 1..Len(Steps)
      BY <1>a, <1>6, <2>2, RecordAdvances, UpdateSteps, RollbackSteps DEF Located
    <3> QED
      BY <3>2, <3>3 DEF Located
  <2>3. CASE op \notin {"update", "rollback"} /\ op' = op
    <3>1. Steps' = Steps
      BY <2>1, <2>3 DEF Steps
    <3> QED
      BY <1>a, <1>6, <1>s, <2>1, <2>3, <3>1, StepsOf, RecordAdvances DEF Located
  <2>4. CASE op' = "none"
    BY <1>6, <1>s, <2>1, <2>4, RecordAdvances
  <2> QED
    BY <1>6, <2>2, <2>3, <2>4, RecordAdvances
<1>7. CASE RecordFails
  BY <1>7, <1>s DEF RecordFails, Fault, Goto, Done, Told, Frame
<1>8. CASE Mark
  BY <1>8, <1>s DEF Mark, Fault, Done, Frame
<1>9. CASE Kill
  BY <1>9, <1>s DEF Kill, Fault, Done, Told, Frame
<1>10. CASE PreflightRefuses
  BY <1>10, <1>s DEF PreflightRefuses, Idle, Fault, Told, Frame
<1>11. CASE NothingToResume
  BY <1>11, <1>s DEF NothingToResume, Done, Told, Frame
<1>12. CASE StartServices
  BY <1>12, <1>s DEF StartServices, Up, PartlyUp, StepTaken, Goto, Fault, Told, Frame
<1>13. CASE NativeStep
  BY <1>13, <1>s DEF NativeStep, StepTaken, Goto, Fault, Told, Frame
<1>14. CASE BackUp
  BY <1>14, <1>s DEF BackUp, Doing, TakeBackup, StepTaken, Goto, Fault, FailsWhen,
     FailUnswitched, Told, Frame
<1>15. CASE Pull
  BY <1>15, <1>s DEF Pull, Doing, StepTaken, Goto, Fault, FailUnswitched, Told, Frame
<1>16. CASE Migrate
  BY <1>16, <1>s DEF Migrate, Doing, MigrateSafe, MigrateFails, TakeBackup, StepTaken, Goto, Fault, FailsWhen,
     FailUnswitched, Told, Frame
<1>17. CASE Switch
  BY <1>17, <1>s DEF Switch, Doing, Up, PartlyUp, StepTaken, Goto, Fault, Frame
<1>18. CASE Probe
  BY <1>18, <1>s DEF Probe, Doing, Healthy, StepTaken, Goto, FailsWhen, Fault, Frame
<1>19. CASE CompleteUpdate
  BY <1>19, <1>s DEF CompleteUpdate, Done, Told, Goto, Fault, Frame
<1>20. CASE StopTarget
  BY <1>20, <1>s DEF StopTarget, Down, PartlyDown, Goto, Done, Told, Fault, Frame
<1>21. CASE RestartOld
  BY <1>21, <1>s DEF RestartOld, Up, PartlyUp, Goto, Done, Told, Fault, Frame
<1>22. CASE Rollback
  BY <1>22, <1>s DEF Rollback, Idle, Begin, Told, Frame
<1>23. CASE StopCurrent
  BY <1>23, <1>s DEF StopCurrent, Doing, Down, PartlyDown, Goto, Fault, Frame
<1>24. CASE StartPrevious
  BY <1>24, <1>s DEF StartPrevious, Up, PartlyUp, StepTaken, Goto, Fault, Frame
<1>25. CASE RestoreBackup
  BY <1>25, <1>s DEF RestoreBackup, Doing, StepTaken, Goto, FailsWhen, Fault, Told, Frame
<1>26. CASE ProbeRestored
  BY <1>26, <1>s DEF ProbeRestored, Doing, Healthy, StepTaken, Goto, FailsWhen, Fault, Told,
     Frame
<1>27. CASE CompleteRollback
  BY <1>27, <1>s DEF CompleteRollback, Done, Told, Fault, Frame
<1>28. CASE RemoveManifest
  BY <1>28, <1>s DEF RemoveManifest, Done, Told, Fault, Frame
<1>29. CASE Update
  BY <1>29, <1>s DEF Update, Idle, Begin, Told, Frame
<1>30. CASE StartOrStop
  BY <1>30, <1>s DEF StartOrStop, Idle, Up, Down, Told, Frame
<1>31. CASE UninstallFails
  BY <1>31, <1>s DEF UninstallFails, Idle, Fault, PartlyDown, Told, Frame
<1>32. ASSUME NEW o \in {"install", "repair"}, InstallOrRepair(o) PROVE Located'
  <2>1. op' = o /\ mode' = mode
    BY <1>32 DEF InstallOrRepair, Begin, Frame
  <2> DEFINE first == ResumeIndex(manifest, descriptor, NativeSteps)
  <2>2. CASE mode = "docker"
    <3>1. at' = 2 /\ Steps' = DOCKER_STEPS /\ Len(DOCKER_STEPS) = 2
      BY <1>32, <2>1, <2>2 DEF InstallOrRepair, Begin, Steps, DOCKER_STEPS
    <3> QED
      BY <3>1 DEF Located
  <2>3. CASE mode /= "docker"
    <3>1. /\ at' = IF first > Len(NativeSteps) THEN Len(NativeSteps) ELSE first
          /\ Steps' = NativeSteps
      BY <1>32, <2>1, <2>3 DEF InstallOrRepair, Begin, Steps
    <3>2. Len(NativeSteps) \in Nat \ {0}
      BY StepsAssumption
    <3>3. first \in 1..(Len(NativeSteps) + 1)
      BY <3>2, ResumesAfterRecorded
    <3> HIDE DEF first
    <3> QED
      BY <3>1, <3>2, <3>3 DEF Located
  <2> QED
    BY <2>2, <2>3
<1>33. ASSUME NEW deleteData \in BOOLEAN, Uninstall(deleteData) PROVE Located'
  BY <1>33, <1>s DEF Uninstall, Begin
<1> QED
  BY <1>1, <1>2, <1>3, <1>4, <1>5, <1>6, <1>7, <1>8, <1>9, <1>10, <1>11, <1>12, <1>13,
     <1>14, <1>15, <1>16, <1>17, <1>18, <1>19, <1>20, <1>21, <1>22, <1>23, <1>24, <1>25,
     <1>26, <1>27, <1>28, <1>29, <1>30, <1>31, <1>32, <1>33
     DEF Next, Host, Command, Operator

\* Every write leaves a manifest.
LEMMA ManifestPreserved ==
    ASSUME TypeOK, Shape, Adoption, [Next]_vars
    PROVE  (manifest \in Manifests)'
<1>a. manifest \in Manifests /\ descriptor \in Releases
  BY TypesApart DEF HostTypes
<1>b. Steps[at] \in StepNames
  BY TypesApart, StepsOf DEF Located
<1>c. /\ "role-smoke-verified" \in StepNames /\ "health-verified" \in StepNames
      /\ "update" \in OperationTypes /\ "rollback" \in OperationTypes /\ 1 \in Releases
  <2>1. UPDATE_STEPS[7] = "role-smoke-verified" /\ UPDATE_STEPS[6] = "health-verified"
    BY DEF UPDATE_STEPS
  <2>2. 1 \in Releases
    BY ReleaseAssumption DEF Releases
  <2> QED
    BY <2>1, <2>2 DEF StepNames, OperationTypes
<1> USE <1>a
<1> USE DEF hostVars, dataVars, historyVars, commandVars
<1>1. CASE UNCHANGED vars
  BY <1>1 DEF vars
<1>2. CASE Boot
  BY <1>2 DEF Boot, Fault, MigrateSafe, MigrateFails, TakeBackup
<1>3. CASE NightlyBackup
  BY <1>3 DEF NightlyBackup, TakeBackup
<1>4. CASE Cleanup
  BY <1>4 DEF Cleanup
<1>5. CASE NewRelease
  BY <1>5 DEF NewRelease
<1>6. CASE Record
  BY <1>6, <1>a, <1>b, RecordedWrites DEF Record
<1>7. CASE RecordFails
  BY <1>7 DEF RecordFails, Fault, Goto, Done, Told, Frame
<1>8. CASE Mark
  BY <1>8, <1>a, FailedWrites DEF Mark
<1>9. CASE Kill
  BY <1>9 DEF Kill, Fault, Done, Told, Frame
<1>10. CASE PreflightRefuses
  BY <1>10, <1>a, FailedWrites DEF PreflightRefuses
<1>11. CASE NothingToResume
  BY <1>11, <1>a, <1>b, RecordedWrites DEF NothingToResume
<1>12. CASE StartServices
  BY <1>12 DEF StartServices, Up, PartlyUp, StepTaken, Goto, Fault, Told, Frame
<1>13. CASE NativeStep
  BY <1>13 DEF NativeStep, StepTaken, Goto, Fault, Told, Frame
<1>14. CASE BackUp
  BY <1>14 DEF BackUp, Doing, TakeBackup, StepTaken, Goto, Fault, FailsWhen, FailUnswitched,
     Told, Frame
<1>15. CASE Pull
  BY <1>15 DEF Pull, Doing, StepTaken, Goto, Fault, FailUnswitched, Told, Frame
<1>16. CASE Migrate
  BY <1>16 DEF Migrate, Doing, MigrateSafe, MigrateFails, TakeBackup, StepTaken, Goto, Fault, FailsWhen,
     FailUnswitched, Told, Frame
<1>17. CASE Switch
  BY <1>17 DEF Switch, Doing, Up, PartlyUp, StepTaken, Goto, Fault, Frame
<1>18. CASE Probe
  BY <1>18 DEF Probe, Doing, Healthy, StepTaken, Goto, FailsWhen, Fault, Frame
<1>19. CASE CompleteUpdate
  <2>1. to \in Releases
    BY <1>19 DEF CompleteUpdate, Adoption
  <2>2. Updated(manifest, to, "role-smoke-verified") \in Manifests
    BY <1>c, <2>1, CompletionWrites
  <2> QED
    BY <1>19, <2>2 DEF CompleteUpdate
<1>20. CASE StopTarget
  BY <1>20 DEF StopTarget, Down, PartlyDown, Goto, Done, Told, Fault, Frame
<1>21. CASE RestartOld
  BY <1>21 DEF RestartOld, Up, PartlyUp, Goto, Done, Told, Fault, Frame
<1>22. CASE Rollback
  BY <1>22, <1>a, <1>c, BegunWrites DEF Rollback
<1>23. CASE StopCurrent
  BY <1>23 DEF StopCurrent, Doing, Down, PartlyDown, Goto, Fault, Frame
<1>24. CASE StartPrevious
  BY <1>24 DEF StartPrevious, Up, PartlyUp, StepTaken, Goto, Fault, Frame
<1>25. CASE RestoreBackup
  BY <1>25 DEF RestoreBackup, Doing, StepTaken, Goto, FailsWhen, Fault, Told, Frame
<1>26. CASE ProbeRestored
  BY <1>26 DEF ProbeRestored, Doing, Healthy, StepTaken, Goto, FailsWhen, Fault, Told, Frame
<1>27. CASE CompleteRollback
  BY <1>27, <1>a, <1>c, CompletionWrites DEF CompleteRollback
<1>28. CASE RemoveManifest
  BY <1>28, <1>a, NothingWritten DEF RemoveManifest
<1>29. CASE Update
  BY <1>29, <1>a, <1>c, BegunWrites DEF Update
<1>30. CASE StartOrStop
  BY <1>30 DEF StartOrStop, Idle, Up, Down, Told, Frame
<1>31. CASE UninstallFails
  BY <1>31 DEF UninstallFails, Idle, Fault, PartlyDown, Told, Frame
<1>32. ASSUME NEW o \in {"install", "repair"}, InstallOrRepair(o) PROVE (manifest \in Manifests)'
  <2>1. Created(manifest, descriptor) \in Manifests
    BY <1>a, CreatedWrites
  <2>2. o \in OperationTypes
    BY DEF OperationTypes
  <2> QED
    BY <1>32, <2>1, <2>2, BegunWrites DEF InstallOrRepair
<1>33. ASSUME NEW deleteData \in BOOLEAN, Uninstall(deleteData) PROVE (manifest \in Manifests)'
  BY <1>33 DEF Uninstall, Idle, Begin, Told, Frame, Down
<1> QED
  BY <1>1, <1>2, <1>3, <1>4, <1>5, <1>6, <1>7, <1>8, <1>9, <1>10, <1>11, <1>12, <1>13,
     <1>14, <1>15, <1>16, <1>17, <1>18, <1>19, <1>20, <1>21, <1>22, <1>23, <1>24, <1>25,
     <1>26, <1>27, <1>28, <1>29, <1>30, <1>31, <1>32, <1>33
     DEF Next, Host, Command, Operator

\* A container becomes ready by migrating, and the schema never goes back under one.
LEMMA ReadyPreserved ==
    ASSUME TypeOK, ReadyIsMigrated, [Next]_vars
    PROVE  ReadyIsMigrated'
<1>a. fpm \in Nat /\ schema \in Nat
  BY ReleaseAssumption DEF TypeOK, Releases
<1> USE <1>a
<1> USE DEF hostVars, dataVars, historyVars, commandVars, ReadyIsMigrated
<1>1. CASE UNCHANGED vars
  BY <1>1 DEF vars
<1>2. CASE Boot
  <2>1. CASE MigrateSafe /\ ready' = TRUE /\ fpm' = fpm
    BY <1>2, <2>1 DEF Boot, MigrateSafe
  <2>2. CASE ready' = ready
    BY <1>2, <2>2 DEF Boot
  <2> QED
    BY <1>2, <2>1, <2>2 DEF Boot
<1>3. CASE NightlyBackup
  BY <1>3 DEF NightlyBackup, TakeBackup
<1>4. CASE Cleanup
  BY <1>4 DEF Cleanup
<1>5. CASE NewRelease
  BY <1>5 DEF NewRelease
<1>6. CASE Record
  BY <1>6 DEF Record, Advance, Goto, Done, Told, Frame, Recorded
<1>7. CASE RecordFails
  BY <1>7 DEF RecordFails, Fault, Goto, Done, Told, Frame
<1>8. CASE Mark
  BY <1>8 DEF Mark, Fault, Done, Frame, Failed
<1>9. CASE Kill
  BY <1>9 DEF Kill, Fault, Done, Told, Frame
<1>10. CASE PreflightRefuses
  BY <1>10 DEF PreflightRefuses, Idle, Fault, Told, Frame, Failed, NoManifest
<1>11. CASE NothingToResume
  BY <1>11 DEF NothingToResume, Done, Told, Frame, Recorded
<1>12. CASE StartServices
  BY <1>12 DEF StartServices, Up, PartlyUp, StepTaken, Goto, Fault, Told, Frame
<1>13. CASE NativeStep
  BY <1>13 DEF NativeStep, StepTaken, Goto, Fault, Told, Frame
<1>14. CASE BackUp
  BY <1>14 DEF BackUp, Doing, TakeBackup, StepTaken, Goto, Fault, FailsWhen, FailUnswitched,
     Told, Frame
<1>15. CASE Pull
  BY <1>15 DEF Pull, Doing, StepTaken, Goto, Fault, FailUnswitched, Told, Frame
<1>16. CASE Migrate
  BY <1>16 DEF Migrate, Doing, MigrateSafe, MigrateFails, TakeBackup, StepTaken, Goto, Fault, FailsWhen,
     FailUnswitched, Told, Frame
<1>17. CASE Switch
  BY <1>17 DEF Switch, Doing, Up, PartlyUp, StepTaken, Goto, Fault, Frame
<1>18. CASE Probe
  BY <1>18 DEF Probe, Doing, Healthy, StepTaken, Goto, FailsWhen, Fault, Frame
<1>19. CASE CompleteUpdate
  BY <1>19 DEF CompleteUpdate, Done, Told, Goto, Fault, Frame, Updated, NoManifest
<1>20. CASE StopTarget
  BY <1>20 DEF StopTarget, Down, PartlyDown, Goto, Done, Told, Fault, Frame
<1>21. CASE RestartOld
  BY <1>21 DEF RestartOld, Up, PartlyUp, Goto, Done, Told, Fault, Frame
<1>22. CASE Rollback
  BY <1>22 DEF Rollback, Idle, Begin, Told, Frame, Begun, NoManifest
<1>23. CASE StopCurrent
  BY <1>23 DEF StopCurrent, Doing, Down, PartlyDown, Goto, Fault, Frame
<1>24. CASE StartPrevious
  BY <1>24 DEF StartPrevious, Up, PartlyUp, StepTaken, Goto, Fault, Frame
<1>25. CASE RestoreBackup
  BY <1>25 DEF RestoreBackup, Doing, StepTaken, Goto, FailsWhen, Fault, Told, Frame
<1>26. CASE ProbeRestored
  BY <1>26 DEF ProbeRestored, Doing, Healthy, StepTaken, Goto, FailsWhen, Fault, Told, Frame
<1>27. CASE CompleteRollback
  BY <1>27 DEF CompleteRollback, Done, Told, Fault, Frame, RolledBack, NoManifest
<1>28. CASE RemoveManifest
  BY <1>28 DEF RemoveManifest, Done, Told, Fault, Frame, NoManifest
<1>29. CASE Update
  BY <1>29 DEF Update, Idle, Begin, Told, Frame, Begun, NoManifest
<1>30. CASE StartOrStop
  BY <1>30 DEF StartOrStop, Idle, Up, Down, Told, Frame
<1>31. CASE UninstallFails
  BY <1>31 DEF UninstallFails, Idle, Fault, PartlyDown, Told, Frame
<1>32. ASSUME NEW o \in {"install", "repair"}, InstallOrRepair(o) PROVE ReadyIsMigrated'
  BY <1>32 DEF InstallOrRepair, Idle, Begin, Told, Frame, Begun, Created, NoManifest
<1>33. ASSUME NEW deleteData \in BOOLEAN, Uninstall(deleteData) PROVE ReadyIsMigrated'
  BY <1>33 DEF Uninstall, Idle, Begin, Told, Frame, Down
<1> QED
  BY <1>1, <1>2, <1>3, <1>4, <1>5, <1>6, <1>7, <1>8, <1>9, <1>10, <1>11, <1>12, <1>13,
     <1>14, <1>15, <1>16, <1>17, <1>18, <1>19, <1>20, <1>21, <1>22, <1>23, <1>24, <1>25,
     <1>26, <1>27, <1>28, <1>29, <1>30, <1>31, <1>32, <1>33
     DEF Next, Host, Command, Operator

\* A report of success is made on the release that runs.
LEMMA ReportedPreserved ==
    ASSUME TypeOK, Shape, Adoption, Hosting, ReportedReleaseRuns, [Next]_vars
    PROVE  ReportedReleaseRuns'
<1>a. manifest \in Manifests
  BY TypesApart
<1>b. op \in Commands
  BY TypesApart DEF CommandTypes
<1> USE <1>a, <1>b DEF Commands
<1> USE DEF hostVars, dataVars, historyVars, commandVars, Shape, Adoption, Hosting,
            ReportedReleaseRuns, Reached
<1>1. CASE UNCHANGED vars
  BY <1>1 DEF vars
<1>2. CASE Boot
  BY <1>2 DEF Boot, Fault, MigrateSafe, MigrateFails, TakeBackup
<1>3. CASE NightlyBackup
  BY <1>3 DEF NightlyBackup, TakeBackup
<1>4. CASE Cleanup
  BY <1>4 DEF Cleanup
<1>5. CASE NewRelease
  BY <1>5 DEF NewRelease
<1>6. CASE Record
  BY <1>6 DEF Record, Advance, Goto, Done, Told, Frame, Recorded
<1>7. CASE RecordFails
  BY <1>7 DEF RecordFails, Fault, Goto, Done, Told, Frame
<1>8. CASE Mark
  BY <1>8, FailedWrites DEF Mark, Done, Frame
<1>9. CASE Kill
  BY <1>9 DEF Kill, Fault, Done, Told, Frame
<1>10. CASE PreflightRefuses
  BY <1>10 DEF PreflightRefuses, Idle, Fault, Told, Frame, Failed, NoManifest
<1>11. CASE NothingToResume
  BY <1>11 DEF NothingToResume, Done, Told, Frame, Recorded
<1>12. CASE StartServices
  BY <1>12 DEF StartServices, Up, PartlyUp, StepTaken, Goto, Fault, Told, Frame
<1>13. CASE NativeStep
  BY <1>13 DEF NativeStep, StepTaken, Goto, Fault, Told, Frame
<1>14. CASE BackUp
  BY <1>14 DEF BackUp, Doing, TakeBackup, StepTaken, Goto, Fault, FailsWhen, FailUnswitched,
     Told, Frame
<1>15. CASE Pull
  BY <1>15 DEF Pull, Doing, StepTaken, Goto, Fault, FailUnswitched, Told, Frame
<1>16. CASE Migrate
  BY <1>16 DEF Migrate, Doing, MigrateSafe, MigrateFails, TakeBackup, StepTaken, Goto, Fault, FailsWhen,
     FailUnswitched, Told, Frame
<1>17. CASE Switch
  BY <1>17 DEF Switch, Doing, Up, PartlyUp, StepTaken, Goto, Fault, Frame
<1>18. CASE Probe
  BY <1>18 DEF Probe, Doing, Healthy, StepTaken, Goto, FailsWhen, Fault, Frame
<1>19. CASE CompleteUpdate
  BY <1>19 DEF CompleteUpdate, Done, Told, Goto, Fault, Frame, Updated, NoManifest
<1>20. CASE StopTarget
  BY <1>20 DEF StopTarget, Down, PartlyDown, Goto, Done, Told, Fault, Frame
<1>21. CASE RestartOld
  BY <1>21 DEF RestartOld, Up, PartlyUp, Goto, Done, Told, Fault, Frame
<1>22. CASE Rollback
  BY <1>22 DEF Rollback, Idle, Begin, Told, Frame, Begun, NoManifest
<1>23. CASE StopCurrent
  BY <1>23 DEF StopCurrent, Doing, Down, PartlyDown, Goto, Fault, Frame
<1>24. CASE StartPrevious
  BY <1>24 DEF StartPrevious, Up, PartlyUp, StepTaken, Goto, Fault, Frame
<1>25. CASE RestoreBackup
  BY <1>25 DEF RestoreBackup, Doing, StepTaken, Goto, FailsWhen, Fault, Told, Frame
<1>26. CASE ProbeRestored
  BY <1>26 DEF ProbeRestored, Doing, Healthy, StepTaken, Goto, FailsWhen, Fault, Told, Frame
<1>27. CASE CompleteRollback
  BY <1>27 DEF CompleteRollback, Done, Told, Fault, Frame, RolledBack, NoManifest
<1>28. CASE RemoveManifest
  BY <1>28 DEF RemoveManifest, Done, Told, Fault, Frame, NoManifest
<1>29. CASE Update
  BY <1>29 DEF Update, Idle, Begin, Told, Frame, Begun, NoManifest
<1>30. CASE StartOrStop
  BY <1>30 DEF StartOrStop, Idle, Up, Down, Told, Frame
<1>31. CASE UninstallFails
  BY <1>31 DEF UninstallFails, Idle, Fault, PartlyDown, Told, Frame
<1>32. ASSUME NEW o \in {"install", "repair"}, InstallOrRepair(o) PROVE ReportedReleaseRuns'
  BY <1>32 DEF InstallOrRepair, Idle, Begin, Told, Frame, Begun, Created, NoManifest
<1>33. ASSUME NEW deleteData \in BOOLEAN, Uninstall(deleteData) PROVE ReportedReleaseRuns'
  BY <1>33 DEF Uninstall, Idle, Begin, Told, Frame, Down
<1> QED
  BY <1>1, <1>2, <1>3, <1>4, <1>5, <1>6, <1>7, <1>8, <1>9, <1>10, <1>11, <1>12, <1>13,
     <1>14, <1>15, <1>16, <1>17, <1>18, <1>19, <1>20, <1>21, <1>22, <1>23, <1>24, <1>25,
     <1>26, <1>27, <1>28, <1>29, <1>30, <1>31, <1>32, <1>33
     DEF Next, Host, Command, Operator

\* The backup restored is the newest, so not older than the update's.
LEMMA LossPreserved ==
    ASSUME TypeOK, Shape, Saving, RollbackLosesNoMore, [Next]_vars
    PROVE  RollbackLosesNoMore'
<1> USE DEF hostVars, dataVars, historyVars, commandVars, Shape, Saving, RollbackLosesNoMore,
            Reached
<1>1. CASE UNCHANGED vars
  BY <1>1 DEF vars
<1>2. CASE Boot
  BY <1>2 DEF Boot, Fault, MigrateSafe, MigrateFails, TakeBackup
<1>3. CASE NightlyBackup
  BY <1>3 DEF NightlyBackup, TakeBackup
<1>4. CASE Cleanup
  BY <1>4 DEF Cleanup
<1>5. CASE NewRelease
  BY <1>5 DEF NewRelease
<1>6. CASE Record
  BY <1>6 DEF Record, Advance, Goto, Done, Told, Frame, Recorded
<1>7. CASE RecordFails
  BY <1>7 DEF RecordFails, Fault, Goto, Done, Told, Frame
<1>8. CASE Mark
  BY <1>8 DEF Mark, Fault, Done, Frame, Failed
<1>9. CASE Kill
  BY <1>9 DEF Kill, Fault, Done, Told, Frame
<1>10. CASE PreflightRefuses
  BY <1>10 DEF PreflightRefuses, Idle, Fault, Told, Frame, Failed, NoManifest
<1>11. CASE NothingToResume
  BY <1>11 DEF NothingToResume, Done, Told, Frame, Recorded
<1>12. CASE StartServices
  BY <1>12 DEF StartServices, Up, PartlyUp, StepTaken, Goto, Fault, Told, Frame
<1>13. CASE NativeStep
  BY <1>13 DEF NativeStep, StepTaken, Goto, Fault, Told, Frame
<1>14. CASE BackUp
  BY <1>14 DEF BackUp, Doing, TakeBackup, StepTaken, Goto, Fault, FailsWhen, FailUnswitched,
     Told, Frame
<1>15. CASE Pull
  BY <1>15 DEF Pull, Doing, StepTaken, Goto, Fault, FailUnswitched, Told, Frame
<1>16. CASE Migrate
  BY <1>16 DEF Migrate, Doing, MigrateSafe, MigrateFails, TakeBackup, StepTaken, Goto, Fault, FailsWhen,
     FailUnswitched, Told, Frame
<1>17. CASE Switch
  BY <1>17 DEF Switch, Doing, Up, PartlyUp, StepTaken, Goto, Fault, Frame
<1>18. CASE Probe
  BY <1>18 DEF Probe, Doing, Healthy, StepTaken, Goto, FailsWhen, Fault, Frame
<1>19. CASE CompleteUpdate
  BY <1>19 DEF CompleteUpdate, Done, Told, Goto, Fault, Frame, Updated, NoManifest
<1>20. CASE StopTarget
  BY <1>20 DEF StopTarget, Down, PartlyDown, Goto, Done, Told, Fault, Frame
<1>21. CASE RestartOld
  BY <1>21 DEF RestartOld, Up, PartlyUp, Goto, Done, Told, Fault, Frame
<1>22. CASE Rollback
  BY <1>22 DEF Rollback, Idle, Begin, Told, Frame, Begun, NoManifest
<1>23. CASE StopCurrent
  BY <1>23 DEF StopCurrent, Doing, Down, PartlyDown, Goto, Fault, Frame
<1>24. CASE StartPrevious
  BY <1>24 DEF StartPrevious, Up, PartlyUp, StepTaken, Goto, Fault, Frame
<1>25. CASE RestoreBackup
  BY <1>25 DEF RestoreBackup, Doing, StepTaken, Goto, FailsWhen, Fault, Told, Frame
<1>26. CASE ProbeRestored
  BY <1>26 DEF ProbeRestored, Doing, Healthy, StepTaken, Goto, FailsWhen, Fault, Told, Frame
<1>27. CASE CompleteRollback
  BY <1>27 DEF CompleteRollback, Done, Told, Fault, Frame, RolledBack, NoManifest
<1>28. CASE RemoveManifest
  BY <1>28 DEF RemoveManifest, Done, Told, Fault, Frame, NoManifest
<1>29. CASE Update
  BY <1>29 DEF Update, Idle, Begin, Told, Frame, Begun, NoManifest
<1>30. CASE StartOrStop
  BY <1>30 DEF StartOrStop, Idle, Up, Down, Told, Frame
<1>31. CASE UninstallFails
  BY <1>31 DEF UninstallFails, Idle, Fault, PartlyDown, Told, Frame
<1>32. ASSUME NEW o \in {"install", "repair"}, InstallOrRepair(o) PROVE RollbackLosesNoMore'
  BY <1>32 DEF InstallOrRepair, Idle, Begin, Told, Frame, Begun, Created, NoManifest
<1>33. ASSUME NEW deleteData \in BOOLEAN, Uninstall(deleteData) PROVE RollbackLosesNoMore'
  BY <1>33 DEF Uninstall, Idle, Begin, Told, Frame, Down
<1> QED
  BY <1>1, <1>2, <1>3, <1>4, <1>5, <1>6, <1>7, <1>8, <1>9, <1>10, <1>11, <1>12, <1>13,
     <1>14, <1>15, <1>16, <1>17, <1>18, <1>19, <1>20, <1>21, <1>22, <1>23, <1>24, <1>25,
     <1>26, <1>27, <1>28, <1>29, <1>30, <1>31, <1>32, <1>33
     DEF Next, Host, Command, Operator

\* A native step is recorded after it has run, and the next begins after the record.
LEMMA InstallingPreserved ==
    ASSUME TypeOK, Shape, Adoption, Installing, NativeProgress, [Next]_vars
    PROVE  (Installing /\ NativeProgress)'
<1>a. at \in 1..Len(Steps) /\ at \in Nat /\ manifest \in Manifests /\ descriptor \in Releases
  BY TypesApart, StepsOf DEF Located, HostTypes
<1>b. Steps[at] \in StepNames
  BY <1>a, StepsOf
<1>c. op \in Commands /\ Commands = {"none", "install", "repair", "update", "rollback", "uninstall"}
  BY TypesApart DEF CommandTypes, Commands
<1> USE DEF hostVars, dataVars, historyVars, commandVars, Shape, Installing, NativeProgress
<1>1. CASE UNCHANGED vars
  BY <1>1 DEF vars
<1>2. CASE Boot
  BY <1>2 DEF Boot, Fault, MigrateSafe, MigrateFails, TakeBackup
<1>3. CASE NightlyBackup
  BY <1>3 DEF NightlyBackup, TakeBackup
<1>4. CASE Cleanup
  BY <1>4 DEF Cleanup
<1>5. CASE NewRelease
  BY <1>5 DEF NewRelease
<1>6. CASE Record
  <2>1. op /= "none" /\ manifest' = Recorded(manifest, Steps[at]) /\ UNCHANGED <<mode, applied>>
    BY <1>6 DEF Record, Frame
  <2>2. manifest'.last = Steps[at]
    BY <1>a, <1>b, <2>1, RecordedWrites
  <2>3. SUFFICES ASSUME mode = "native" PROVE (Installing /\ NativeProgress)'
    BY <2>1
  <2>4. op \in {"install", "repair"} /\ Steps = NativeSteps /\ phase = "record"
    BY <1>c, <2>1, <2>3, <1>6, InstallSteps DEF Record
  <2>5. \A i \in 1..at : NativeSteps[i] \in applied
    BY <2>3, <2>4
  <2>6. NativeProgress'
    <3>1. ASSUME NEW k \in 1..Len(NativeSteps), NativeSteps[at] = NativeSteps[k] PROVE k = at
      BY <1>a, <2>4, <3>1, StepsAssumption
    <3> QED
      BY <2>1, <2>2, <2>4, <2>5, <3>1
  <2>7. Installing'
    <3>1. \/ at < Len(Steps) /\ op' = op /\ at' = at + 1 /\ phase' = "do"
          \/ op' = "none"
      BY <1>6, <2>4, RecordAdvances
    <3> QED
      BY <1>a, <2>1, <2>5, <3>1
  <2> QED
    BY <2>6, <2>7
<1>7. CASE RecordFails
  BY <1>7 DEF RecordFails, Fault, Goto, Done, Told, Frame
<1>8. CASE Mark
  <2>1. manifest'.last = manifest.last
    BY <1>8, <1>a, FailedWrites DEF Mark
  <2> QED
    BY <1>8, <2>1 DEF Mark, Done, Frame
<1>9. CASE Kill
  BY <1>9 DEF Kill, Fault, Done, Told, Frame
<1>10. CASE PreflightRefuses
  <2>1. manifest'.last = manifest.last
    BY <1>10, <1>a, FailedWrites DEF PreflightRefuses
  <2> QED
    BY <1>10, <2>1 DEF PreflightRefuses, Idle, Told, Frame
<1>11. CASE NothingToResume
  <2>1. op' = "none" /\ manifest' = Recorded(manifest, Steps[at]) /\ UNCHANGED <<mode, applied>>
    BY <1>11 DEF NothingToResume, Frame, Done
  <2>2. manifest'.last = Steps[at]
    BY <1>a, <1>b, <2>1, RecordedWrites
  <2>3. SUFFICES ASSUME mode = "native" PROVE NativeProgress'
    BY <2>1
  <2>4. Steps = NativeSteps /\ \A i \in 1..at : NativeSteps[i] \in applied
    BY <1>11, <2>3, InstallSteps DEF NothingToResume
  <2>5. ASSUME NEW k \in 1..Len(NativeSteps), NativeSteps[at] = NativeSteps[k] PROVE k = at
    BY <1>a, <2>4, <2>5, StepsAssumption
  <2> QED
    BY <2>1, <2>2, <2>4, <2>5
<1>12. CASE StartServices
  BY <1>12 DEF StartServices, Up, PartlyUp, StepTaken, Goto, Fault, Told, Frame
<1>13. CASE NativeStep
  <2>1. /\ op \in {"install", "repair"} /\ phase = "do" /\ mode = "native"
        /\ UNCHANGED <<mode, manifest, op, at>>
    BY <1>13 DEF NativeStep, StepTaken, Goto, Frame
  <2>2. CASE applied' = applied \cup {Steps[at]} /\ phase' = "record"
    <3>1. Steps = NativeSteps
      BY <2>1, InstallSteps
    <3>2. \A i \in 1..at : NativeSteps[i] \in applied'
      <4> SUFFICES ASSUME NEW i \in 1..at PROVE NativeSteps[i] \in applied'
        OBVIOUS
      <4>1. CASE i = at
        BY <2>2, <3>1, <4>1
      <4>2. CASE i /= at
        <5>1. i \in 1..(at - 1)
          BY <1>a, <4>2
        <5> QED
          BY <2>1, <2>2, <5>1
      <4> QED
        BY <4>1, <4>2
    <3> QED
      BY <2>1, <2>2, <3>2
  <2>3. CASE applied' = applied /\ phase' = "mark"
    BY <2>1, <2>3
  <2> QED
    BY <1>13, <2>2, <2>3 DEF NativeStep, StepTaken, Goto
<1>14. CASE BackUp
  BY <1>14 DEF BackUp, Doing, TakeBackup, StepTaken, Goto, Fault, FailsWhen, FailUnswitched,
     Told, Frame
<1>15. CASE Pull
  BY <1>15 DEF Pull, Doing, StepTaken, Goto, Fault, FailUnswitched, Told, Frame
<1>16. CASE Migrate
  BY <1>16 DEF Migrate, Doing, MigrateSafe, MigrateFails, TakeBackup, StepTaken, Goto, Fault, FailsWhen,
     FailUnswitched, Told, Frame
<1>17. CASE Switch
  BY <1>17 DEF Switch, Doing, Up, PartlyUp, StepTaken, Goto, Fault, Frame
<1>18. CASE Probe
  BY <1>18 DEF Probe, Doing, Healthy, StepTaken, Goto, FailsWhen, Fault, Frame
<1>19. CASE CompleteUpdate
  BY <1>19 DEF CompleteUpdate, Done, Told, Goto, Fault, Frame, Updated, NoManifest
<1>20. CASE StopTarget
  BY <1>20 DEF StopTarget, Down, PartlyDown, Goto, Done, Told, Fault, Frame
<1>21. CASE RestartOld
  BY <1>21 DEF RestartOld, Up, PartlyUp, Goto, Done, Told, Fault, Frame
<1>22. CASE Rollback
  BY <1>22 DEF Rollback, Idle, Begin, Told, Frame, Begun, NoManifest
<1>23. CASE StopCurrent
  BY <1>23 DEF StopCurrent, Doing, Down, PartlyDown, Goto, Fault, Frame
<1>24. CASE StartPrevious
  BY <1>24 DEF StartPrevious, Up, PartlyUp, StepTaken, Goto, Fault, Frame
<1>25. CASE RestoreBackup
  BY <1>25 DEF RestoreBackup, Doing, StepTaken, Goto, FailsWhen, Fault, Told, Frame
<1>26. CASE ProbeRestored
  BY <1>26 DEF ProbeRestored, Doing, Healthy, StepTaken, Goto, FailsWhen, Fault, Told, Frame
<1>27. CASE CompleteRollback
  BY <1>27 DEF CompleteRollback, Done, Told, Fault, Frame, RolledBack, NoManifest
<1>28. CASE RemoveManifest
  <2>1. op' = "none" /\ UNCHANGED mode
    BY <1>28 DEF RemoveManifest, Done, Frame
  <2>2. CASE manifest' = NoManifest
    <3>1. \A k \in 1..Len(NativeSteps) : NativeSteps[k] /= "none"
      BY StepsAssumption
    <3> QED
      BY <2>1, <2>2, <3>1, NothingWritten
  <2>3. CASE UNCHANGED <<manifest, applied>>
    BY <2>1, <2>3
  <2> QED
    BY <1>28, <2>2, <2>3 DEF RemoveManifest
<1>29. CASE Update
  BY <1>29 DEF Update, Idle, Begin, Told, Frame, Begun, NoManifest
<1>30. CASE StartOrStop
  BY <1>30 DEF StartOrStop, Idle, Up, Down, Told, Frame
<1>31. CASE UninstallFails
  BY <1>31 DEF UninstallFails, Idle, Fault, PartlyDown, Told, Frame
<1>32. ASSUME NEW o \in {"install", "repair"}, InstallOrRepair(o) PROVE (Installing /\ NativeProgress)'
  <2>1. /\ op' = o /\ UNCHANGED <<mode, applied>>
        /\ manifest' = Begun(Created(manifest, descriptor), o)
    BY <1>32 DEF InstallOrRepair, Begin, Frame
  <2>2. manifest'.last \in {manifest.last, "none"}
    <3>1. o \in OperationTypes
      BY DEF OperationTypes
    <3>2. Created(manifest, descriptor) \in Manifests
          /\ Created(manifest, descriptor).last \in {manifest.last, "none"}
      BY <1>a, CreatedWrites
    <3> QED
      BY <2>1, <3>1, <3>2, BegunWrites
  <2>3. \A k \in 1..Len(NativeSteps) : NativeSteps[k] /= "none"
    BY StepsAssumption
  <2>4. NativeProgress'
    BY <2>1, <2>2, <2>3
  <2>5. ASSUME mode = "native" PROVE Installing'
    <3> DEFINE first == ResumeIndex(manifest, descriptor, NativeSteps)
    <3>1. /\ at' = IF first > Len(NativeSteps) THEN Len(NativeSteps) ELSE first
          /\ phase' = IF first > Len(NativeSteps) THEN "skip" ELSE "do"
      BY <1>32, <2>5 DEF InstallOrRepair, Begin
    <3>2. Len(NativeSteps) \in Nat \ {0}
      BY StepsAssumption
    <3>3. first \in 1..(Len(NativeSteps) + 1)
          /\ (first > 1 => manifest.last = NativeSteps[first - 1])
      BY <3>2, ResumesAfterRecorded
    <3> HIDE DEF first
    <3>4. \A i \in 1..(first - 1) : NativeSteps[i] \in applied
      <4>1. CASE first = 1
        BY <4>1
      <4>2. CASE first > 1
        <5>1. first - 1 \in 1..Len(NativeSteps)
          BY <3>2, <3>3, <4>2
        <5> QED
          BY <2>5, <3>3, <4>2, <5>1
      <4> QED
        BY <3>3, <4>1, <4>2
    <3>5. CASE first > Len(NativeSteps)
      BY <2>1, <3>1, <3>2, <3>3, <3>4, <3>5
    <3>6. CASE ~(first > Len(NativeSteps))
      BY <2>1, <3>1, <3>3, <3>4, <3>6
    <3> QED
      BY <3>5, <3>6
  <2>6. mode /= "native" => Installing'
    BY <2>1
  <2> QED
    BY <2>4, <2>5, <2>6
<1>33. ASSUME NEW deleteData \in BOOLEAN, Uninstall(deleteData) PROVE (Installing /\ NativeProgress)'
  BY <1>33 DEF Uninstall, Idle, Begin, Told, Frame, Down
<1> QED
  BY <1>1, <1>2, <1>3, <1>4, <1>5, <1>6, <1>7, <1>8, <1>9, <1>10, <1>11, <1>12, <1>13,
     <1>14, <1>15, <1>16, <1>17, <1>18, <1>19, <1>20, <1>21, <1>22, <1>23, <1>24, <1>25,
     <1>26, <1>27, <1>28, <1>29, <1>30, <1>31, <1>32, <1>33
     DEF Next, Host, Command, Operator

IInv ==
    /\ TypeOK /\ Shape /\ Adoption /\ Hosting /\ Saving /\ Installing
    /\ ReadyIsMigrated /\ ReportedReleaseRuns /\ RollbackLosesNoMore /\ NativeProgress

\* The types again, from their parts.
LEMMA TypePreserved ==
    ASSUME TypeOK, Shape, Adoption, Saving, [Next]_vars
    PROVE  TypeOK'
<1>1. HostTypes' /\ DataTypes' /\ CommandTypes' /\ Located' /\ (manifest \in Manifests)'
  BY HostTypesPreserved, DataTypesPreserved, CommandTypesPreserved, LocatedPreserved,
     ManifestPreserved
<1> QED
  BY <1>1 DEF TypeOK, HostTypes, DataTypes, CommandTypes, Located, Manifests

\* The invariant holds before anything is installed.
LEMMA InitInv == Init => IInv
<1> SUFFICES ASSUME Init PROVE IInv
  OBVIOUS
<1> USE DEF Init
<1>1. HostTypes
  <2>1. ready \in BOOLEAN /\ fpm \in {0} \cup running /\ running \subseteq Releases
    OBVIOUS
  <2>2. descriptor \in Releases /\ mode \in {"docker", "native"}
    BY ReleaseAssumption DEF Releases
  <2> QED
    BY <2>1, <2>2 DEF HostTypes
<1>2. DataTypes
  BY BoundsAssumption DEF DataTypes, Backup, NoBackup
<1>3. CommandTypes
  BY BoundsAssumption DEF CommandTypes, Commands, Phases, Reports
<1>4. Located
  BY StepsOf DEF Located
<1>5. TypeOK
  BY <1>1, <1>2, <1>3, <1>4, NothingWritten, TypesApart
<1>6. Shape /\ Adoption /\ Hosting /\ Saving /\ Installing
  BY DEF Shape, Adoption, Hosting, Saving, NewestKept, Installing
<1>7. ReadyIsMigrated /\ ReportedReleaseRuns /\ RollbackLosesNoMore
  BY DEF ReadyIsMigrated, ReportedReleaseRuns, RollbackLosesNoMore
<1>8. NativeProgress
  BY NothingWritten, StepsAssumption DEF NativeProgress
<1> QED
  BY <1>5, <1>6, <1>7, <1>8 DEF IInv

\* The invariant is inductive, so it holds throughout.
THEOREM Invariance == Spec => []IInv
<1>1. Init => IInv
  BY InitInv
<1>2. IInv /\ [Next]_vars => IInv'
  <2> SUFFICES ASSUME IInv, [Next]_vars PROVE IInv'
    OBVIOUS
  <2>1. (Installing /\ NativeProgress)'
    BY InstallingPreserved DEF IInv
  <2>2. TypeOK' /\ Shape' /\ Adoption' /\ Hosting' /\ Saving'
    BY TypePreserved, ShapePreserved, AdoptionPreserved, HostingPreserved, SavingPreserved
       DEF IInv
  <2>3. ReadyIsMigrated' /\ ReportedReleaseRuns' /\ RollbackLosesNoMore'
    BY ReadyPreserved, ReportedPreserved, LossPreserved DEF IInv
  <2> QED
    BY <2>1, <2>2, <2>3 DEF IInv
<1> QED
  BY <1>1, <1>2, PTL DEF Spec

\* Every variable keeps its type, for any number of releases, steps, backups and faults.
THEOREM TypeCorrect == Spec => []TypeOK
<1>1. IInv => TypeOK
  BY DEF IInv
<1> QED
  BY <1>1, Invariance, PTL

\* What a command reports as updated, rolled back or restored is the one release
\* that has containers, and the one the manifest names.
THEOREM ReportsAreTrue == Spec => []ReportedReleaseRuns
<1>1. IInv => ReportedReleaseRuns
  BY DEF IInv
<1> QED
  BY <1>1, Invariance, PTL

\* No container serves requests on a database that lacks its migrations.
THEOREM ServesMigrated == Spec => []ReadyIsMigrated
<1>1. IInv => ReadyIsMigrated
  BY DEF IInv
<1> QED
  BY <1>1, Invariance, PTL

\* A rollback restores a backup no older than the one the last update took.
THEOREM LossIsBounded == Spec => []RollbackLosesNoMore
<1>1. IInv => RollbackLosesNoMore
  BY DEF IInv
<1> QED
  BY <1>1, Invariance, PTL

\* A native installation that resumes skips no step that has not run.
THEOREM NothingIsSkipped == Spec => []NativeProgress
<1>1. IInv => NativeProgress
  BY DEF IInv
<1> QED
  BY <1>1, Invariance, PTL

\* The moves of ReleaseRecord, and the steps that make none.
Moves ==
    Record_!Retreat \/ Record_!Forget \/ \E v \in Releases : Record_!Record(v) \/ Record_!Adopt(v)
AdoptionKept == manifest'.version = manifest.version /\ manifest'.previous = manifest.previous

\* The adopted release changes as the record allows, or not at all.
LEMMA AdoptionMoves ==
    ASSUME TypeOK, Shape, Adoption, Hosting, [Next]_vars
    PROVE  Moves \/ AdoptionKept
<1>a. manifest \in Manifests /\ descriptor \in Releases
  BY TypesApart DEF HostTypes
<1>b. Steps[at] \in StepNames
  BY TypesApart, StepsOf DEF Located
<1>c. /\ "role-smoke-verified" \in StepNames /\ "health-verified" \in StepNames
      /\ "update" \in OperationTypes /\ "rollback" \in OperationTypes /\ 1 \in Releases
  <2>1. UPDATE_STEPS[7] = "role-smoke-verified" /\ UPDATE_STEPS[6] = "health-verified"
    BY DEF UPDATE_STEPS
  <2>2. 1 \in Releases
    BY ReleaseAssumption DEF Releases
  <2> QED
    BY <2>1, <2>2 DEF StepNames, OperationTypes
<1> USE DEF AdoptionKept
<1>1. CASE UNCHANGED vars
  BY <1>1 DEF vars
<1>2. CASE Boot
  BY <1>2 DEF Boot
<1>3. CASE NightlyBackup
  BY <1>3 DEF NightlyBackup
<1>4. CASE Cleanup
  BY <1>4 DEF Cleanup
<1>5. CASE NewRelease
  BY <1>5 DEF NewRelease
<1>6. CASE Record
  BY <1>6, <1>a, <1>b, RecordedWrites DEF Record
<1>7. CASE RecordFails
  BY <1>7 DEF RecordFails
<1>8. CASE Mark
  BY <1>8, <1>a, FailedWrites DEF Mark
<1>9. CASE Kill
  BY <1>9 DEF Kill
<1>10. CASE PreflightRefuses
  BY <1>10, <1>a, FailedWrites DEF PreflightRefuses
<1>11. CASE NothingToResume
  BY <1>11, <1>a, <1>b, RecordedWrites DEF NothingToResume
<1>12. CASE StartServices
  BY <1>12 DEF StartServices
<1>13. CASE NativeStep
  BY <1>13 DEF NativeStep
<1>14. CASE BackUp
  BY <1>14 DEF BackUp
<1>15. CASE Pull
  BY <1>15 DEF Pull
<1>16. CASE Migrate
  BY <1>16 DEF Migrate
<1>17. CASE Switch
  BY <1>17 DEF Switch
<1>18. CASE Probe
  BY <1>18 DEF Probe
<1>19. CASE CompleteUpdate
  <2>1. CASE UNCHANGED manifest
    BY <2>1
  <2>2. CASE manifest' = Updated(manifest, to, "role-smoke-verified")
    <3>1. to \in Releases /\ to /= manifest.version /\ manifest.version /= 0
      BY <1>19 DEF CompleteUpdate, Adoption
    <3>2. manifest'.version = to /\ manifest'.previous = manifest.version
      <4>1. /\ Updated(manifest, to, "role-smoke-verified").version = to
            /\ Updated(manifest, to, "role-smoke-verified").previous = manifest.version
        BY <1>a, <1>c, <3>1, CompletionWrites
      <4> QED
        BY <2>2, <4>1
    <3>3. running = {to} /\ ready /\ UNCHANGED <<running, ready>>
      BY <1>19 DEF CompleteUpdate, Shape, Hosting, Reached, hostVars
    <3> QED
      BY <3>1, <3>2, <3>3 DEF Moves, Record_!Adopt
  <2> QED
    BY <1>19, <2>1, <2>2 DEF CompleteUpdate
<1>20. CASE StopTarget
  BY <1>20 DEF StopTarget
<1>21. CASE RestartOld
  BY <1>21 DEF RestartOld
<1>22. CASE Rollback
  BY <1>22, <1>a, <1>c, BegunWrites DEF Rollback
<1>23. CASE StopCurrent
  BY <1>23 DEF StopCurrent
<1>24. CASE StartPrevious
  BY <1>24 DEF StartPrevious
<1>25. CASE RestoreBackup
  BY <1>25 DEF RestoreBackup
<1>26. CASE ProbeRestored
  BY <1>26 DEF ProbeRestored
<1>27. CASE CompleteRollback
  <2>1. CASE UNCHANGED manifest
    BY <2>1
  <2>2. CASE manifest' = RolledBack(manifest, "health-verified")
    <3>1. to = manifest.previous /\ to \in Releases
      BY <1>27 DEF CompleteRollback, Adoption
    <3>2. to /= 0
      BY <3>1, ReleaseAssumption DEF Releases
    <3>3. manifest'.version = manifest.previous /\ manifest'.previous = 0
      BY <1>a, <1>c, <2>2, CompletionWrites
    <3>4. running = {to} /\ ready /\ UNCHANGED <<running, ready>>
      BY <1>27 DEF CompleteRollback, Shape, Hosting, Reached, hostVars
    <3> QED
      BY <3>1, <3>2, <3>3, <3>4 DEF Moves, Record_!Retreat
  <2> QED
    BY <1>27, <2>1, <2>2 DEF CompleteRollback
<1>28. CASE RemoveManifest
  <2>1. CASE UNCHANGED manifest
    BY <2>1
  <2>2. CASE manifest' = NoManifest
    <3>1. manifest.version /= 0 /\ running = {} /\ UNCHANGED <<running, ready>>
      BY <1>28 DEF RemoveManifest, Adoption, Hosting, hostVars
    <3> QED
      BY <2>2, <3>1, NothingWritten DEF Moves, Record_!Forget
  <2> QED
    BY <1>28, <2>1, <2>2 DEF RemoveManifest
<1>29. CASE Update
  BY <1>29, <1>a, <1>c, BegunWrites DEF Update
<1>30. CASE StartOrStop
  BY <1>30 DEF StartOrStop
<1>31. CASE UninstallFails
  BY <1>31 DEF UninstallFails
<1>32. ASSUME NEW o \in {"install", "repair"}, InstallOrRepair(o) PROVE Moves \/ AdoptionKept
  <2>1. manifest' = Begun(Created(manifest, descriptor), o) /\ UNCHANGED <<running, ready>>
    BY <1>32 DEF InstallOrRepair, hostVars
  <2>2. o \in OperationTypes
    BY DEF OperationTypes
  <2>3. Created(manifest, descriptor) \in Manifests
    BY <1>a, CreatedWrites
  <2>4. manifest'.version = Created(manifest, descriptor).version
        /\ manifest'.previous = Created(manifest, descriptor).previous
    BY <2>1, <2>2, <2>3, BegunWrites
  <2>5. CASE manifest /= NoManifest
    BY <1>a, <2>4, <2>5, CreatedWrites
  <2>6. CASE manifest = NoManifest
    <3>1. manifest'.version = descriptor /\ manifest'.previous = manifest.previous
          /\ manifest.version = 0
      BY <1>a, <2>4, <2>6, CreatedWrites, NothingWritten
    <3> QED
      BY <1>a, <2>1, <3>1 DEF Moves, Record_!Record
  <2> QED
    BY <2>5, <2>6
<1>33. ASSUME NEW deleteData \in BOOLEAN, Uninstall(deleteData) PROVE Moves \/ AdoptionKept
  BY <1>33 DEF Uninstall
<1> QED
  BY <1>1, <1>2, <1>3, <1>4, <1>5, <1>6, <1>7, <1>8, <1>9, <1>10, <1>11, <1>12, <1>13,
     <1>14, <1>15, <1>16, <1>17, <1>18, <1>19, <1>20, <1>21, <1>22, <1>23, <1>24, <1>25,
     <1>26, <1>27, <1>28, <1>29, <1>30, <1>31, <1>32, <1>33
     DEF Next, Host, Command, Operator

\* The lifecycle implements the promise of ReleaseRecord: the adopted release
\* moves only through an update or a rollback that ends on the one release that
\* runs and answers, or through the first installation and the uninstall.
THEOREM RecordIsImplemented == Spec => ImplementsRecord
<1>1. Init => Record_!Init
  BY NothingWritten DEF Init, Record_!Init
<1>2. IInv /\ IInv' /\ [Next]_vars => [Record_!Next]_Record_!vars
  <2> SUFFICES ASSUME IInv, IInv', [Next]_vars PROVE [Record_!Next]_Record_!vars
    OBVIOUS
  <2>1. running' \in SUBSET Releases /\ ready' \in BOOLEAN
    BY DEF IInv, TypeOK
  <2>2. CASE AdoptionKept
    BY <2>1, <2>2 DEF AdoptionKept, Record_!Next, Record_!Churn
  <2>3. CASE Moves
    BY <2>3 DEF Moves, Record_!Next
  <2> QED
    BY <2>2, <2>3, AdoptionMoves DEF IInv
<1> QED
  BY <1>1, <1>2, Invariance, PTL DEF Spec, ImplementsRecord, Record_!Spec

=============================================================================
