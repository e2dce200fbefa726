------------------------ MODULE InstallationManifest ------------------------
(***************************************************************************)
(* The installation manifest of scripts/control-center: one JSON file,     *)
(* replaced atomically by every write (a temporary file renamed over it).  *)
(* It names the adopted release, the release a rollback would return to,   *)
(* and how far the operation under way has come.                           *)
(*                                                                         *)
(* Releases are numbered in the order they are published, 0 is no release. *)
(* Paths, services, artifacts and the texts of nextActions are left out.   *)
(***************************************************************************)
EXTENDS Naturals, Sequences

OperationTypes == {"none", "install", "repair", "update", "rollback"}
OperationStatus == {"none", "in-progress", "failed", "succeeded"}

\* readInstallationManifest() returns null.
NoManifest == [version |-> 0, last |-> "none", type |-> "none", status |-> "none", previous |-> 0]

\* createInstallationManifest() keeps an existing manifest, whatever it names.
Created(m, v) ==
    IF m /= NoManifest THEN m
    ELSE [version |-> v, last |-> "none", type |-> "install", status |-> "in-progress",
          previous |-> 0]

\* beginInstallationOperation() and beginOperation(): lastSuccessfulStep stays.
Begun(m, type) == [m EXCEPT !.type = type, !.status = "in-progress"]

\* updateLastSuccessfulStep() marks the operation succeeded, whatever step it is.
Recorded(m, step) == [m EXCEPT !.last = step, !.status = "succeeded"]

\* markInstallationFailed()
Failed(m) == [m EXCEPT !.status = "failed"]

\* completeUpdateOperation(): the replaced release becomes previousRelease.
Updated(m, v, step) ==
    [version |-> v, last |-> step, type |-> "update", status |-> "succeeded",
     previous |-> m.version]

\* completeRollbackOperation(): the reference is consumed.
RolledBack(m, step) ==
    [version |-> m.previous, last |-> step, type |-> "rollback", status |-> "succeeded",
     previous |-> 0]

\* Mutant: the step after the last one recorded is skipped as well.
ResumeIndex_OffByOne(m, v, steps) ==
    LET done == {i \in 1..Len(steps) : steps[i] = m.last}
    IN  IF m.version = v /\ m.status = "failed" /\ done /= {}
        THEN (CHOOSE i \in done : TRUE) + 2 ELSE 1

\* decideInstallationResume(): only a failed operation on an unchanged
\* configuration resumes, after the last recorded step.  A step that is not one
\* of the installation's (an update's) means a full repair: from the first.
ResumeIndex(m, v, steps) ==
    LET done == {i \in 1..Len(steps) : steps[i] = m.last}
    IN  IF m.version = v /\ m.status = "failed" /\ done /= {}
        THEN (CHOOSE i \in done : TRUE) + 1 ELSE 1
=============================================================================
