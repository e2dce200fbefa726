---------------------------- MODULE VersionedRow ----------------------------
(***************************************************************************)
(* ScheduledUploadState::transition as the code performs it: an UPDATE     *)
(* guarded by the status and the version column of the caller's snapshot,  *)
(* which adds one to the version.  It implements RowSnapshots, and that is *)
(* why ScheduledUploads keeps the set of current snapshots and no version. *)
(***************************************************************************)
EXTENDS Naturals

CONSTANTS
    Actors,         \* dispatcher runs, workers, watchdog, clients
    Status,         \* values of the status column
    LEGAL,          \* ScheduledUploadState::LEGAL
    First,          \* the status a row is inserted with
    MaxVersion      \* bound: versions a row goes through

ASSUME LegalAssumption == LEGAL \in [Status -> SUBSET Status]
ASSUME FirstAssumption == First \in Status
ASSUME MaxVersionAssumption == MaxVersion \in Nat

VARIABLES
    rowStatus, version,         \* the columns
    seenStatus, seenVersion     \* each actor's snapshot; version 0 before it reads

rowVars == <<rowStatus, version, seenStatus, seenVersion>>

RowInit ==
    /\ rowStatus = First
    /\ version = 1
    /\ seenStatus = [a \in Actors |-> First]
    /\ seenVersion = [a \in Actors |-> 0]

Read(a) ==
    /\ seenStatus' = [seenStatus EXCEPT ![a] = rowStatus]
    /\ seenVersion' = [seenVersion EXCEPT ![a] = version]
    /\ UNCHANGED <<rowStatus, version>>

\* Mutant: the UPDATE is guarded by the status alone.
Transition_StatusOnly(a, to) ==
    /\ version < MaxVersion
    /\ to \in LEGAL[seenStatus[a]]
    /\ rowStatus = seenStatus[a]
    /\ rowStatus' = to
    /\ version' = seenVersion[a] + 1
    /\ seenStatus' = [seenStatus EXCEPT ![a] = to]
    /\ seenVersion' = [seenVersion EXCEPT ![a] = version']

\* UPDATE ... WHERE status = from AND version = v SET status = to, version = v + 1;
\* the caller goes on with the row it gets back.
Transition(a, to) ==
    /\ version < MaxVersion
    /\ to \in LEGAL[seenStatus[a]]
    /\ rowStatus = seenStatus[a] /\ version = seenVersion[a]
    /\ rowStatus' = to
    /\ version' = seenVersion[a] + 1
    /\ seenStatus' = [seenStatus EXCEPT ![a] = to]
    /\ seenVersion' = [seenVersion EXCEPT ![a] = version']

RowNext == \E a \in Actors : Read(a) \/ \E to \in Status : Transition(a, to)

RowSpec == RowInit /\ [][RowNext]_rowVars

-----------------------------------------------------------------------------
\* A snapshot is current when it carries the row's version.
Fresh == {a \in Actors : seenVersion[a] = version}
Abstract == INSTANCE RowSnapshots WITH status <- rowStatus, fresh <- Fresh, seen <- seenStatus

\* Columns and snapshots hold values of their types.
RowTypeOK ==
    /\ rowStatus \in Status /\ version \in Nat \ {0}
    /\ seenStatus \in [Actors -> Status]
    /\ seenVersion \in [Actors -> Nat]

\* No snapshot is ahead of the row, and one of the row's version has its status.
SnapshotsBehind ==
    \A a \in Actors :
        /\ seenVersion[a] <= version
        /\ seenVersion[a] = version => seenStatus[a] = rowStatus

\* Comparing versions is comparing with everything written since the read:
\* the version guard implements the snapshot semantics.
ImplementsSnapshots == Abstract!Spec
=============================================================================
