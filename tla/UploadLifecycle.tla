-------------------------- MODULE UploadLifecycle ---------------------------
(***************************************************************************)
(* What the scheduled-upload pipeline promises of each row, whoever races  *)
(* for it: the life of a row and the one archive record it may become.     *)
(* No actor, message, file or snapshot appears here.                       *)
(***************************************************************************)
EXTENDS Naturals

CONSTANT Schedules

VARIABLES
    status,     \* "absent", a value of the status column, or "deleted"
    leased,     \* the row carries a lease
    recordId,   \* the row names its archive record
    records     \* archive records made from the row

vars == <<status, leased, recordId, records>>

Init ==
    /\ status = [s \in Schedules |-> "absent"]
    /\ leased = [s \in Schedules |-> FALSE]
    /\ recordId = [s \in Schedules |-> FALSE]
    /\ records = [s \in Schedules |-> 0]

Turn(s, from, to) ==
    /\ status[s] = from
    /\ status' = [status EXCEPT ![s] = to]

Unrecorded == UNCHANGED <<recordId, records>>

Insert(s) == Turn(s, "absent", "scheduled") /\ UNCHANGED leased /\ Unrecorded

Claim(s) ==
    /\ Turn(s, "scheduled", "claimed")
    /\ leased' = [leased EXCEPT ![s] = TRUE]
    /\ Unrecorded

\* The watchdog clears the lease; a dispatcher whose push failed leaves it.
Release(s) ==
    /\ Turn(s, "claimed", "scheduled")
    /\ leased' \in {leased, [leased EXCEPT ![s] = FALSE]}
    /\ Unrecorded

Cancel(s) == Turn(s, "scheduled", "cancelled") /\ UNCHANGED leased /\ Unrecorded
Begin(s) == Turn(s, "claimed", "processing") /\ UNCHANGED leased /\ Unrecorded
Fail(s) == Turn(s, "processing", "failed") /\ UNCHANGED leased /\ Unrecorded
Retry(s) == Turn(s, "failed", "scheduled") /\ UNCHANGED leased /\ Unrecorded

\* The only step that makes a record, and it makes the row final.
Complete(s) ==
    /\ Turn(s, "processing", "completed")
    /\ recordId' = [recordId EXCEPT ![s] = TRUE]
    /\ records' = [records EXCEPT ![s] = @ + 1]
    /\ UNCHANGED leased

\* The retention sweep deletes by id, whatever the row has become.
Delete(s) ==
    /\ status[s] /= "absent"
    /\ status' = [status EXCEPT ![s] = "deleted"]
    /\ UNCHANGED leased /\ Unrecorded

Next ==
    \E s \in Schedules :
        \/ Insert(s) \/ Claim(s) \/ Release(s) \/ Cancel(s) \/ Begin(s)
        \/ Fail(s) \/ Retry(s) \/ Complete(s) \/ Delete(s)

Spec == Init /\ [][Next]_vars

=============================================================================
