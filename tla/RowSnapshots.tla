---------------------------- MODULE RowSnapshots ----------------------------
(***************************************************************************)
(* What ScheduledUploadState::transition promises about one row: a writer  *)
(* succeeds only when nobody has written the row since it read it.         *)
(***************************************************************************)
CONSTANTS Actors, Status, LEGAL

VARIABLES
    status,     \* the row's status
    fresh,      \* actors whose snapshot of the row is current
    seen        \* the status in each actor's last snapshot

vars == <<status, fresh, seen>>

Init ==
    /\ status \in Status
    /\ fresh = {}
    /\ seen \in [Actors -> Status]

Read(a) ==
    /\ fresh' = fresh \cup {a}
    /\ seen' = [seen EXCEPT ![a] = status]
    /\ UNCHANGED status

Transition(a, to) ==
    /\ a \in fresh
    /\ to \in LEGAL[seen[a]]
    /\ status' = to
    /\ fresh' = {a}
    /\ seen' = [seen EXCEPT ![a] = to]

Next == \E a \in Actors : Read(a) \/ \E to \in Status : Transition(a, to)

Spec == Init /\ [][Next]_vars
=============================================================================
