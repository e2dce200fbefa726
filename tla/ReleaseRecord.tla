--------------------------- MODULE ReleaseRecord ----------------------------
(***************************************************************************)
(* What the installation manifest promises about the adopted release: it   *)
(* moves only through an update or a rollback, and only to a release that  *)
(* alone has containers and has come up; an update can be undone once.     *)
(***************************************************************************)
EXTENDS Naturals

CONSTANT Releases

VARIABLES
    version,    \* the adopted release, 0 when nothing is installed
    previous,   \* the release a rollback returns to, 0 for none
    live,       \* releases that have containers
    up          \* the application has booted and answers

vars == <<version, previous, live, up>>

Init == version = 0 /\ previous = 0 /\ live = {} /\ up = FALSE

\* Containers come and go, by themselves or at an operator's command.
Churn ==
    /\ live' \in SUBSET Releases /\ up' \in BOOLEAN
    /\ UNCHANGED <<version, previous>>

\* The first installation is recorded before its containers start.
Record(v) ==
    /\ version = 0
    /\ version' = v
    /\ UNCHANGED <<previous, live, up>>

\* A completed update.
Adopt(v) ==
    /\ version \notin {0, v}
    /\ live = {v} /\ up
    /\ version' = v
    /\ previous' = version
    /\ UNCHANGED <<live, up>>

\* A completed rollback consumes the reference.
Retreat ==
    /\ previous /= 0
    /\ live = {previous} /\ up
    /\ version' = previous
    /\ previous' = 0
    /\ UNCHANGED <<live, up>>

\* Uninstalled; the containers were removed before.
Forget ==
    /\ version /= 0 /\ live = {}
    /\ version' = 0
    /\ previous' = 0
    /\ UNCHANGED <<live, up>>

Next == Churn \/ Retreat \/ Forget \/ \E v \in Releases : Record(v) \/ Adopt(v)

Spec == Init /\ [][Next]_vars
=============================================================================
