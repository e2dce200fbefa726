--------------------------- MODULE MCQueueFaults ---------------------------
(***************************************************************************)
(* The two kinds of job on the server's queue on small instances, with one *)
(* thing going wrong, for TLC.  They share no state: a behaviour is one of *)
(* the part that it is about, with the other at rest.                      *)
(***************************************************************************)
EXTENDS ScheduledUploads, MediaJobs, TLC

VARIABLE about

bothVars == <<about, vars, mediaVars>>

QueueInit ==
    /\ about \in {"uploads", "media"}
    /\ Init /\ MediaInit
    /\ about = "uploads" => record = "absent"

QueueNext ==
    /\ UNCHANGED about
    /\ IF about = "uploads" THEN Next ELSE UNCHANGED vars
    /\ IF about = "media" THEN MediaNext ELSE UNCHANGED mediaVars

\* At rest no step that fairness asks for is enabled.
QueueSpec == QueueInit /\ [][QueueNext]_bothVars /\ Fairness /\ MediaFairness
=============================================================================
