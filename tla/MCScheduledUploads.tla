------------------------- MODULE MCScheduledUploads -------------------------
(* Small instances of ScheduledUploads for TLC. *)
EXTENDS ScheduledUploads, TLC

MCWorkers == Permutations(Workers)
=============================================================================
