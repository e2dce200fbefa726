---------------------------- MODULE MCMediaJobs ----------------------------
(* MediaJobs on a small instance, for TLC. *)
EXTENDS MediaJobs, TLC

MCSymmetry == Permutations(MediaWorkers)
=============================================================================
