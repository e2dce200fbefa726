-------------------------- MODULE MCUploadSessions --------------------------
(* UploadSessions on a small instance, for TLC. *)
EXTENDS UploadSessions, TLC

MCSymmetry == Permutations(Requests) \cup Permutations(Keys)
=============================================================================
