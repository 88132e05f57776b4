----------------------------- MODULE MCLocalJobs -----------------------------
(* Small instances of LocalJobs for TLC. *)
EXTENDS LocalJobs, TLC

CONSTANTS i1, a1, p1, s1

=============================================================================
