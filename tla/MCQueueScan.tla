---------------------------- MODULE MCQueueScan ----------------------------
(* Small instances of QueueScan for TLC. *)
EXTENDS QueueScan
=============================================================================
