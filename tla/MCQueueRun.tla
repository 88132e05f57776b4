----------------------------- MODULE MCQueueRun -----------------------------
(* Small instances of QueueRun for TLC. *)
EXTENDS QueueRun, TLC

CONSTANTS s1, s2, a, b

(* Start and StartSmoke choose one slot for the fallback and the smoke, so the
   slots are not interchangeable; the sources are. *)
Symmetry == Permutations(Sources)
=============================================================================
