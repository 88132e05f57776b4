--------------------------- MODULE MCNightlyDrafts ---------------------------
(* Small instances of NightlyDrafts for TLC. *)
EXTENDS NightlyDrafts, TLC

CONSTANTS schedule, manual, m1, m2, a1, a2, b1, b2, k1

OfTwo == (m1 :> a1) @@ (m2 :> a2)
OneFold == (b1 :> k1) @@ (b2 :> k1)

=============================================================================
