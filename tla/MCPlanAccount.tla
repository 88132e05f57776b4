---------------------------- MODULE MCPlanAccount ----------------------------
EXTENDS PlanAccount, TLC

CONSTANTS a1, a2, m1, m2, s1, s2, w1, w2

OwnCatalog == a1 :> {m1} @@ a2 :> {m2}

(* Swaps the accounts together with their catalogs. *)
Swap == a1 :> a2 @@ a2 :> a1 @@ m1 :> m2 @@ m2 :> m1

Symmetry == Permutations(Slots) \cup Permutations(Screens) \cup {Swap}

=============================================================================
