----------------------------- MODULE MCGPTStore -----------------------------
(* Small instances of GPTStore for TLC. *)
EXTENDS GPTStore, TLC

CONSTANTS song, f1, f2, f3, c1, c2

(* The slots are interchangeable, and so are the versions that are not Korean,
   where none is oversized. *)
Symmetry == Permutations(Clients) \cup Permutations(Fps \ Korean)
=============================================================================
