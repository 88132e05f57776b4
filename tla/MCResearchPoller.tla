-------------------------- MODULE MCResearchPoller --------------------------
(* Small instances of ResearchPoller for TLC. *)
EXTENDS ResearchPoller

CONSTANTS i1, i2, a1

(* Nobody dawdles: time passes for an instance only between two firings, in its
   call, and behind a lock that somebody else holds. *)
Prompt ==
  \A i \in Instances :
    \/ inst[i].phase \in {"off", "top", "call"}
    \/ inst[i].phase = "lock" /\ lock \notin {i, None}

PromptSpec == Init /\ [][Next /\ (Tick => Prompt)]_vars
=============================================================================
