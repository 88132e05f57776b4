----------------------- MODULE ResearchPollerProofs -----------------------
(* Proofs about ResearchPoller: a row is run twice at once, a request hidden or a
   note overwritten unseen only after a run of it spent more than Slack beside
   its call.  That no failure blanks a note, what a cooldown costs and what the
   nudge file knows need no such exception. *)
EXTENDS ResearchPoller, TLAPS

(* The row of a working instance is its own, untouched, and no older than the
   instance's time beside and in the call, unless its album is late. *)
Own(i) ==
  inst[i].phase \in Working =>
    /\ inst[i].album \in Albums
    /\ inst[i].album \notin late =>
         /\ row[inst[i].album].status = "running"
         /\ row[inst[i].album].age <= inst[i].delay + inst[i].time
         /\ inst[i].delay <= Slack
         /\ inst[i].current

Safe ==
  /\ \A i \in Instances : Own(i)
  /\ DoubleRunsAreLate
  /\ DoneIsLatest

IInv == TypeOK /\ Safe

-----------------------------------------------------------------------------
(* The types of what the actions write. *)

LEMMA Zero ==
  /\ 0 \in 0..(StaleRunning + 1) /\ 0 \in 0..(GeniusWaitMax + 1)
  /\ CallMax \in Nat /\ Slack \in Nat /\ Slack + CallMax = StaleRunning
  /\ 0 \in 0..CallMax /\ 0 \in 0..(Slack + 1)
BY ResearchConstants DEF Slack

LEMMA OffType ==
  /\ Off \in Instance
  /\ \A p \in Phases, a \in Albums \cup {None} :
       /\ [Off EXCEPT !.phase = p] \in Instance
       /\ [Off EXCEPT !.phase = p, !.album = a] \in Instance
<1>1. [a \in Albums |-> 0] \in [Albums -> 0..NudgeCooldown]
  BY ResearchConstants
<1>2. Off \in Instance
  BY <1>1, Zero DEF Off, Instance, Phases
<1> QED
  BY <1>2 DEF Instance

LEMMA GoType ==
  ASSUME TypeOK, NEW i \in Instances, NEW p \in Phases, Go(i, p)
  PROVE  inst' \in [Instances -> Instance]
BY DEF Go, TypeOK, Instance

LEMMA ExitType ==
  ASSUME TypeOK, NEW i \in Instances, Exit(i)
  PROVE  inst' \in [Instances -> Instance]
BY OffType DEF Exit, TypeOK

LEMMA AskType ==
  ASSUME TypeOK, NEW a \in Albums, Ask(a)
  PROVE  /\ inst' \in [Instances -> Instance]
         /\ requests' \in 0..MaxRequests
<1>1. ASSUME NEW r \in Instance PROVE [r EXCEPT !.current = FALSE] \in Instance
  BY DEF Instance
<1> QED
  BY <1>1, ResearchConstants DEF Ask, TypeOK

LEMMA FaultType == TypeOK /\ Fault => faults' \in 0..MaxFaults
BY ResearchConstants DEF TypeOK, Fault

LEMMA SavedType ==
  ASSUME TypeOK, NEW i \in Instances
  PROVE  Saved(i) \in [Albums -> 0..NudgeCooldown]
<1>1. inst[i].seen \in [Albums -> 0..NudgeCooldown]
  BY DEF TypeOK, Instance
<1> QED
  BY <1>1, ResearchConstants DEF Saved

LEMMA OlderType == \A m \in Nat : \A n \in 0..m : Older(n, m) \in 0..m /\ Older(n, m) <= n + 1
BY DEF Older

LEMMA TickType ==
  ASSUME TypeOK, Tick
  PROVE  /\ row' \in [Albums -> Row]
         /\ inst' \in [Instances -> Instance]
         /\ file' \in [Albums -> 0..NudgeCooldown]
         /\ quiet' \in [Albums -> 0..NudgeCooldown]
<1>1. ASSUME NEW r \in Row, NEW x \in 0..(StaleRunning + 1), NEW y \in 0..(GeniusWaitMax + 1)
      PROVE [r EXCEPT !.age = x, !.waited = y] \in Row
  BY DEF Row
<1>2. ASSUME NEW a \in Albums PROVE row'[a] \in Row
  <2>1. row[a] \in Row
    BY DEF TypeOK
  <2>2. row[a].age \in 0..(StaleRunning + 1) /\ row[a].waited \in 0..(GeniusWaitMax + 1)
    BY <2>1 DEF Row
  <2>3. StaleRunning + 1 \in Nat /\ GeniusWaitMax + 1 \in Nat
    BY ResearchConstants
  <2>4. /\ Older(row[a].age, StaleRunning + 1) \in 0..(StaleRunning + 1)
        /\ Older(row[a].waited, GeniusWaitMax + 1) \in 0..(GeniusWaitMax + 1)
    BY <2>2, <2>3, OlderType
  <2> QED
    BY <1>1, <2>1, <2>2, <2>4 DEF Tick
<1>3. ASSUME NEW r \in Instance, NEW n \in 0..CallMax, NEW d \in 0..(Slack + 1),
             NEW f \in [Albums -> 0..NudgeCooldown]
      PROVE [r EXCEPT !.time = n, !.delay = d, !.seen = f] \in Instance
  BY DEF Instance
<1>4. ASSUME NEW i \in Instances PROVE inst'[i] \in Instance
  <2> DEFINE n == IF inst[i].phase = "call" THEN inst[i].time + 1 ELSE inst[i].time
             d == IF Beside(i) THEN Older(inst[i].delay, Slack + 1) ELSE inst[i].delay
             f == IF inst[i].phase = "nudge"
                  THEN [a \in Albums |-> Older(inst[i].seen[a], NudgeCooldown)] ELSE inst[i].seen
  <2>1. /\ inst[i] \in Instance /\ inst[i].time \in 0..CallMax /\ inst[i].delay \in 0..(Slack + 1)
        /\ inst[i].seen \in [Albums -> 0..NudgeCooldown]
    BY DEF TypeOK, Instance
  <2>2. n \in 0..CallMax
    <3>1. inst[i].phase = "call" => inst[i].time < CallMax
      BY DEF Tick
    <3> QED
      BY <2>1, <3>1, Zero
  <2>3. d \in 0..(Slack + 1)
    <3>1. Slack + 1 \in Nat
      BY Zero
    <3>2. Older(inst[i].delay, Slack + 1) \in 0..(Slack + 1)
      BY <2>1, <3>1, OlderType
    <3> QED
      BY <2>1, <3>2
  <2>4. f \in [Albums -> 0..NudgeCooldown]
    BY <2>1, OlderType, ResearchConstants
  <2>5. inst'[i] = [inst[i] EXCEPT !.time = n, !.delay = d, !.seen = f]
    BY <2>1 DEF Tick, Instance
  <2> HIDE DEF n, d, f
  <2>6. [inst[i] EXCEPT !.time = n, !.delay = d, !.seen = f] \in Instance
    BY <1>3, <2>1, <2>2, <2>3, <2>4
  <2> QED
    BY <2>5, <2>6
<1> QED
  BY <1>2, <1>4, OlderType, ResearchConstants DEF Tick, TypeOK

(* Every step keeps the types. *)
LEMMA TypeStep ==
  ASSUME TypeOK, [Next]_vars
  PROVE  TypeOK'
<1> USE ResearchConstants DEF nudging
<1>1. ASSUME NEW a \in Albums, Enqueue(a) PROVE TypeOK'
  <2>1. inst' \in [Instances -> Instance] /\ requests' \in 0..MaxRequests
    BY <1>1, AskType DEF Enqueue
  <2>2. row' \in [Albums -> Row]
    BY <1>1 DEF Enqueue, TypeOK, Row
  <2> QED
    BY <1>1, <2>1, <2>2 DEF Enqueue, Ask, Latest, TypeOK
<1>2. ASSUME NEW a \in Albums, Restart(a) PROVE TypeOK'
  <2>1. inst' \in [Instances -> Instance] /\ requests' \in 0..MaxRequests
    BY <1>2, AskType DEF Restart
  <2>2. row' \in [Albums -> Row]
    <3>1. PICK again \in BOOLEAN :
            row' = [row EXCEPT ![a].status = "queued", ![a].note = FALSE, ![a].served = FALSE,
                               ![a].waited = IF again THEN 0 ELSE @]
      BY <1>2 DEF Restart
    <3>2. row[a] \in Row
      BY DEF TypeOK
    <3>3. [row[a] EXCEPT !.status = "queued", !.note = FALSE, !.served = FALSE,
                         !.waited = IF again THEN 0 ELSE @] \in Row
      BY <3>2, Zero DEF Row
    <3> QED
      BY <3>1, <3>3 DEF TypeOK
  <2> QED
    BY <1>2, <2>1, <2>2 DEF Restart, Ask, Latest, TypeOK
<1>3. ASSUME NEW a \in Albums, Refine(a) PROVE TypeOK'
  <2>1. inst' \in [Instances -> Instance] /\ requests' \in 0..MaxRequests
    BY <1>3, AskType DEF Refine
  <2>2. row' \in [Albums -> Row]
    BY <1>3 DEF Refine, TypeOK, Row
  <2> QED
    BY <1>3, <2>1, <2>2 DEF Refine, Ask, Latest, TypeOK
<1>4. ASSUME NEW a \in Albums, Collect(a) PROVE TypeOK'
  BY <1>4 DEF Collect, TypeOK
<1>5. ASSUME NEW i \in Instances, Start(i) PROVE TypeOK'
  <2>1. inst' \in [Instances -> Instance]
    BY <1>5, GoType DEF Start, Phases
  <2> QED
    BY <1>5, <2>1 DEF Start, TypeOK
<1>6. ASSUME NEW i \in Instances, Preflight(i) PROVE TypeOK'
  <2>1. inst' \in [Instances -> Instance]
    BY <1>6, GoType, ExitType DEF Preflight, Phases
  <2> QED
    BY <1>6, <2>1 DEF Preflight, TypeOK
<1>7. ASSUME NEW i \in Instances, NudgeRead(i) PROVE TypeOK'
  <2>1. \A r \in Instance, p \in Phases, S \in SUBSET Albums, f \in [Albums -> 0..NudgeCooldown] :
            [r EXCEPT !.phase = p, !.due = S, !.seen = f] \in Instance
    BY <1>7 DEF Instance
  <2>2. inst[i] \in Instance /\ inst[i].seen \in [Albums -> 0..NudgeCooldown]
    BY <1>7 DEF TypeOK, Instance
  <2>3. inst' \in [Instances -> Instance]
    <3>1. CASE Go(i, "claim")
      BY <3>1, GoType DEF Phases
    <3>2. CASE ~Go(i, "claim")
      <4> DEFINE due == {a \in Pending : file[a] >= NudgeCooldown}
                 r == [inst[i] EXCEPT !.phase = IF due = {} THEN "claim" ELSE "nudge", !.due = due,
                                      !.seen = IF due = {} THEN @ ELSE file]
      <4>1. inst' = [inst EXCEPT ![i] = r]
        BY <1>7, <3>2 DEF NudgeRead
      <4>2. due \in SUBSET Albums
        BY DEF Pending
      <4>3. (IF due = {} THEN inst[i].seen ELSE file) \in [Albums -> 0..NudgeCooldown]
        BY <2>2 DEF TypeOK
      <4>4. r \in Instance
        BY <2>1, <2>2, <4>2, <4>3 DEF Phases
      <4> QED
        BY <4>1, <4>4 DEF TypeOK
    <3> QED
      BY <3>1, <3>2
  <2>4. faults' \in 0..MaxFaults
    BY <1>7, FaultType DEF NudgeRead, TypeOK
  <2> QED
    BY <1>7, <2>1, <2>2, <2>3, <2>4 DEF NudgeRead, TypeOK
<1>8. ASSUME NEW i \in Instances, NudgeSend(i) PROVE TypeOK'
  <2>1. inst' \in [Instances -> Instance]
    BY <1>8, OffType DEF NudgeSend, TypeOK, Phases
  <2>2. faults' \in 0..MaxFaults /\ file' \in [Albums -> 0..NudgeCooldown]
    BY <1>8, FaultType, SavedType DEF NudgeSend, TypeOK
  <2>3. inst[i].due \subseteq Albums
    BY <1>8 DEF TypeOK, Instance
  <2> QED
    BY <1>8, <2>1, <2>2, <2>3 DEF NudgeSend, TypeOK
<1>9. ASSUME NEW i \in Instances, Claim(i) PROVE TypeOK'
  <2>1. PICK a \in Albums :
          /\ row' = [row EXCEPT ![a].status = "running", ![a].age = 0]
          /\ inst' = [inst EXCEPT ![i] = [Off EXCEPT !.phase = "read", !.album = a]]
    BY <1>9 DEF Claim, Candidates
  <2>2. [Off EXCEPT !.phase = "read", !.album = a] \in Instance
    BY OffType DEF Phases
  <2>3. inst' \in [Instances -> Instance]
    BY <2>1, <2>2 DEF TypeOK
  <2>4. row' \in [Albums -> Row]
    BY <2>1, Zero DEF TypeOK, Row
  <2>5. wasted' \in [Instances -> Nat]
    BY <1>9 DEF Claim, TypeOK
  <2>6. late' \subseteq Albums
    BY <1>9 DEF Claim, TypeOK
  <2> QED
    BY <1>9, <2>3, <2>4, <2>5, <2>6 DEF Claim, TypeOK
<1>10. ASSUME NEW i \in Instances, ClaimNone(i) PROVE TypeOK'
  <2>1. inst' \in [Instances -> Instance]
    BY <1>10, GoType, ExitType DEF ClaimNone, Phases
  <2> QED
    BY <1>10, <2>1 DEF ClaimNone, TypeOK
<1>11. ASSUME NEW i \in Instances, Read(i) PROVE TypeOK'
  <2>1. inst' \in [Instances -> Instance]
    BY <1>11, GoType DEF Read, Phases
  <2>2. faults' \in 0..MaxFaults
    BY <1>11, FaultType DEF Read, TypeOK
  <2> QED
    BY <1>11, <2>1, <2>2 DEF Read, TypeOK
<1>12. ASSUME NEW i \in Instances, Acquire(i) PROVE TypeOK'
  <2>1. inst' \in [Instances -> Instance]
    BY <1>12, GoType, ExitType DEF Acquire, Phases
  <2> QED
    BY <1>12, <2>1 DEF Acquire, TypeOK
<1>13. ASSUME NEW i \in Instances, MarkDone(i) PROVE TypeOK'
  <2>1. inst[i].current \in BOOLEAN
    BY <1>13 DEF TypeOK, Instance
  <2>2. \A r \in Instance : [r EXCEPT !.current = FALSE] \in Instance
    BY <1>13 DEF Instance
  <2>3. inst' \in [Instances -> Instance]
    <3>1. CASE Go(i, "fail")
      BY <3>1, GoType DEF Phases
    <3>2. CASE ~Go(i, "fail")
      <4>1. [Off EXCEPT !.phase = "top"] \in Instance
        BY OffType DEF Phases
      <4>2. \A j \in Instances : inst[j] \in Instance /\ [inst[j] EXCEPT !.current = FALSE] \in Instance
        BY <2>2 DEF TypeOK
      <4> QED
        BY <1>13, <3>2, <4>1, <4>2 DEF MarkDone
    <3> QED
      BY <3>1, <3>2
  <2>4. row' \in [Albums -> Row]
    BY <1>13, <2>1 DEF MarkDone, TypeOK, Row
  <2>5. faults' \in 0..MaxFaults
    BY <1>13, FaultType DEF MarkDone, TypeOK
  <2> QED
    BY <1>13, <2>1, <2>2, <2>3, <2>4, <2>5 DEF MarkDone, TypeOK
<1>14. ASSUME NEW i \in Instances, MarkFailed(i) PROVE TypeOK'
  <2>1. inst' \in [Instances -> Instance]
    BY <1>14, OffType, ExitType DEF MarkFailed, TypeOK, Phases
  <2>2. row' \in [Albums -> Row]
    <3>1. ASSUME NEW r \in Row PROVE [r EXCEPT !.status = "failed", !.age = 0] \in Row
      BY Zero DEF Row
    <3>2. inst[i].album \in Albums => Failed(inst[i].album) \in Row
      BY <3>1 DEF TypeOK, Failed
    <3> QED
      BY <1>14, <3>2 DEF MarkFailed, TypeOK
  <2>3. faults' \in 0..MaxFaults
    BY <1>14, FaultType DEF MarkFailed, TypeOK
  <2> QED
    BY <1>14, <2>1, <2>2, <2>3 DEF MarkFailed, TypeOK
<1>15. ASSUME NEW i \in Instances, CallSucceeds(i) PROVE TypeOK'
  <2>1. inst' \in [Instances -> Instance]
    BY <1>15, GoType DEF CallSucceeds, Phases
  <2> QED
    BY <1>15, <2>1 DEF CallSucceeds, TypeOK
<1>16. ASSUME NEW i \in Instances, CallFails(i) PROVE TypeOK'
  <2>1. inst' \in [Instances -> Instance]
    BY <1>16, GoType DEF CallFails, Phases
  <2> QED
    BY <1>16, <2>1 DEF CallFails, TypeOK
<1>17. ASSUME NEW i \in Instances, Crash(i) PROVE TypeOK'
  <2>1. inst' \in [Instances -> Instance]
    BY <1>17, ExitType DEF Crash
  <2>2. faults' \in 0..MaxFaults
    BY <1>17, FaultType DEF Crash
  <2> QED
    BY <1>17, <2>1, <2>2 DEF Crash, TypeOK
<1>18. ASSUME OtherTakes PROVE TypeOK'
  BY <1>18 DEF OtherTakes, TypeOK
<1>19. ASSUME OtherEnds PROVE TypeOK'
  BY <1>19 DEF OtherEnds, TypeOK
<1>20. ASSUME OtherDies PROVE TypeOK'
  BY <1>20, FaultType DEF OtherDies, TypeOK
<1>21. ASSUME CoolsOff PROVE TypeOK'
  BY <1>21 DEF CoolsOff, TypeOK
<1>22. ASSUME Tick PROVE TypeOK'
  BY <1>22, TickType DEF Tick, TypeOK
<1>23. CASE UNCHANGED vars
  BY <1>23 DEF vars, TypeOK
<1> QED
  BY <1>1, <1>2, <1>3, <1>4, <1>5, <1>6, <1>7, <1>8, <1>9, <1>10, <1>11, <1>12, <1>13, <1>14, <1>15, <1>16, <1>17, <1>18, <1>19, <1>20, <1>21, <1>22, <1>23 DEF Next, Owner, Step

LEMMA TypeInit == Init => TypeOK
<1> SUFFICES ASSUME Init PROVE TypeOK
  OBVIOUS
<1>1. [status |-> "none", age |-> 0, waited |-> 0, note |-> FALSE, served |-> TRUE] \in Row
  BY Zero DEF Row
<1>2. inst \in [Instances -> Instance]
  BY OffType DEF Init
<1> QED
  BY <1>1, <1>2, ResearchConstants DEF Init, TypeOK

(* Requests, rows and instances only ever hold what their types allow. *)
THEOREM TypeCorrect == Spec => []TypeOK
BY TypeInit, TypeStep, PTL DEF Spec

-----------------------------------------------------------------------------
(* A row being worked on is stale, or not running at all, only if its album is
   late: otherwise nobody takes it. *)
LEMMA OwnFacts ==
  ASSUME IInv, NEW i \in Instances, inst[i].phase \in Working
  PROVE  /\ inst[i].album \in Albums
         /\ inst[i].album \notin late =>
              /\ row[inst[i].album].status = "running"
              /\ ~Stale(inst[i].album)
              /\ ~Claimable(inst[i].album)
<1>1. inst[i].album \in Albums
  BY DEF IInv, Safe, Own
<1>2. ASSUME inst[i].album \notin late
      PROVE  /\ row[inst[i].album].status = "running"
             /\ row[inst[i].album].age <= StaleRunning
  <2>1. /\ row[inst[i].album].status = "running"
        /\ row[inst[i].album].age <= inst[i].delay + inst[i].time /\ inst[i].delay <= Slack
    BY <1>2 DEF IInv, Safe, Own
  <2>2. /\ row[inst[i].album].age \in 0..(StaleRunning + 1)
        /\ inst[i].delay \in 0..(Slack + 1) /\ inst[i].time \in 0..CallMax
    BY <1>1 DEF IInv, TypeOK, Row, Instance
  <2> QED
    BY <2>1, <2>2, Zero, ResearchConstants
<1>3. row[inst[i].album].age \in 0..(StaleRunning + 1)
  BY <1>1 DEF IInv, TypeOK, Row
<1> QED
  BY <1>1, <1>2, <1>3, ResearchConstants DEF Stale, Claimable

(* Of two instances at one row, the album is late. *)
LEMMA Alone ==
  ASSUME IInv, NEW i \in Instances, inst[i].phase \in Working, inst[i].album \notin late,
         NEW j \in Instances \ {i}
  PROVE  ~Holds(j, inst[i].album)
BY OwnFacts DEF IInv, Safe, DoubleRunsAreLate, Holds

(* A request only reaches a row nobody works on, or a late one. *)
LEMMA AskStep ==
  ASSUME IInv, NEW a \in Albums, Ask(a), row[a].status # "running" \/ Stale(a),
         row'[a].status = "queued", \A b \in Albums \ {a} : row'[b] = row[b]
  PROVE  Safe'
<1>1. late' = late
  BY DEF Ask
<1>2. \A i \in Instances : Holds(i, a) => a \in late
  BY OwnFacts DEF Holds
<1>3. \A i \in Instances : /\ inst[i] \in Instance
                           /\ inst'[i].phase = inst[i].phase /\ inst'[i].album = inst[i].album
                           /\ ~Holds(i, a) => inst'[i] = inst[i]
  BY DEF Ask, IInv, TypeOK, Instance
<1>4. ASSUME NEW i \in Instances PROVE Own(i)'
  <2>1. CASE Holds(i, a)
    BY <1>1, <1>2, <1>3, <2>1 DEF Own, Holds
  <2>2. CASE ~Holds(i, a)
    <3>1. inst'[i] = inst[i] /\ Own(i)
      BY <1>3, <2>2 DEF IInv, Safe
    <3>2. inst[i].phase \in Working => row'[inst[i].album] = row[inst[i].album]
      BY <2>2, <3>1 DEF Own, Holds
    <3> QED
      BY <1>1, <3>1, <3>2 DEF Own
  <2> QED
    BY <2>1, <2>2
<1>5. DoubleRunsAreLate'
  BY <1>1, <1>3 DEF IInv, Safe, DoubleRunsAreLate, Holds
<1>6. DoneIsLatest'
  BY <1>1 DEF IInv, Safe, DoneIsLatest
<1> QED
  BY <1>4, <1>5, <1>6 DEF Safe

(* A step of one instance that writes no row and takes none. *)
LEMMA LocalStep ==
  ASSUME Safe, TypeOK, NEW i \in Instances,
         UNCHANGED <<row, late>>, \A j \in Instances \ {i} : inst'[j] = inst[j],
         Own(i)',
         inst'[i].phase \in Working => inst[i].phase \in Working /\ inst'[i].album = inst[i].album
  PROVE  Safe'
<1>1. \A j \in Instances : Own(j)'
  BY DEF Safe, Own
<1>2. DoubleRunsAreLate'
  BY DEF Safe, DoubleRunsAreLate, Holds
<1> QED
  BY <1>1, <1>2 DEF Safe, DoneIsLatest

LEMMA ExitStep ==
  ASSUME Safe, TypeOK, NEW i \in Instances, UNCHANGED <<row, late>>, Exit(i)
  PROVE  Safe'
<1>1. inst'[i].phase = "off" /\ \A j \in Instances \ {i} : inst'[j] = inst[j]
  BY DEF Exit, Off, TypeOK
<1> QED
  BY <1>1, LocalStep DEF Own, Working

(* An instance moves on to a phase without a row. *)
LEMMA IdleStep ==
  ASSUME Safe, TypeOK, NEW i \in Instances, UNCHANGED <<row, late>>,
         \A j \in Instances \ {i} : inst'[j] = inst[j], inst'[i].phase \notin Working
  PROVE  Safe'
BY LocalStep DEF Own, Working

(* An instance at work goes on with its row. *)
LEMMA WorkStep ==
  ASSUME Safe, TypeOK, NEW i \in Instances, UNCHANGED <<row, late>>,
         inst[i].phase \in Working, NEW p \in Working, Go(i, p)
  PROVE  Safe'
<1>1. /\ inst'[i] = [inst[i] EXCEPT !.phase = p]
      /\ \A j \in Instances \ {i} : inst'[j] = inst[j]
  BY DEF Go, TypeOK
<1>2. /\ inst'[i].phase = p /\ inst'[i].album = inst[i].album /\ inst'[i].time = inst[i].time
      /\ inst'[i].delay = inst[i].delay /\ inst'[i].current = inst[i].current
  BY <1>1 DEF TypeOK, Instance
<1>3. Own(i)'
  BY <1>2 DEF Safe, Own
<1> QED
  BY <1>1, <1>2, <1>3, LocalStep

(* An instance writes the end of its run and lets go of the row. *)
LEMMA EndStep ==
  ASSUME IInv, NEW i \in Instances, inst[i].phase \in Working, UNCHANGED late,
         inst'[i].phase = "top",
         \A j \in Instances \ {i} :
            /\ inst'[j].phase = inst[j].phase /\ inst'[j].album = inst[j].album
            /\ ~Holds(j, inst[i].album) => inst'[j] = inst[j],
         \A b \in Albums \ {inst[i].album} : row'[b] = row[b],
         \/ row'[inst[i].album].status = "failed"
         \/ inst[i].album \notin late => row'[inst[i].album].served /\ row'[inst[i].album].note
  PROVE  Safe'
<1> DEFINE a == inst[i].album
<1>0. a \in Albums
  BY OwnFacts
<1>1. \A j \in Instances \ {i} : Holds(j, a) => a \in late
  BY Alone
<1>2. Own(i)'
  BY DEF Own, Working
<1>3. ASSUME NEW j \in Instances \ {i} PROVE Own(j)'
  <2>1. CASE Holds(j, a)
    BY <1>0, <1>1, <2>1 DEF Own, Holds
  <2>2. CASE ~Holds(j, a)
    <3>1. inst'[j] = inst[j] /\ Own(j)
      BY <2>2 DEF IInv, Safe
    <3>2. inst[j].phase \in Working => row'[inst[j].album] = row[inst[j].album]
      BY <2>2, <3>1 DEF Own, Holds
    <3> QED
      BY <3>1, <3>2 DEF Own
  <2> QED
    BY <2>1, <2>2
<1>4. DoubleRunsAreLate'
  <2>1. \A j \in Instances, b \in Albums : Holds(j, b)' => Holds(j, b)
    BY DEF Holds, Working
  <2> QED
    BY <2>1 DEF IInv, Safe, DoubleRunsAreLate
<1>5. DoneIsLatest'
  BY DEF IInv, Safe, DoneIsLatest
<1> QED
  BY <1>2, <1>3, <1>4, <1>5 DEF Safe

(* A claim takes a row nobody works on, or a late one. *)
LEMMA ClaimStep ==
  ASSUME IInv, NEW i \in Instances, Claim(i)
  PROVE  Safe'
<1>1. PICK a \in Albums :
        /\ Claimable(a)
        /\ row' = [row EXCEPT ![a].status = "running", ![a].age = 0]
        /\ inst' = [inst EXCEPT ![i] = [Off EXCEPT !.phase = "read", !.album = a]]
        /\ late' = IF \E j \in Instances : Holds(j, a) THEN late ELSE late \ {a}
  BY DEF Claim, Candidates
<1>2. /\ \A b \in Albums \ {a} : row'[b] = row[b]
      /\ row'[a].status = "running" /\ row'[a].age = 0
  BY <1>1 DEF IInv, TypeOK, Row
<1>3. /\ inst'[i].phase = "read" /\ inst'[i].album = a /\ inst'[i].delay = 0
      /\ inst'[i].time = 0 /\ inst'[i].current
      /\ \A j \in Instances \ {i} : inst'[j] = inst[j]
  BY <1>1 DEF Off, IInv, TypeOK
<1>4. \A j \in Instances : Holds(j, a) => a \in late /\ late' = late
  BY <1>1, OwnFacts DEF Holds
<1>5. \A b \in Albums \ {a} : b \in late' <=> b \in late
  BY <1>1
<1>6. Own(i)'
  BY <1>2, <1>3, Zero DEF Own
<1>7. ASSUME NEW j \in Instances \ {i} PROVE Own(j)'
  <2>1. inst'[j] = inst[j] /\ Own(j)
    BY <1>3 DEF IInv, Safe
  <2>2. CASE Holds(j, a)
    BY <1>4, <2>1, <2>2 DEF Own, Holds
  <2>3. CASE ~Holds(j, a)
    <3>1. inst[j].phase \in Working =>
            /\ inst[j].album \in Albums \ {a} /\ row'[inst[j].album] = row[inst[j].album]
            /\ inst[j].album \in late' <=> inst[j].album \in late
      BY <1>2, <1>5, <2>1, <2>3 DEF Own, Holds
    <3> QED
      BY <2>1, <3>1 DEF Own
  <2> QED
    BY <2>2, <2>3
<1>8. DoubleRunsAreLate'
  <2>1. \A j \in Instances, b \in Albums : Holds(j, b)' => Holds(j, b) \/ (j = i /\ b = a)
    BY <1>3 DEF Holds
  <2>2. ~\E b \in Albums : Holds(i, b)
    BY DEF Claim, Holds, Working
  <2> QED
    BY <1>4, <1>5, <2>1, <2>2 DEF IInv, Safe, DoubleRunsAreLate
<1>9. DoneIsLatest'
  BY <1>2, <1>5 DEF IInv, Safe, DoneIsLatest
<1> QED
  BY <1>6, <1>7, <1>8, <1>9 DEF Safe

(* Time ages a row no faster than the instance at it, or makes its album late. *)
LEMMA TickStep ==
  ASSUME IInv, Tick
  PROVE  Safe'
<1>0. /\ \A i \in Instances : inst[i] \in Instance
      /\ \A a \in Albums : row[a] \in Row /\ row[a].age \in 0..(StaleRunning + 1)
  BY DEF IInv, TypeOK, Row
<1>1. ASSUME NEW a \in Albums
      PROVE  /\ row'[a].status = row[a].status /\ row'[a].note = row[a].note
             /\ row'[a].served = row[a].served
             /\ row'[a].age \in 0..(StaleRunning + 1) /\ row'[a].age <= row[a].age + 1
  <2>1. /\ row'[a].status = row[a].status /\ row'[a].note = row[a].note
        /\ row'[a].served = row[a].served
        /\ row'[a].age = IF row[a].status = "running" THEN Older(row[a].age, StaleRunning + 1)
                         ELSE row[a].age
    BY <1>0 DEF Tick, Row
  <2>2. StaleRunning + 1 \in Nat /\ row[a].age \in 0..(StaleRunning + 1)
    BY <1>0, ResearchConstants
  <2>3. /\ Older(row[a].age, StaleRunning + 1) \in 0..(StaleRunning + 1)
        /\ Older(row[a].age, StaleRunning + 1) <= row[a].age + 1
    BY <2>2, OlderType
  <2>4. row[a].age <= row[a].age + 1
    BY <2>2
  <2> QED
    BY <2>1, <2>2, <2>3, <2>4
<1>2. ASSUME NEW i \in Instances
      PROVE  /\ inst'[i].phase = inst[i].phase /\ inst'[i].album = inst[i].album
             /\ inst'[i].current = inst[i].current
             /\ inst'[i].time = IF inst[i].phase = "call" THEN inst[i].time + 1 ELSE inst[i].time
             /\ inst'[i].delay = IF Beside(i) THEN Older(inst[i].delay, Slack + 1)
                                 ELSE inst[i].delay
  BY <1>0 DEF Tick, Instance
<1>3. late \subseteq late'
  BY DEF Tick
<1>4. ASSUME NEW i \in Instances, inst[i].phase \in Working, inst[i].album \notin late'
      PROVE  /\ row'[inst[i].album].status = "running"
             /\ row'[inst[i].album].age <= inst'[i].delay + inst'[i].time
             /\ inst'[i].delay <= Slack
             /\ inst'[i].current
  <2> DEFINE a == inst[i].album
  <2>1. /\ a \in Albums /\ row[a].status = "running" /\ inst[i].current
        /\ row[a].age <= inst[i].delay + inst[i].time /\ inst[i].delay <= Slack
    BY <1>3, <1>4 DEF IInv, Safe, Own
  <2>2. inst[i].delay \in 0..(Slack + 1) /\ inst[i].time \in 0..CallMax
    BY <1>0 DEF Instance
  <2>3. row'[a].status = "running" /\ row'[a].age \in Nat /\ row'[a].age <= row[a].age + 1
    BY <1>1, <2>1, ResearchConstants
  <2>4. row[a].age \in Nat
    BY <1>0, <2>1, ResearchConstants
  <2>5. CASE inst[i].phase = "call"
    <3>1. inst'[i].time = inst[i].time + 1 /\ inst'[i].delay = inst[i].delay
      BY <1>2, <2>5 DEF Beside
    <3> QED
      BY <1>2, <2>1, <2>2, <2>3, <2>4, <3>1, Zero
  <2>6. CASE inst[i].phase # "call"
    <3>1. Beside(i)
      BY <1>4, <2>6 DEF Beside
    <3>2. ~(inst[i].delay >= Slack)
      BY <1>4, <2>1, <3>1 DEF Tick
    <3>3. inst'[i].time = inst[i].time /\ inst'[i].delay = Older(inst[i].delay, Slack + 1)
      BY <1>2, <2>6, <3>1
    <3>4. inst'[i].delay = inst[i].delay + 1 /\ inst'[i].delay <= Slack
      BY <2>2, <3>2, <3>3, Zero DEF Older
    <3> QED
      BY <1>2, <2>1, <2>2, <2>3, <2>4, <3>3, <3>4, Zero
  <2> QED
    BY <2>5, <2>6
<1>5. \A i \in Instances : inst[i].phase \in Working => inst[i].album \in Albums
  BY DEF IInv, Safe, Own
<1>6. \A i \in Instances : Own(i)'
  BY <1>2, <1>4, <1>5 DEF Own
<1>7. DoubleRunsAreLate'
  BY <1>2, <1>3 DEF IInv, Safe, DoubleRunsAreLate, Holds
<1>8. DoneIsLatest'
  BY <1>1, <1>3 DEF IInv, Safe, DoneIsLatest
<1> QED
  BY <1>6, <1>7, <1>8 DEF Safe

LEMMA SafeStep ==
  ASSUME IInv, [Next]_vars
  PROVE  Safe'
<1> USE DEF nudging
<1>0. /\ TypeOK /\ Safe
      /\ \A i \in Instances : inst[i] \in Instance
      /\ \A a \in Albums : row[a] \in Row
  BY DEF IInv, TypeOK
<1>1. ASSUME NEW a \in Albums, Enqueue(a) PROVE Safe'
  <2>1. Ask(a) /\ row'[a].status = "queued" /\ \A b \in Albums \ {a} : row'[b] = row[b]
    BY <1>1, <1>0 DEF Enqueue, TypeOK, Row
  <2> QED
    BY <1>1, <2>1, AskStep DEF Enqueue
<1>2. ASSUME NEW a \in Albums, Restart(a) PROVE Safe'
  <2>1. Ask(a) /\ row'[a].status = "queued" /\ \A b \in Albums \ {a} : row'[b] = row[b]
    BY <1>2, <1>0 DEF Restart, TypeOK, Row
  <2> QED
    BY <1>2, <2>1, AskStep DEF Restart
<1>3. ASSUME NEW a \in Albums, Refine(a) PROVE Safe'
  <2>1. Ask(a) /\ row'[a].status = "queued" /\ \A b \in Albums \ {a} : row'[b] = row[b]
    BY <1>3, <1>0 DEF Refine, TypeOK, Row
  <2> QED
    BY <1>3, <2>1, AskStep DEF Refine
<1>4. ASSUME NEW i \in Instances, Start(i) \/ Preflight(i) \/ ClaimNone(i) PROVE Safe'
  <2>1. UNCHANGED <<row, late>>
    BY <1>4 DEF Start, Preflight, ClaimNone
  <2>2. CASE Exit(i)
    BY <1>0, <2>1, <2>2, ExitStep
  <2>3. CASE \E p \in {"top", "held"} : Go(i, p)
    <3>1. inst'[i].phase \notin Working /\ \A j \in Instances \ {i} : inst'[j] = inst[j]
      BY <1>0, <2>3 DEF Go, TypeOK, Working, Instance
    <3> QED
      BY <1>0, <2>1, <3>1, IdleStep
  <2> QED
    BY <1>4, <2>2, <2>3 DEF Start, Preflight, ClaimNone
<1>5. ASSUME NEW i \in Instances, NudgeRead(i) PROVE Safe'
  <2>1. inst'[i].phase \notin Working /\ \A j \in Instances \ {i} : inst'[j] = inst[j]
    <3>1. CASE Go(i, "claim")
      BY <3>1, <1>0 DEF Go, TypeOK, Working, Instance
    <3>2. CASE ~Go(i, "claim")
      <4>1. PICK S, f : inst' = [inst EXCEPT ![i].phase = IF S = {} THEN "claim" ELSE "nudge",
                                             ![i].due = S, ![i].seen = f]
        BY <1>5, <3>2 DEF NudgeRead
      <4> QED
        BY <4>1, <1>0 DEF TypeOK, Working, Instance
    <3> QED
      BY <3>1, <3>2
  <2>2. UNCHANGED <<row, late>>
    BY <1>5 DEF NudgeRead
  <2> QED
    BY <2>1, <2>2, <1>0, IdleStep
<1>6. ASSUME NEW i \in Instances, NudgeSend(i) PROVE Safe'
  <2>1. UNCHANGED <<row, late>> /\ inst' = [inst EXCEPT ![i] = [Off EXCEPT !.phase = "claim"]]
    BY <1>6 DEF NudgeSend
  <2>2. inst'[i].phase = "claim" /\ \A j \in Instances \ {i} : inst'[j] = inst[j]
    BY <1>0, <2>1 DEF TypeOK, Off
  <2> QED
    BY <1>0, <2>1, <2>2, IdleStep DEF Working
<1>7. ASSUME NEW i \in Instances, Claim(i) PROVE Safe'
  BY <1>7, ClaimStep
<1>8. ASSUME NEW i \in Instances, Read(i) \/ Acquire(i) \/ CallSucceeds(i) \/ CallFails(i)
      PROVE  Safe'
  <2>1. UNCHANGED <<row, late>> /\ inst[i].phase \in Working
    BY <1>8 DEF Read, Acquire, CallSucceeds, CallFails, Working
  <2>2. CASE Exit(i)
    BY <1>0, <2>1, <2>2, ExitStep
  <2>3. CASE \E p \in {"lock", "fail", "call", "done"} : Go(i, p)
    BY <1>0, <2>1, <2>3, WorkStep DEF Working
  <2> QED
    BY <1>8, <2>2, <2>3 DEF Read, Acquire, CallSucceeds, CallFails
<1>9. ASSUME NEW i \in Instances, MarkDone(i) PROVE Safe'
  <2> DEFINE a == inst[i].album
  <2>1. inst[i].phase = "done" /\ inst[i].phase \in Working /\ a \in Albums /\ UNCHANGED late
    BY <1>9, <1>0 DEF MarkDone, Safe, Own, Working
  <2>2. CASE Go(i, "fail") /\ row' = row
    BY <1>0, <2>1, <2>2, WorkStep DEF Working
  <2>3. CASE ~(Go(i, "fail") /\ row' = row)
    <3>1. /\ row' = [row EXCEPT ![a].status = "done", ![a].age = 0, ![a].note = TRUE,
                               ![a].served = @ \/ inst[i].current]
          /\ inst' = [j \in Instances |->
                       IF j = i THEN [Off EXCEPT !.phase = "top"]
                       ELSE IF Holds(j, a) THEN [inst[j] EXCEPT !.current = FALSE] ELSE inst[j]]
      BY <1>9, <2>3 DEF MarkDone
    <3>2. /\ inst'[i].phase = "top"
          /\ \A j \in Instances \ {i} :
               /\ inst'[j].phase = inst[j].phase /\ inst'[j].album = inst[j].album
               /\ ~Holds(j, a) => inst'[j] = inst[j]
      BY <1>0, <3>1 DEF Off, Instance
    <3>3. /\ \A b \in Albums \ {a} : row'[b] = row[b]
          /\ row'[a].note /\ row'[a].served = (row[a].served \/ inst[i].current)
      <4>1. row \in [Albums -> Row] /\ row[a] \in Row
        BY <1>0, <2>1 DEF TypeOK
      <4>2. row' = [row EXCEPT ![a] = [row[a] EXCEPT !.status = "done", !.age = 0, !.note = TRUE,
                                                     !.served = row[a].served \/ inst[i].current]]
        BY <3>1, <4>1 DEF Row
      <4> HIDE DEF a
      <4>3. row'[a] = [row[a] EXCEPT !.status = "done", !.age = 0, !.note = TRUE,
                                     !.served = row[a].served \/ inst[i].current]
        BY <2>1, <4>1, <4>2
      <4>4. row'[a].note
        BY <4>1, <4>3 DEF Row
      <4>5. row'[a].served = (row[a].served \/ inst[i].current)
        BY <4>1, <4>3 DEF Row
      <4>6. \A b \in Albums \ {a} : row'[b] = row[b]
        BY <4>1, <4>2
      <4> QED
        BY <4>4, <4>5, <4>6
    <3>4. a \notin late => inst[i].current
      BY <1>0, <2>1 DEF Safe, Own
    <3> QED
      BY <2>1, <3>2, <3>3, <3>4, EndStep
  <2> QED
    BY <2>2, <2>3
<1>10. ASSUME NEW i \in Instances, MarkFailed(i) PROVE Safe'
  <2> DEFINE a == inst[i].album
  <2>1. inst[i].phase \in Working /\ a \in Albums /\ UNCHANGED late
    BY <1>10, <1>0 DEF MarkFailed, Safe, Own, Working
  <2>2. CASE Exit(i) /\ row' = row
    BY <1>0, <2>1, <2>2, ExitStep
  <2>3. CASE ~(Exit(i) /\ row' = row)
    <3>1. /\ row' = [row EXCEPT ![a] = Failed(a)]
          /\ inst' = [inst EXCEPT ![i] = [Off EXCEPT !.phase = "top"]]
      BY <1>10, <2>3 DEF MarkFailed
    <3>2. inst'[i].phase = "top" /\ \A j \in Instances \ {i} : inst'[j] = inst[j]
      BY <1>0, <3>1 DEF Off, TypeOK
    <3>3. row'[a].status = "failed" /\ \A b \in Albums \ {a} : row'[b] = row[b]
      BY <1>0, <2>1, <3>1 DEF Failed, TypeOK, Row
    <3> QED
      BY <2>1, <3>2, <3>3, EndStep
  <2> QED
    BY <2>2, <2>3
<1>11. ASSUME NEW i \in Instances, Crash(i) PROVE Safe'
  BY <1>11, <1>0, ExitStep DEF Crash
<1>12. CASE \/ \E a \in Albums : Collect(a)
            \/ OtherTakes \/ OtherEnds \/ OtherDies \/ CoolsOff \/ UNCHANGED vars
  <2>1. UNCHANGED <<row, inst, late>>
    BY <1>12 DEF Collect, OtherTakes, OtherEnds, OtherDies, CoolsOff, vars
  <2> QED
    BY <1>0, <2>1 DEF Safe, Own, DoubleRunsAreLate, DoneIsLatest, Holds
<1>13. CASE Tick
  BY <1>13, TickStep
<1> QED
  BY <1>1, <1>2, <1>3, <1>4, <1>5, <1>6, <1>7, <1>8, <1>9, <1>10, <1>11, <1>12, <1>13
  DEF Next, Owner, Step

(* What an instance can rely on holds in every state: its row is its own until
   it has spent more than Slack beside its call. *)
THEOREM Invariant == Spec => []IInv
<1>1. Init => IInv
  <2> SUFFICES ASSUME Init PROVE IInv
    OBVIOUS
  <2>1. TypeOK
    BY TypeInit
  <2>2. \A i \in Instances : inst[i].phase = "off"
    BY DEF Init, Off
  <2>3. \A a \in Albums : row[a].status = "none"
    BY DEF Init
  <2> QED
    BY <2>1, <2>2, <2>3 DEF IInv, Safe, Own, DoubleRunsAreLate, DoneIsLatest, Holds, Working
<1>2. IInv /\ [Next]_vars => IInv'
  BY TypeStep, SafeStep DEF IInv
<1> QED
  BY <1>1, <1>2, PTL DEF Spec

(* Two instances are at one row only after a run of it spent more than
   StaleRunning - CallMax beside its call. *)
THEOREM DoubleRunsLate == Spec => []DoubleRunsAreLate
<1>1. IInv => DoubleRunsAreLate
  BY DEF IInv, Safe
<1> QED
  BY <1>1, Invariant, PTL

(* A finished row answers the owner's last request, unless its album is late. *)
THEOREM RequestsAnsweredInTime == Spec => []DoneIsLatest
<1>1. IInv => DoneIsLatest
  BY DEF IInv, Safe
<1> QED
  BY <1>1, Invariant, PTL

(* No failure blanks a note, and only a late run replaces one unseen. *)
THEOREM NoNoteLost == Spec => NotesKept
<1> DEFINE Kept == \A a \in Albums :
             /\ row[a].note /\ ~row'[a].note => row'[a].status = "queued"
             /\ \A i \in Instances : Writes(i, a) => inst[i].current \/ a \in late
<1>1. ASSUME IInv, [Next]_vars PROVE Kept
  <2>1. ASSUME NEW a \in Albums, NEW i \in Instances, Writes(i, a)
        PROVE  inst[i].current \/ a \in late
    BY <1>1, <2>1 DEF IInv, Safe, Own, Writes, Working
  <2>2. ASSUME NEW a \in Albums, row[a].note, ~row'[a].note PROVE row'[a].status = "queued"
    <3> USE <1>1, <2>2 DEF IInv, TypeOK
    <3>0. row[a] \in Row /\ \A b \in Albums : row[b] \in Row
      OBVIOUS
    <3>1. ASSUME NEW b \in Albums, Enqueue(b) \/ Restart(b) \/ Refine(b) PROVE row'[a].status = "queued"
      BY <3>0, <3>1 DEF Enqueue, Restart, Refine, Row
    <3>2. ASSUME NEW i \in Instances, Claim(i) PROVE FALSE
      BY <3>0, <3>2 DEF Claim, Candidates, Row
    <3>3. ASSUME NEW i \in Instances, MarkDone(i) PROVE FALSE
      BY <3>0, <3>3 DEF MarkDone, Row
    <3>4. ASSUME NEW i \in Instances, MarkFailed(i) PROVE FALSE
      <4>1. PICK x : row' = [row EXCEPT ![x] = [row[x] EXCEPT !.status = "failed", !.age = 0]] \/ row' = row
        BY <3>4 DEF MarkFailed, Failed
      <4> QED
        BY <3>0, <4>1 DEF Row
    <3>5. ASSUME Tick PROVE FALSE
      BY <3>0, <3>5 DEF Tick, Row
    <3> QED
      BY <3>1, <3>2, <3>3, <3>4, <3>5
      DEF Next, Owner, Step, vars, Collect, Start, Preflight, NudgeRead, NudgeSend, ClaimNone,
          Read, Acquire, CallSucceeds, CallFails, Crash, OtherTakes, OtherEnds, OtherDies, CoolsOff
  <2> QED
    BY <2>1, <2>2
<1>2. IInv /\ [Next]_vars => [Kept]_vars
  BY <1>1
<1> QED
  BY <1>2, Invariant, PTL DEF Spec, NotesKept

-----------------------------------------------------------------------------
(* The cooldown and the nudges, whether or not a run is late. *)

(* From a preflight that passed to the claim. *)
Committed == {"held", "nudge", "claim"}

(* An instance that wasted a row knows of the cooldown at its next preflight. *)
Spared(i) == wasted[i] = 0 \/ (wasted[i] = 1 /\ cooling /\ inst[i].phase \notin Committed)

LEMMA SparedKept ==
  ASSUME NEW i \in Instances, Spared(i),
         wasted'[i] = wasted[i], cooling => cooling',
         inst'[i].phase \in Committed => inst[i].phase \in Committed \/ ~cooling
  PROVE  Spared(i)'
BY DEF Spared

(* Only a preflight without a cooldown commits an instance to a claim. *)
LEMMA Commits ==
  ASSUME TypeOK, [Next]_vars, ~CoolsOff, NEW i \in Instances
  PROVE  /\ cooling => cooling'
         /\ inst'[i].phase \in Committed => inst[i].phase \in Committed \/ ~cooling
<1> USE DEF Committed
<1>0. inst \in [Instances -> Instance] /\ inst[i] \in Instance
  BY DEF TypeOK
<1>1. ASSUME NEW j \in Instances, NEW p, Go(j, p), p \in Committed => inst[j].phase \in Committed
      PROVE  inst'[i].phase \in Committed => inst[i].phase \in Committed
  BY <1>0, <1>1 DEF Go, Instance
<1>2. ASSUME NEW j \in Instances, Exit(j)
      PROVE  inst'[i].phase \in Committed => inst[i].phase \in Committed
  BY <1>0, <1>2 DEF Exit, Off
<1>3. ASSUME NEW a \in Albums, Enqueue(a) \/ Restart(a) \/ Refine(a)
      PROVE  UNCHANGED cooling /\ inst'[i].phase = inst[i].phase
  <2>1. Ask(a)
    BY <1>3 DEF Enqueue, Restart, Refine
  <2> QED
    BY <1>0, <2>1 DEF Ask, Instance
<1>4. ASSUME NEW j \in Instances, Preflight(j)
      PROVE  UNCHANGED cooling /\ (inst'[i].phase \in Committed => inst[i].phase \in Committed \/ ~cooling)
  <2>1. CASE Passes
    BY <1>4, <2>1 DEF Preflight, Passes
  <2>2. CASE ~Passes
    BY <1>2, <1>4, <2>2 DEF Preflight
  <2> QED
    BY <2>1, <2>2
<1>5. ASSUME NEW j \in Instances, NudgeRead(j) \/ NudgeSend(j)
      PROVE  UNCHANGED cooling /\ (inst'[i].phase \in Committed => inst[i].phase \in Committed)
  <2>1. inst[j].phase \in Committed /\ UNCHANGED cooling
    BY <1>5 DEF NudgeRead, NudgeSend
  <2>2. \A k \in Instances \ {j} : inst'[k] = inst[k]
    BY <1>0, <1>5 DEF NudgeRead, NudgeSend, Go
  <2> QED
    BY <2>1, <2>2
<1>6. ASSUME NEW j \in Instances, Claim(j)
      PROVE  UNCHANGED cooling /\ (inst'[i].phase \in Committed => inst[i].phase \in Committed)
  <2>1. PICK a \in Albums : inst' = [inst EXCEPT ![j] = [Off EXCEPT !.phase = "read", !.album = a]]
    BY <1>6 DEF Claim, Candidates
  <2> QED
    BY <1>0, <1>6, <2>1 DEF Claim, Off
<1>7. ASSUME NEW j \in Instances, Start(j) \/ Read(j) \/ CallSucceeds(j) \/ CallFails(j)
      PROVE  (cooling => cooling') /\ (inst'[i].phase \in Committed => inst[i].phase \in Committed)
  <2>1. PICK p \in {"top", "lock", "fail", "done"} : Go(j, p)
    BY <1>7 DEF Start, Read, CallSucceeds, CallFails
  <2>2. cooling => cooling'
    BY <1>7 DEF Start, Read, CallSucceeds, CallFails
  <2> QED
    BY <1>1, <2>1, <2>2
<1>8. ASSUME NEW j \in Instances, ClaimNone(j) \/ Acquire(j) \/ Crash(j)
      PROVE  UNCHANGED cooling /\ (inst'[i].phase \in Committed => inst[i].phase \in Committed)
  <2>1. CASE Exit(j) \/ Go(j, "top")
    BY <1>1, <1>2, <1>8, <2>1 DEF ClaimNone, Acquire, Crash
  <2>2. CASE Go(j, "call")
    BY <1>1, <1>8, <2>2 DEF ClaimNone, Acquire, Crash
  <2> QED
    BY <1>8, <2>1, <2>2 DEF ClaimNone, Acquire, Crash
<1>9. ASSUME NEW j \in Instances, MarkDone(j)
      PROVE  UNCHANGED cooling /\ (inst'[i].phase \in Committed => inst[i].phase \in Committed)
  <2>1. CASE Go(j, "fail")
    BY <1>1, <1>9, <2>1 DEF MarkDone
  <2>2. CASE inst' = [k \in Instances |->
                        IF k = j THEN [Off EXCEPT !.phase = "top"]
                        ELSE IF Holds(k, inst[j].album) THEN [inst[k] EXCEPT !.current = FALSE]
                        ELSE inst[k]]
    BY <1>0, <1>9, <2>2 DEF MarkDone, Off, Instance
  <2> QED
    BY <1>9, <2>1, <2>2 DEF MarkDone
<1>10. ASSUME NEW j \in Instances, MarkFailed(j)
       PROVE  UNCHANGED cooling /\ (inst'[i].phase \in Committed => inst[i].phase \in Committed)
  BY <1>0, <1>2, <1>10 DEF MarkFailed, Off
<1>11. CASE \/ \E a \in Albums : Collect(a)
            \/ OtherTakes \/ OtherEnds \/ OtherDies \/ UNCHANGED vars
  <2>1. inst' = inst
    BY <1>11 DEF Collect, OtherTakes, OtherEnds, OtherDies, vars
  <2>2. cooling => cooling'
    BY <1>11 DEF Collect, OtherTakes, OtherEnds, OtherDies, vars
  <2> QED
    BY <2>1, <2>2
<1>12. CASE Tick
  BY <1>0, <1>12 DEF Tick, Instance
<1> QED
  BY <1>3, <1>4, <1>5, <1>6, <1>7, <1>8, <1>9, <1>10, <1>11, <1>12 DEF Next, Owner, Step

(* However often launchd fires during a cooldown, an instance strands at most the
   one row it was about to claim when the cooldown began. *)
THEOREM OneRowPerCooldown == Spec => []CooldownCostsOne
<1> DEFINE Inv == TypeOK /\ \A i \in Instances : Spared(i)
<1>1. Init => Inv
  BY TypeInit DEF Init, Spared
<1>2. ASSUME Inv, [Next]_vars PROVE Inv'
  <2>1. TypeOK'
    BY <1>2, TypeStep
  <2>2. ASSUME NEW i \in Instances PROVE Spared(i)'
    <3>1. CASE CoolsOff
      BY <3>1 DEF CoolsOff, Spared
    <3>2. ASSUME NEW j \in Instances, Claim(j) PROVE Spared(i)'
      <4>1. inst[j].phase \in Committed /\ UNCHANGED cooling
        BY <3>2 DEF Claim, Committed
      <4>2. wasted' = [wasted EXCEPT ![j] = IF cooling THEN @ + 1 ELSE @]
        BY <3>2 DEF Claim
      <4>3. wasted \in [Instances -> Nat] /\ inst \in [Instances -> Instance]
        BY <1>2 DEF TypeOK
      <4>4. CASE i # j
        <5>1. wasted'[i] = wasted[i] /\ inst'[i] = inst[i]
          BY <3>2, <4>2, <4>3, <4>4 DEF Claim
        <5> QED
          BY <1>2, <4>1, <5>1, SparedKept
      <4>5. CASE i = j
        <5>1. wasted[i] = 0
          BY <1>2, <4>1, <4>5 DEF Spared
        <5>2. wasted'[i] = IF cooling THEN 1 ELSE 0
          BY <4>2, <4>3, <4>5, <5>1
        <5>3. inst'[i].phase = "read"
          BY <3>2, <4>3, <4>5 DEF Claim, Off
        <5> QED
          BY <4>1, <5>2, <5>3 DEF Spared, Committed
      <4> QED
        BY <4>4, <4>5
    <3>3. CASE ~CoolsOff /\ ~\E j \in Instances : Claim(j)
      <4>1. UNCHANGED wasted
        BY <1>2, <3>3 DEF Next, Owner, Step, vars, Enqueue, Restart, Refine, Ask, Collect, Start,
             Preflight, NudgeRead, NudgeSend, ClaimNone, Read, Acquire, CallSucceeds, CallFails,
             MarkDone, MarkFailed, Crash, OtherTakes, OtherEnds, OtherDies, Tick
      <4> QED
        BY <1>2, <3>3, <4>1, Commits, SparedKept
    <3> QED
      BY <3>1, <3>2, <3>3
  <2> QED
    BY <2>1, <2>2
<1>3. Inv => CooldownCostsOne
  BY DEF Spared, CooldownCostsOne
<1> QED
  BY <1>1, <1>2, <1>3, PTL DEF Spec

LEMMA OlderOrdered ==
  ASSUME NEW max \in Nat, NEW m \in 0..max, NEW n \in 0..m
  PROVE  Older(n, max) <= Older(m, max)
BY DEF Older

(* The nudge file knows the last message for every album, unless a firing that
   failed halfway or overlapped another one is to blame. *)
THEOREM NudgesKnown == Spec => []NudgesRecorded
<1> DEFINE Inv == TypeOK /\ NudgesRecorded
<1>1. Init => Inv
  BY TypeInit, ResearchConstants DEF Init, NudgesRecorded
<1>2. ASSUME Inv, [Next]_vars PROVE Inv'
  <2>1. TypeOK'
    BY <1>2, TypeStep
  <2>2. /\ file \in [Albums -> 0..NudgeCooldown] /\ quiet \in [Albums -> 0..NudgeCooldown]
        /\ inst \in [Instances -> Instance] /\ NudgeCooldown \in Nat
    BY <1>2, ResearchConstants DEF TypeOK
  <2>3. ASSUME NEW i \in Instances, NudgeSend(i) PROVE NudgesRecorded'
    <3>1. PICK S \in SUBSET inst[i].due :
            /\ quiet' = [a \in Albums |-> IF a \in S THEN 0 ELSE quiet[a]]
            /\ \/ /\ S = inst[i].due /\ file' = Saved(i)
                  /\ torn' = (torn \ S) \cup {a \in Albums \ S : file[a] # inst[i].seen[a]}
               \/ torn' = torn \cup S /\ UNCHANGED file
      BY <2>3 DEF NudgeSend
    <3>2. ASSUME NEW a \in Albums \ torn' PROVE file'[a] <= quiet'[a]
      <4>1. CASE /\ S = inst[i].due /\ file' = Saved(i)
                 /\ torn' = (torn \ S) \cup {b \in Albums \ S : file[b] # inst[i].seen[b]}
        <5>1. CASE a \in S
          BY <3>1, <4>1, <5>1 DEF Saved
        <5>2. CASE a \notin S
          <6>1. file'[a] = file[a] /\ a \notin torn
            BY <4>1, <5>2 DEF Saved
          <6>2. quiet'[a] = quiet[a]
            BY <3>1, <5>2
          <6> QED
            BY <1>2, <6>1, <6>2 DEF NudgesRecorded
        <5> QED
          BY <5>1, <5>2
      <4>2. CASE torn' = torn \cup S /\ UNCHANGED file
        BY <1>2, <3>1, <4>2 DEF NudgesRecorded
      <4> QED
        BY <3>1, <4>1, <4>2
    <3> QED
      BY <3>2 DEF NudgesRecorded
  <2>4. CASE Tick
    <3>1. ASSUME NEW a \in Albums \ torn PROVE file'[a] <= quiet'[a]
      <4>1. /\ file'[a] = Older(file[a], NudgeCooldown)
            /\ quiet'[a] = Older(quiet[a], NudgeCooldown)
        BY <2>4 DEF Tick
      <4>2. quiet[a] \in 0..NudgeCooldown /\ file[a] \in 0..quiet[a]
        BY <1>2, <2>2 DEF NudgesRecorded
      <4> QED
        BY <2>2, <4>1, <4>2, OlderOrdered
    <3>2. torn' = torn
      BY <2>4 DEF Tick
    <3> QED
      BY <2>1, <3>1, <3>2 DEF NudgesRecorded
  <2>5. CASE ~Tick /\ ~\E i \in Instances : NudgeSend(i)
    <3>1. UNCHANGED nudging
      BY <1>2, <2>5 DEF Next, Owner, Step, vars, nudging, Enqueue, Restart, Refine, Ask, Collect,
           Start, Preflight, NudgeRead, Claim, ClaimNone, Read, Acquire, CallSucceeds, CallFails,
           MarkDone, MarkFailed, Crash, OtherTakes, OtherEnds, OtherDies, CoolsOff
    <3> QED
      BY <1>2, <2>1, <3>1 DEF NudgesRecorded, nudging
  <2> QED
    BY <2>1, <2>3, <2>4, <2>5
<1>3. Inv => NudgesRecorded
  OBVIOUS
<1> QED
  BY <1>1, <1>2, <1>3, PTL DEF Spec
=============================================================================
