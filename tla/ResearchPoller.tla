--------------------------- MODULE ResearchPoller ---------------------------
(***************************************************************************)
(* scripts/research_poller.py: instances that drain album_research through *)
(* one Claude subscription, with the takeover of stranded rows, the Genius *)
(* readiness gate and its nudges, and the shared cooldown.                 *)
(*                                                                         *)
(* Time is the age of a claim, of a request and of a nudge, each counted   *)
(* no further than the code compares it.  It passes in every state: only a *)
(* call is cut off by its timeout; a wait for the shared lock, a read and  *)
(* a write take as long as they take.                                      *)
(***************************************************************************)
EXTENDS Naturals, FiniteSets

CONSTANTS
  Instances,      \* poller processes: launchd's and the owner's
  Once,           \* the instances started with --once
  Albums,
  None,           \* no album, no lock holder
  Other,          \* another local job that calls Claude
  CallMax,        \* CLAUDE_TIMEOUT_S
  StaleRunning,   \* STALE_RUNNING
  GeniusWaitMax,  \* GENIUS_WAIT_MAX
  NudgeMax,       \* NUDGE_MAX_ALBUMS
  NudgeCooldown,  \* NUDGE_COOLDOWN_S
  MaxRequests,    \* bound: requests of the owner
  MaxFaults       \* bound: crashes, lost writes and lost nudges

ASSUME ResearchConstants ==
  /\ Once \subseteq Instances
  /\ None \notin Instances \cup Albums /\ Other \notin Instances \cup {None}
  /\ StaleRunning \in Nat /\ CallMax \in 0..StaleRunning
  /\ GeniusWaitMax \in Nat /\ NudgeMax \in Nat /\ NudgeCooldown \in Nat
  /\ MaxRequests \in Nat /\ MaxFaults \in Nat

(* What the takeover window leaves a run beside its call. *)
Slack == StaleRunning - CallMax

VARIABLES
  row,      \* album -> its album_research row
  before,   \* <<a, b>>: a's requested_at is before b's
  ready,    \* albums with a track_genius_songs row for every track
  inst,     \* instance -> where it stands
  lock,     \* the holder of the shared subscription lock
  cooling,  \* the shared cooldown after a throttle
  file,     \* genius_nudge_state.json: age of the last recorded nudge
  requests, \* bound
  faults,   \* bound
  quiet,    \* history: age of the last message for an album
  torn,     \* history: albums whose last message is not in the file
  wasted,   \* history: rows an instance claimed in the current cooldown
  late      \* history: albums a run of which spent more than Slack beside its call

vars == <<row, before, ready, inst, lock, cooling, file, requests, faults,
          quiet, torn, wasted, late>>
nudging == <<file, quiet, torn>>

Row ==
  [status : {"none", "queued", "running", "done", "failed"},
   age : 0..(StaleRunning + 1),       \* since started_at, while running
   waited : 0..(GeniusWaitMax + 1),   \* since requested_at, until collected
   note : BOOLEAN,                    \* result_md
   served : BOOLEAN]                  \* history: the last request was answered

Phases == {"off", "top", "held", "nudge", "claim", "read", "lock", "call", "done", "fail"}

Instance ==
  [phase : Phases, album : Albums \cup {None},
   time : 0..CallMax,        \* in the call
   delay : 0..(Slack + 1),   \* history: since the claim, beside the call
   due : SUBSET Albums, seen : [Albums -> 0..NudgeCooldown],
   current : BOOLEAN]   \* history: no request and no note since the claim

Off == [phase |-> "off", album |-> None, time |-> 0, delay |-> 0, due |-> {},
        seen |-> [a \in Albums |-> 0], current |-> TRUE]

TypeOK ==
  /\ row \in [Albums -> Row]
  /\ before \subseteq Albums \X Albums
  /\ ready \subseteq Albums
  /\ inst \in [Instances -> Instance]
  /\ lock \in Instances \cup {None, Other}
  /\ cooling \in BOOLEAN
  /\ file \in [Albums -> 0..NudgeCooldown]
  /\ requests \in 0..MaxRequests /\ faults \in 0..MaxFaults
  /\ quiet \in [Albums -> 0..NudgeCooldown] /\ torn \subseteq Albums
  /\ wasted \in [Instances -> Nat] /\ late \subseteq Albums

Init ==
  /\ row = [a \in Albums |-> [status |-> "none", age |-> 0, waited |-> 0,
                              note |-> FALSE, served |-> TRUE]]
  /\ before = {}
  /\ ready \in SUBSET Albums
  /\ inst = [i \in Instances |-> Off]
  /\ lock = None /\ cooling \in BOOLEAN
  /\ file = [a \in Albums |-> NudgeCooldown]
  /\ requests = 0 /\ faults = 0
  /\ quiet = [a \in Albums |-> NudgeCooldown] /\ torn = {}
  /\ wasted = [i \in Instances |-> 0] /\ late = {}

Working == {"read", "lock", "call", "done", "fail"}

Holds(i, a) == inst[i].phase \in Working /\ inst[i].album = a

Fault == faults < MaxFaults /\ faults' = faults + 1

Go(i, phase) == inst' = [inst EXCEPT ![i].phase = phase]

Exit(i) == inst' = [inst EXCEPT ![i] = Off]

-----------------------------------------------------------------------------
(* The owner's requests, as the backend writes them. *)

StaleEarly(a) == row[a].status = "running" /\ row[a].age >= StaleRunning   \* mutant

Stale(a) == row[a].status = "running" /\ row[a].age > StaleRunning

(* requested_at becomes the latest. *)
Latest(a) ==
  {p \in before : a \notin {p[1], p[2]}}
    \cup {<<b, a>> : b \in {b \in Albums \ {a} : row[b].status # "none"}}

Ask(a) ==
  /\ requests < MaxRequests /\ requests' = requests + 1
  /\ inst' = [i \in Instances |-> IF Holds(i, a) THEN [inst[i] EXCEPT !.current = FALSE]
                                  ELSE inst[i]]
  /\ UNCHANGED <<ready, lock, cooling, nudging, faults, wasted, late>>

(* INSERT ... ON CONFLICT DO NOTHING. *)
Enqueue(a) ==
  /\ row[a].status = "none"
  /\ row' = [row EXCEPT ![a].status = "queued", ![a].served = FALSE]
  /\ before' = Latest(a)
  /\ Ask(a)

(* A full redo: the row is reset in place. *)
Restart(a) ==
  /\ row[a].status \in {"done", "failed"} \/ Stale(a)
  /\ \E again \in BOOLEAN :
       /\ row' = [row EXCEPT ![a].status = "queued", ![a].note = FALSE, ![a].served = FALSE,
                             ![a].waited = IF again THEN 0 ELSE @]
       /\ before' = IF again THEN Latest(a) ELSE before
  /\ Ask(a)

(* An instruction for the next run; the note stays. *)
Refine(a) ==
  /\ row[a].status = "done"
  /\ row' = [row EXCEPT ![a].status = "queued", ![a].served = FALSE]
  /\ UNCHANGED before
  /\ Ask(a)

(* The worker collected an album: for a nudge, or on its hourly cron. *)
Collect(a) ==
  /\ a \notin ready /\ ready' = ready \cup {a}
  /\ UNCHANGED <<row, before, inst, lock, cooling, nudging, requests, faults, wasted, late>>

-----------------------------------------------------------------------------
(* One firing: main's loop over process_one. *)

Start(i) ==
  /\ inst[i].phase = "off"
  /\ Go(i, "top")
  /\ UNCHANGED <<row, before, ready, lock, cooling, nudging, requests, faults, wasted, late>>

(* ensure_subscription_available: a known cooldown ends the firing. *)
PassesAnyway == TRUE   \* mutant

Passes == ~cooling

Preflight(i) ==
  /\ inst[i].phase = "top"
  /\ IF Passes THEN Go(i, "held") ELSE Exit(i)
  /\ UNCHANGED <<row, before, ready, lock, cooling, nudging, requests, faults, wasted, late>>

Claimable(a) == row[a].status \in {"queued", "failed"} \/ Stale(a)

(* The readiness gate with its escape. *)
ReadyOnly(a) == a \in ready   \* mutant

Admitted(a) == a \in ready \/ row[a].waited > GeniusWaitMax

(* The first NudgeMax albums the gate holds. *)
Pending ==
  LET held == {a \in Albums : Claimable(a) /\ row[a].waited <= GeniusWaitMax /\ a \notin ready}
  IN {a \in held : Cardinality({b \in held : <<b, a>> \in before}) < NudgeMax}

(* _nudge_unready_albums reads the albums and its state file... *)
NudgeRead(i) ==
  /\ inst[i].phase = "held"
  /\ \/ LET due == {a \in Pending : file[a] >= NudgeCooldown}
        IN inst' = [inst EXCEPT ![i].phase = IF due = {} THEN "claim" ELSE "nudge",
                                ![i].due = due,
                                ![i].seen = IF due = {} THEN @ ELSE file]
        /\ UNCHANGED faults
     \/ Fault /\ Go(i, "claim")   \* fail-open
  /\ UNCHANGED <<row, before, ready, lock, cooling, nudging, requests, wasted, late>>

SavedFirst(i) == [a \in Albums |-> inst[i].seen[a]]   \* mutant

Saved(i) == [a \in Albums |-> IF a \in inst[i].due THEN 0 ELSE inst[i].seen[a]]

(* ...then sends one message per album in order and saves once, after the last.
   A failure on the way is logged and forgets what was sent; a save also
   forgets what another instance recorded since the read. *)
NudgeSend(i) ==
  /\ inst[i].phase = "nudge"
  /\ \E S \in SUBSET inst[i].due :
       /\ \A a \in S, b \in inst[i].due : <<b, a>> \in before => b \in S
       /\ quiet' = [a \in Albums |-> IF a \in S THEN 0 ELSE quiet[a]]
       /\ \/ /\ S = inst[i].due /\ file' = Saved(i)
             /\ torn' = (torn \ S) \cup {a \in Albums \ S : file[a] # inst[i].seen[a]}
             /\ UNCHANGED faults
          \/ Fault /\ torn' = torn \cup S /\ UNCHANGED file
  /\ inst' = [inst EXCEPT ![i] = [Off EXCEPT !.phase = "claim"]]
  /\ UNCHANGED <<row, before, ready, lock, cooling, requests, wasted, late>>

(* CLAIM_SQL: the oldest admitted row. *)
Candidates == {a \in Albums : Claimable(a) /\ Admitted(a)}

Claim(i) ==
  /\ inst[i].phase = "claim"
  /\ \E a \in Candidates :
       /\ \A b \in Candidates : <<b, a>> \notin before
       /\ row' = [row EXCEPT ![a].status = "running", ![a].age = 0]
       /\ inst' = [inst EXCEPT ![i] = [Off EXCEPT !.phase = "read", !.album = a]]
       /\ late' = IF \E j \in Instances : Holds(j, a) THEN late ELSE late \ {a}
  /\ wasted' = [wasted EXCEPT ![i] = IF cooling THEN @ + 1 ELSE @]
  /\ UNCHANGED <<before, ready, lock, cooling, nudging, requests, faults>>

(* Queue empty: --once returns, the loop sleeps for its interval. *)
ClaimNone(i) ==
  /\ inst[i].phase = "claim" /\ Candidates = {}
  /\ IF i \in Once THEN Exit(i) ELSE Go(i, "top")
  /\ UNCHANGED <<row, before, ready, lock, cooling, nudging, requests, faults, wasted, late>>

(* The album's metadata and the two fact blocks; a database failure is an exception. *)
Read(i) ==
  /\ inst[i].phase = "read"
  /\ \/ Go(i, "lock") /\ UNCHANGED faults
     \/ Fault /\ Go(i, "fail")
  /\ UNCHANGED <<row, before, ready, lock, cooling, nudging, requests, wasted, late>>

(* coordinated_run: the shared lock, and the cooldown again under it.  A
   cooldown leaves the row running and ends the firing.  The wait has no bound. *)
Acquire(i) ==
  /\ inst[i].phase = "lock" /\ lock = None
  /\ IF cooling THEN Exit(i) /\ UNCHANGED lock
     ELSE /\ lock' = i
          /\ Go(i, "call")
  /\ UNCHANGED <<row, before, ready, cooling, nudging, requests, faults, wasted, late>>

CallSucceeds(i) ==
  /\ inst[i].phase = "call"
  /\ Go(i, "done") /\ lock' = None
  /\ UNCHANGED <<row, before, ready, cooling, nudging, requests, faults, wasted, late>>

(* A timeout, a bad answer, or a throttle, which also starts the cooldown. *)
CallFails(i) ==
  /\ inst[i].phase = "call"
  /\ Go(i, "fail") /\ lock' = None /\ cooling' \in {cooling, TRUE}
  /\ UNCHANGED <<row, before, ready, nudging, requests, faults, wasted, late>>

(* Both writes name the row by its id and nothing else. *)
MarkDone(i) ==
  /\ inst[i].phase = "done"
  /\ LET a == inst[i].album IN
     \/ /\ row' = [row EXCEPT ![a].status = "done", ![a].age = 0, ![a].note = TRUE,
                              ![a].served = @ \/ inst[i].current]
        /\ inst' = [j \in Instances |->
                      IF j = i THEN [Off EXCEPT !.phase = "top"]
                      ELSE IF Holds(j, a) THEN [inst[j] EXCEPT !.current = FALSE] ELSE inst[j]]
        /\ UNCHANGED faults
     \/ Fault /\ Go(i, "fail") /\ UNCHANGED row
  /\ UNCHANGED <<before, ready, lock, cooling, nudging, requests, wasted, late>>

Blanked(a) == [row[a] EXCEPT !.status = "failed", !.age = 0, !.note = FALSE]   \* mutant

Failed(a) == [row[a] EXCEPT !.status = "failed", !.age = 0]

(* A failure of this write ends the process. *)
MarkFailed(i) ==
  /\ inst[i].phase = "fail"
  /\ \/ /\ row' = [row EXCEPT ![inst[i].album] = Failed(inst[i].album)]
        /\ inst' = [inst EXCEPT ![i] = [Off EXCEPT !.phase = "top"]]
        /\ UNCHANGED faults
     \/ Fault /\ Exit(i) /\ UNCHANGED row
  /\ UNCHANGED <<before, ready, lock, cooling, nudging, requests, wasted, late>>

(* A kill, or an exception before a row was claimed; the lock goes with the process. *)
Crash(i) ==
  /\ inst[i].phase # "off" /\ Fault
  /\ Exit(i)
  /\ lock' = IF lock = i THEN None ELSE lock
  /\ UNCHANGED <<row, before, ready, cooling, nudging, requests, wasted, late>>

-----------------------------------------------------------------------------
(* The other users of the subscription, and time. *)

OtherTakes ==
  /\ lock = None /\ ~cooling /\ lock' = Other
  /\ UNCHANGED <<row, before, ready, inst, cooling, nudging, requests, faults, wasted, late>>

OtherEnds ==
  /\ lock = Other /\ lock' = None /\ cooling' \in {cooling, TRUE}
  /\ UNCHANGED <<row, before, ready, inst, nudging, requests, faults, wasted, late>>

(* A kill; a lock it holds goes with it. *)
OtherDies ==
  /\ Fault
  /\ lock' \in {lock, IF lock = Other THEN None ELSE lock}
  /\ UNCHANGED <<row, before, ready, inst, cooling, nudging, requests, wasted, late>>

CoolsOff ==
  /\ cooling /\ cooling' = FALSE
  /\ wasted' = [i \in Instances |-> 0]
  /\ UNCHANGED <<row, before, ready, inst, lock, nudging, requests, faults, late>>

Older(n, max) == IF n < max THEN n + 1 ELSE n

(* Working on a row, beside the call. *)
Beside(i) == inst[i].phase \in Working \ {"call"}

(* timeout_s ends a call; nothing else is over by a deadline. *)
Tick ==
  /\ \A i \in Instances : inst[i].phase = "call" => inst[i].time < CallMax
  /\ row' = [a \in Albums |->
       [row[a] EXCEPT
          !.age = IF row[a].status = "running" THEN Older(@, StaleRunning + 1) ELSE @,
          !.waited = IF row[a].status = "none" \/ a \in ready THEN @
                     ELSE Older(@, GeniusWaitMax + 1)]]
  /\ inst' = [i \in Instances |->
       [inst[i] EXCEPT
          !.time = IF inst[i].phase = "call" THEN @ + 1 ELSE @,
          !.delay = IF Beside(i) THEN Older(@, Slack + 1) ELSE @,
          !.seen = IF inst[i].phase = "nudge" THEN [a \in Albums |-> Older(@[a], NudgeCooldown)]
                   ELSE @]]
  /\ late' = late \cup {a \in Albums : \E i \in Instances :
                           Beside(i) /\ inst[i].album = a /\ inst[i].delay >= Slack}
  /\ file' = [a \in Albums |-> Older(file[a], NudgeCooldown)]
  /\ quiet' = [a \in Albums |-> Older(quiet[a], NudgeCooldown)]
  /\ UNCHANGED <<before, ready, lock, cooling, requests, faults, torn, wasted>>

Owner == \E a \in Albums : Enqueue(a) \/ Restart(a) \/ Refine(a)

Step(i) ==
  \/ Preflight(i) \/ NudgeRead(i) \/ NudgeSend(i) \/ Claim(i) \/ ClaimNone(i)
  \/ Read(i) \/ Acquire(i) \/ MarkDone(i) \/ MarkFailed(i)

Next ==
  \/ Owner
  \/ \E a \in Albums : Collect(a)
  \/ \E i \in Instances : Start(i) \/ Step(i) \/ CallSucceeds(i) \/ CallFails(i) \/ Crash(i)
  \/ OtherTakes \/ OtherEnds \/ OtherDies \/ CoolsOff
  \/ Tick

Spec == Init /\ [][Next]_vars

-----------------------------------------------------------------------------
(* The promise of the module's docstring: two instances never run one row. *)
SingleFlight ==
  \A i, j \in Instances, a \in Albums : Holds(i, a) /\ Holds(j, a) => i = j

(* What the window gives of it: two instances are at one row only after a run
   of it spent more than StaleRunning - CallMax beside its call, in the wait for
   the lock above all.  No timeout of a call, no crash and no failure is enough. *)
DoubleRunsAreLate ==
  \A i, j \in Instances, a \in Albums \ late : Holds(i, a) /\ Holds(j, a) => i = j

(* A finished row answers the owner's last request, not one it replaced, or
   such a late run is to blame. *)
DoneIsLatest ==
  \A a \in Albums \ late : row[a].status = "done" => row[a].served /\ row[a].note

Writes(i, a) ==
  inst[i].phase = "done" /\ inst[i].album = a /\ inst'[i].phase = "top"

(* A note goes only when the owner restarts its album: no failure, of a late or
   overtaken run included, blanks the panel.  It is replaced only by a run that
   has seen it and the last request, or one of a late album. *)
NotesKept ==
  [][\A a \in Albums :
       /\ row[a].note /\ ~row'[a].note => row'[a].status = "queued"
       /\ \A i \in Instances : Writes(i, a) => inst[i].current \/ a \in late]_vars

(* A cooldown costs an instance at most the one row it claimed on its way into
   it, however often launchd fires meanwhile. *)
CooldownCostsOne == \A i \in Instances : wasted[i] <= 1

(* The nudge file knows the last message for every album: it is saved after the
   last message and loses none of an album that was not due.  Firings that fail
   halfway or overlap do lose some, as the code has it; torn names exactly those,
   and nothing is said of them. *)
NudgesRecorded == \A a \in Albums \ torn : file[a] <= quiet[a]

(* A late run's answer stands where the owner has asked again meanwhile. *)
AnsweredLate(a) == a \in late /\ row[a].status = "done"

(* Once the subscription is no longer throttled, every request is answered, or
   hidden by a late run's answer: through crashes, stranded rows, lost writes,
   failed calls and a Genius collection that never comes; under the fairness of
   LocalJobs. *)
RequestsAnswered ==
  <>[]~cooling => \A a \in Albums : ~row[a].served ~> row[a].served \/ AnsweredLate(a)
=============================================================================
