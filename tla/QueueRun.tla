------------------------------ MODULE QueueRun ------------------------------
(***************************************************************************)
(* One scheduled start after another of scripts/gpt_queue_worker.py: the   *)
(* slots of a run, the switches they share through settings.json, the plan *)
(* usage limit and its wait, and the Claude fallback that works during it. *)
(*                                                                         *)
(* The store (GPTStore) and the order of the queue (QueueScan) are reduced *)
(* to what a slot sees: a source it may claim, with its attempts.  Time is *)
(* reduced to the guards: `waiting' is resume_at > now.  The local state     *)
(* files can be read and written unless the code catches their failure.    *)
(***************************************************************************)
EXTENDS Naturals, FiniteSets

CONSTANTS
  Slots,         \* the PARALLEL slots of a GPT run
  Sources,       \* translatable sources in the queue
  None,          \* no source, no slot
  MaxAttempts,   \* attempts after which a source is stopped
  FallbackCap,   \* settings.fallback.daily_cap
  MaxHits,       \* bound: limit_hits in a row
  MaxEdits       \* bound: steps of the owner, and crashes

ASSUME RunConstants ==
  /\ Slots # {}
  /\ None \notin Slots \cup Sources
  /\ MaxAttempts \in Nat \ {0}
  /\ FallbackCap \in Nat
  /\ MaxHits \in Nat
  /\ MaxEdits \in Nat

VARIABLES
  enabled,   \* settings.enabled
  pause,     \* settings.pause_reason: none, the owner's, or the plan's rejection
  waiting,   \* settings.resume_at > now
  hits,      \* settings.limit_hits
  fallback,  \* settings.fallback.enabled
  used,      \* fallback-usage.json: today's requests and failures
  skipped,   \* fallback-skip.json: sources the fallback leaves to GPT
  site,      \* automation_controls.paused
  cache,     \* the run's cached site answer: paused, clear, or stale
  run,       \* the process holding worker.lock: its mode
  smoke,     \* the run is one owner-authorised tick
  done,      \* the run's shared done event
  slot,      \* slot -> where it stands
  src,       \* source -> its work row
  edits,     \* bound
  windows,   \* history: waits that ended since the streak began
  late,      \* history: inferences each slot began since the current stop
  lateClaims \* history: claims admitted since the current stop

settings == <<enabled, pause, waiting, hits, fallback>>
history == <<windows, late, lateClaims>>
vars == <<settings, used, skipped, site, cache, run, smoke, done, slot, src, edits, history>>

Phases == {"out", "top", "scan", "admitting", "holding", "checked", "inferring",
           "cleanup", "clearing", "submitting"}

Slot == [phase : Phases, src : Sources \cup {None}, refund : BOOLEAN]

Out == [phase |-> "out", src |-> None, refund |-> FALSE]
Top == [Out EXCEPT !.phase = "top"]

(* holder is the slot whose claim is current. *)
Source ==
  [state : {"ready", "running", "done", "cancelled"},
   attempts : Nat,
   holder : Slots \cup {None},
   byFallback : BOOLEAN]   \* history: an attempt kept for a fallback call

TypeOK ==
  /\ enabled \in BOOLEAN /\ waiting \in BOOLEAN /\ fallback \in BOOLEAN
  /\ pause \in {"none", "owner", "plan"}
  /\ hits \in 0..MaxHits
  /\ used \in Nat
  /\ skipped \subseteq Sources
  /\ site \in BOOLEAN /\ cache \in {"paused", "clear", "stale"}
  /\ run \in {"none", "gpt", "fallback"} /\ smoke \in BOOLEAN /\ done \in BOOLEAN
  /\ slot \in [Slots -> Slot]
  /\ src \in [Sources -> Source]
  /\ edits \in 0..MaxEdits
  /\ windows \in Nat /\ late \in [Slots -> Nat] /\ lateClaims \in Nat

Init ==
  /\ enabled \in BOOLEAN /\ pause = "none" /\ waiting = FALSE /\ hits = 0
  /\ fallback \in BOOLEAN
  /\ used = 0 /\ skipped = {}
  /\ site = FALSE /\ cache = "stale"
  /\ run = "none" /\ smoke = FALSE /\ done = FALSE
  /\ slot = [s \in Slots |-> Out]
  /\ src = [x \in Sources |-> [state |-> "ready", attempts |-> 0, holder |-> None,
                               byFallback |-> FALSE]]
  /\ edits = 0
  /\ windows = 0 /\ late = [s \in Slots |-> 0] /\ lateClaims = 0

-----------------------------------------------------------------------------
(* The histories, updated by every step. *)

Held == pause # "none" \/ (run = "gpt" /\ waiting)

Begins(s) == slot[s].phase = "checked" /\ slot'[s].phase = "inferring"

Admits(s) == slot[s].phase = "admitting" /\ slot'[s].phase = "holding"

Observe ==
  /\ late' = [s \in Slots |-> IF ~Held' \/ run' = "none" THEN 0
                              ELSE late[s] + (IF Begins(s) THEN 1 ELSE 0)]
  /\ lateClaims' = IF ~Held' \/ run' = "none" THEN 0
                   ELSE lateClaims + Cardinality({s \in Slots : Admits(s)})
  /\ windows' = IF hits' = 0 THEN 0
                ELSE IF waiting /\ ~waiting' THEN windows + 1 ELSE windows

-----------------------------------------------------------------------------
(* held(): the local switches first, then the site's pause. *)

LocallyHeldWithoutWait ==   \* mutant
  \/ pause # "none"
  \/ run = "fallback" /\ (~waiting \/ ~fallback \/ used >= FallbackCap)

LocallyHeldUntilCap ==   \* mutant
  \/ pause # "none"
  \/ run = "gpt" /\ waiting
  \/ run = "fallback" /\ (~fallback \/ used >= FallbackCap)

LocallyHeld ==
  \/ pause # "none"
  \/ run = "gpt" /\ waiting
  \/ run = "fallback" /\ (~waiting \/ ~fallback \/ used >= FallbackCap)

(* site_paused: the cached answer while it is fresh, else the table's, or clear
   when the read fails. *)
SiteAnswers ==
  IF cache # "stale" THEN {cache}
  ELSE IF site THEN {"paused", "clear"} ELSE {"clear"}

Clear == ~LocallyHeld /\ "clear" \in SiteAnswers /\ cache' = "clear"

Blocked ==
  \/ LocallyHeld /\ UNCHANGED cache
  \/ ~LocallyHeld /\ "paused" \in SiteAnswers /\ cache' = "paused"

Go(s, phase) == slot' = [slot EXCEPT ![s].phase = phase] /\ UNCHANGED done

(* A tick ends.  A FINAL outcome sets the run's done event; a smoke is one tick. *)
TickEndsOpen(s, final) ==   \* mutant
  slot' = [slot EXCEPT ![s] = IF smoke THEN Out ELSE Top] /\ UNCHANGED done

TickEnds(s, final) ==
  /\ slot' = [slot EXCEPT ![s] = IF final \/ smoke THEN Out ELSE Top]
  /\ done' = (done \/ final)

(* An exception in a slot sets the event too; the run raises when all are out. *)
Raises(s) == TickEnds(s, TRUE)

(* The run is over when every slot is out: main releases worker.lock. *)
RunEnds ==
  /\ run # "none" /\ \A s \in Slots : slot[s].phase = "out"
  /\ run' = "none" /\ smoke' = FALSE /\ done' = FALSE /\ cache' = "stale"
  /\ UNCHANGED <<settings, used, skipped, site, slot, src, edits>>
  /\ Observe

-----------------------------------------------------------------------------
(* main: a start of the schedule, or the owner's smoke. *)

Mode == IF waiting THEN "fallback" ELSE "gpt"

ParallelAlways(mode) == Slots   \* mutant

Parallel(mode) == IF mode = "gpt" THEN Slots ELSE {CHOOSE s \in Slots : TRUE}

Start ==
  /\ run = "none" /\ enabled
  /\ waiting => fallback
  /\ run' = Mode
  /\ slot' = [s \in Slots |-> IF s \in Parallel(Mode) THEN Top ELSE Out]
  /\ UNCHANGED <<settings, used, skipped, site, cache, smoke, done, src, edits>>
  /\ Observe

StartSmoke ==
  /\ edits < MaxEdits /\ edits' = edits + 1
  /\ run = "none"
  /\ waiting => fallback
  /\ run' = Mode /\ smoke' = TRUE
  /\ slot' = [slot EXCEPT ![CHOOSE s \in Slots : TRUE] = [Top EXCEPT !.phase = "scan"]]
  /\ UNCHANGED <<settings, used, skipped, site, cache, done, src>>
  /\ Observe

(* The head of the slot loop: the done event and the enabled switch. *)
LoopHead(s) ==
  /\ slot[s].phase = "top"
  /\ IF done THEN slot' = [slot EXCEPT ![s] = Out] /\ UNCHANGED done
     ELSE IF ~enabled THEN TickEnds(s, TRUE) ELSE Go(s, "scan")
  /\ UNCHANGED <<settings, used, skipped, site, cache, run, smoke, src, edits>>
  /\ Observe

-----------------------------------------------------------------------------
(* _claim, under the run's scan lock: from held() to the admission's commit. *)

Scan(s) ==
  /\ slot[s].phase = "scan"
  /\ \A t \in Slots : slot[t].phase # "admitting"
  /\ \/ Clear /\ Go(s, "admitting")
     \/ Blocked /\ TickEnds(s, TRUE)
  /\ UNCHANGED <<settings, used, skipped, site, run, smoke, src, edits>>
  /\ Observe

Claimable(x) ==
  /\ src[x].state = "ready" /\ src[x].attempts < MaxAttempts
  /\ run = "fallback" => x \notin skipped

Admit(s, x) ==
  /\ slot[s].phase = "admitting" /\ Claimable(x)
  /\ src' = [src EXCEPT ![x].state = "running", ![x].attempts = @ + 1, ![x].holder = s]
  /\ slot' = [slot EXCEPT ![s].phase = "holding", ![s].src = x]
  /\ UNCHANGED <<settings, used, skipped, site, cache, run, smoke, done, edits>>
  /\ Observe

(* Nothing to claim in these rows, or the queue is through, empty or out of budget. *)
AdmitNone(s, final) ==
  /\ slot[s].phase = "admitting"
  /\ TickEnds(s, final)
  /\ UNCHANGED <<settings, used, skipped, site, cache, run, smoke, src, edits>>
  /\ Observe

-----------------------------------------------------------------------------
(* Releasing a claim with store.fail; a slot that lost its lease changes nothing. *)

Owns(s) == src[slot[s].src].holder = s

(* Mutant: the attempt is returned by the release and again by its caller. *)
ReleasedTwice(x, refund, cancel) ==
  [x EXCEPT !.state = IF cancel THEN "cancelled" ELSE "ready", !.holder = None,
            !.attempts = IF refund THEN x.attempts - 2 ELSE x.attempts]

Released(x, refund, cancel) ==
  [x EXCEPT !.state = IF cancel THEN "cancelled" ELSE "ready",
            !.holder = None,
            !.attempts = IF refund THEN x.attempts - 1 ELSE x.attempts,
            !.byFallback = x.byFallback \/ (~refund /\ ~cancel /\ run = "fallback")]

Release(s, refund, cancel) ==
  src' = IF Owns(s) THEN [src EXCEPT ![slot[s].src] = Released(@, refund, cancel)] ELSE src

(* The head of _infer: held() again, and the model of the run.  Only the owner's
   own stop or model change cancels the source; any other hold refunds it. *)
Check(s) ==
  /\ slot[s].phase = "holding"
  /\ \/ Clear /\ Go(s, "checked") /\ UNCHANGED src
     \/ /\ Blocked
        /\ Owns(s) /\ Release(s, pause # "owner", pause = "owner")
        /\ TickEnds(s, TRUE)
     \/ /\ Blocked
        /\ UNCHANGED src /\ Raises(s)   \* the claim expired, or the database is down
  /\ UNCHANGED <<settings, used, skipped, site, run, smoke, edits>>
  /\ Observe

(* The settings name another model than the run was started with. *)
CheckModel(s) ==
  /\ slot[s].phase = "holding"
  /\ edits < MaxEdits /\ edits' = edits + 1
  /\ Clear /\ Owns(s) /\ Release(s, FALSE, TRUE)
  /\ TickEnds(s, TRUE)
  /\ UNCHANGED <<settings, used, skipped, site, run, smoke>>
  /\ Observe

Begin(s) ==
  /\ slot[s].phase = "checked"
  /\ Go(s, "inferring")
  /\ UNCHANGED <<settings, used, skipped, site, cache, run, smoke, src, edits>>
  /\ Observe

-----------------------------------------------------------------------------
(* A GPT stream ends. *)

(* limit_hit, under control.lock: one event arms one wait, and a stopped worker
   is not re-armed. *)
ArmsEachTime == pause = "none" /\ enabled   \* mutant

ArmsWait == ~waiting /\ pause = "none" /\ enabled

LimitHit(s) ==
  /\ run = "gpt" /\ slot[s].phase = "inferring"
  /\ IF ArmsWait
     THEN /\ hits < MaxHits
          /\ hits' = hits + 1 /\ waiting' = TRUE
     ELSE UNCHANGED <<waiting, hits>>
  /\ slot' = [slot EXCEPT ![s].phase = "cleanup", ![s].refund = TRUE]
  /\ UNCHANGED <<enabled, pause, fallback, used, skipped, site, cache, run, smoke, done, src, edits>>
  /\ Observe

(* A plan or account rejection stops consumption before the claim is released. *)
PlanStop(s) ==
  /\ run = "gpt" /\ slot[s].phase = "inferring"
  /\ enabled' = FALSE /\ pause' = "plan"
  /\ slot' = [slot EXCEPT ![s].phase = "cleanup", ![s].refund = FALSE]
  /\ UNCHANGED <<waiting, hits, fallback, used, skipped, site, cache, run, smoke, done, src, edits>>
  /\ Observe

StreamFails(s) ==
  /\ run = "gpt" /\ slot[s].phase = "inferring"
  /\ slot' = [slot EXCEPT ![s].phase = "cleanup", ![s].refund = FALSE]
  /\ UNCHANGED <<settings, used, skipped, site, cache, run, smoke, done, src, edits>>
  /\ Observe

(* Best effort: when the release fails the lease ends the claim. *)
Cleanup(s) ==
  /\ slot[s].phase = "cleanup"
  /\ Release(s, slot[s].refund, FALSE) \/ UNCHANGED src
  /\ TickEnds(s, FALSE)
  /\ UNCHANGED <<settings, used, skipped, site, cache, run, smoke, edits>>
  /\ Observe

(* Output arrived: record_usage, then the unlocked read of limit_hits. *)
StreamCompletes(s) ==
  /\ run = "gpt" /\ slot[s].phase = "inferring"
  /\ Go(s, IF hits = 0 THEN "submitting" ELSE "clearing")
  /\ UNCHANGED <<settings, used, skipped, site, cache, run, smoke, src, edits>>
  /\ Observe

(* limit_cleared, under control.lock: it pops limit_hits and resume_at, then
   forgets the skipped sources.  A failure of either write is only logged. *)
StreakEndsAnyway == TRUE   \* mutant

StreakEnds == ~waiting

LimitCleared(s) ==
  /\ slot[s].phase = "clearing"
  /\ \/ UNCHANGED <<hits, waiting, skipped>>
     \/ StreakEnds /\ hits' = 0 /\ waiting' = FALSE /\ skipped' \in {skipped, {}}
  /\ Go(s, "submitting")
  /\ UNCHANGED <<enabled, pause, fallback, used, site, cache, run, smoke, src, edits>>
  /\ Observe

(* submit: stored, or refused (the source or the demand moved, or the segments
   do not match the source) and released as superseded_result. *)
SubmitResult(s) ==
  /\ slot[s].phase = "submitting"
  /\ \/ /\ Owns(s)
        /\ src' = [src EXCEPT ![slot[s].src].state = "done", ![slot[s].src].holder = None]
     \/ Release(s, FALSE, FALSE)
  /\ TickEnds(s, FALSE)
  /\ UNCHANGED <<settings, used, skipped, site, cache, run, smoke, edits>>
  /\ Observe

-----------------------------------------------------------------------------
(* A Claude call ends. *)

(* record_fallback: a failure to write the count is only logged. *)
Recorded == used' \in {used, used + 1}

FallbackCompletes(s) ==
  /\ run = "fallback" /\ slot[s].phase = "inferring"
  /\ Recorded
  /\ Go(s, "submitting")
  /\ UNCHANGED <<settings, skipped, site, cache, run, smoke, src, edits>>
  /\ Observe

(* The model ran and failed on this source. *)
FallbackFails(s) ==
  /\ run = "fallback" /\ slot[s].phase = "inferring"
  /\ skipped' = skipped \cup {slot[s].src}
  /\ Recorded
  /\ Release(s, TRUE, FALSE) \/ UNCHANGED src
  /\ TickEnds(s, FALSE)
  /\ UNCHANGED <<settings, site, cache, run, smoke, edits>>
  /\ Observe

(* A throttle, a cooldown, a missing CLI (FINAL), or a lease too short to begin. *)
FallbackRefused(s, final) ==
  /\ run = "fallback" /\ slot[s].phase = "inferring"
  /\ Release(s, TRUE, FALSE) \/ UNCHANGED src
  /\ TickEnds(s, final)
  /\ UNCHANGED <<settings, used, skipped, site, cache, run, smoke, edits>>
  /\ Observe

-----------------------------------------------------------------------------
(* The owner, the clock, and a process that dies. *)

Edit == edits < MaxEdits /\ edits' = edits + 1

(* The setup screen's stop: control.lock only, so it works during a run. *)
OwnerPause ==
  /\ Edit
  /\ enabled' = FALSE /\ pause' = "owner"
  /\ UNCHANGED <<waiting, hits, fallback, used, skipped, site, cache, run, smoke, done, slot, src>>
  /\ Observe

(* The setup screen's save: never while a run holds worker.lock. *)
OwnerSave ==
  /\ Edit /\ run = "none"
  /\ enabled' = FALSE /\ pause' = "none" /\ waiting' = FALSE /\ hits' = 0
  /\ UNCHANGED <<fallback, used, skipped, site, cache, run, smoke, done, slot, src>>
  /\ Observe

(* settings.json is edited once the smoke was checked, and for the fallback. *)
OwnerEnables ==
  /\ Edit /\ ~enabled /\ pause = "none"
  /\ enabled' = TRUE
  /\ UNCHANGED <<pause, waiting, hits, fallback, used, skipped, site, cache, run, smoke, done, slot, src>>
  /\ Observe

OwnerSwitchesFallback ==
  /\ Edit
  /\ fallback' = ~fallback
  /\ UNCHANGED <<enabled, pause, waiting, hits, used, skipped, site, cache, run, smoke, done, slot, src>>
  /\ Observe

SiteSwitches ==
  /\ Edit
  /\ site' = ~site
  /\ UNCHANGED <<settings, used, skipped, cache, run, smoke, done, slot, src>>
  /\ Observe

SiteAnswerExpires ==
  /\ cache # "stale" /\ cache' = "stale"
  /\ UNCHANGED <<settings, used, skipped, site, run, smoke, done, slot, src, edits>>
  /\ Observe

WaitElapses ==
  /\ waiting /\ waiting' = FALSE
  /\ UNCHANGED <<enabled, pause, hits, fallback, used, skipped, site, cache, run, smoke, done, slot, src, edits>>
  /\ Observe

NewDay ==
  /\ used > 0 /\ used' = 0
  /\ UNCHANGED <<settings, skipped, site, cache, run, smoke, done, slot, src, edits>>
  /\ Observe

(* A lease ends: the claim is anyone's again, its attempt spent. *)
LeaseExpires(x) ==
  /\ src[x].state = "running"
  /\ src' = [src EXCEPT ![x].state = "ready", ![x].holder = None]
  /\ UNCHANGED <<settings, used, skipped, site, cache, run, smoke, done, slot, edits>>
  /\ Observe

Crash ==
  /\ Edit /\ run # "none"
  /\ run' = "none" /\ smoke' = FALSE /\ done' = FALSE /\ cache' = "stale"
  /\ slot' = [s \in Slots |-> Out]
  /\ UNCHANGED <<settings, used, skipped, site, src>>
  /\ Observe

-----------------------------------------------------------------------------
Step(s) ==
  \/ LoopHead(s) \/ Scan(s)
  \/ \E x \in Sources : Admit(s, x)
  \/ \E final \in BOOLEAN : AdmitNone(s, final)
  \/ Check(s) \/ CheckModel(s) \/ Begin(s)
  \/ LimitHit(s) \/ PlanStop(s) \/ StreamFails(s) \/ Cleanup(s)
  \/ StreamCompletes(s) \/ LimitCleared(s) \/ SubmitResult(s)
  \/ FallbackCompletes(s) \/ FallbackFails(s)
  \/ \E final \in BOOLEAN : FallbackRefused(s, final)

Owner == OwnerPause \/ OwnerSave \/ OwnerEnables \/ OwnerSwitchesFallback \/ SiteSwitches

Clock == SiteAnswerExpires \/ WaitElapses \/ NewDay \/ \E x \in Sources : LeaseExpires(x)

Next ==
  \/ Start \/ StartSmoke \/ RunEnds \/ Crash
  \/ \E s \in Slots : Step(s)
  \/ Owner \/ Clock

Spec == Init /\ [][Next]_vars

(* The process runs, its calls have deadlines, the clock advances, and the queue
   is not claimed to be empty while a slot could claim. *)
Offers(s) == \E x \in Sources : Admit(s, x)

Fairness ==
  /\ WF_vars(Start) /\ WF_vars(RunEnds) /\ WF_vars(WaitElapses) /\ WF_vars(SiteAnswerExpires)
  /\ \A s \in Slots :
       /\ WF_vars(LoopHead(s)) /\ SF_vars(Scan(s))
       /\ WF_vars(\E final \in BOOLEAN : AdmitNone(s, final)) /\ SF_vars(Offers(s))
       /\ WF_vars(Check(s)) /\ WF_vars(Begin(s)) /\ WF_vars(Cleanup(s))
       /\ WF_vars(LimitCleared(s)) /\ WF_vars(SubmitResult(s))
       /\ WF_vars(PlanStop(s) \/ StreamFails(s) \/ StreamCompletes(s))
       /\ WF_vars(FallbackCompletes(s) \/ FallbackFails(s))

FairSpec == Spec /\ Fairness

-----------------------------------------------------------------------------
(* Properties. *)

(* A stop or a limit wait that begins during a run catches the slots wherever
   they stand: at most one claim slips through (the scan lock), and no slot
   begins more than one inference. *)
StopBounded == lateClaims <= 1 /\ \A s \in Slots : late[s] <= 1

(* Sibling rejections of one limit event count once: the streak never exceeds
   the waits it armed. *)
OneHitPerWait == hits <= windows + 1

(* Only time or the owner's save ends a limit wait: a success that started
   before the limit, or a fallback success, does not. *)
WaitStands == [][waiting /\ ~waiting' => hits' = hits \/ run = "none"]_vars

(* One fallback slot checks the cap before it claims and before it calls. *)
FallbackWithinCap == used <= FallbackCap

(* The module says of the fallback: failures refunded so GPT keeps every attempt. *)
GPTKeepsAttempts == \A x \in Sources : ~src[x].byFallback

(* What the promise comes to: of all the releases that follow a fallback claim, only
   that of a completed result the store refuses keeps the attempt from GPT.  (The
   owner's stop cancels the source; a claim whose release fails too ends with its
   lease and is not marked.) *)
OnlyRefusalsCost ==
  [][\A x \in Sources :
       src'[x].byFallback /\ ~src[x].byFallback =>
         \E s \in Slots :
           slot[s].phase = "submitting" /\ slot[s].src = x /\ src[x].holder = s]_vars

(* A stop ends the run. *)
StopEndsRun == pause # "none" ~> run = "none" \/ pause = "none"

(* A limit never stops the worker: once a wait began, GPT is probed again unless
   someone stopped the worker. *)
GPTProbedAgain == waiting /\ enabled ~> ~enabled \/ (run = "gpt" /\ ~waiting)

-----------------------------------------------------------------------------
(* The inductive invariant behind the safety properties. *)

(* A slot past its claim knows its source. *)
Claimed(s) ==
  slot[s].phase \in {"holding", "checked", "inferring", "cleanup", "clearing", "submitting"}

Placed == \A s \in Slots : Claimed(s) => slot[s].src \in Sources

(* A current claim has its attempt, so that a refund has one to return. *)
Charged ==
  \A x \in Sources :
    /\ src[x].attempts <= MaxAttempts
    /\ src[x].holder # None => src[x].state = "running" /\ src[x].attempts > 0

(* The scan lock, and the slots of a run: none without one, one of a fallback. *)
OneScan ==
  \A s, t \in Slots : slot[s].phase = "admitting" /\ slot[t].phase = "admitting" => s = t

SlotsOfRun ==
  /\ run = "none" => \A s \in Slots : slot[s].phase = "out"
  /\ run = "fallback" =>
       \A s, t \in Slots : slot[s].phase # "out" /\ slot[t].phase # "out" => s = t

(* The ends of a GPT call belong to a GPT run. *)
EndsOfGPT ==
  run # "gpt" => \A s \in Slots : slot[s].phase \notin {"cleanup", "clearing"}

(* Whoever is past a clear look at the switches when a stop comes may take the one
   step it is about to take, and is then past it. *)
Caught ==
  /\ ~Held \/ run = "none" => lateClaims = 0 /\ \A s \in Slots : late[s] = 0
  /\ lateClaims > 0 => \A s \in Slots : slot[s].phase # "admitting"
  /\ \A s \in Slots : late[s] > 0 => slot[s].phase # "checked"

(* A hit has its wait: ended, or still standing. *)
HitsWaited == hits <= windows + (IF waiting THEN 1 ELSE 0)

(* A fallback slot on its way to a call has seen room under the cap. *)
RoomAhead ==
  run = "fallback" =>
    \A s \in Slots :
      slot[s].phase \in {"admitting", "holding", "checked", "inferring"} => used < FallbackCap

IInv ==
  /\ TypeOK /\ Placed /\ Charged
  /\ OneScan /\ SlotsOfRun /\ EndsOfGPT
  /\ Caught /\ StopBounded
  /\ HitsWaited
  /\ RoomAhead /\ FallbackWithinCap

=============================================================================
