------------------------------ MODULE LocalJobs ------------------------------
(***************************************************************************)
(* The local jobs that share one Claude subscription: the research poller   *)
(* as in ResearchPoller, with its abstract Other made of                    *)
(*   - scripts/genre_heal_poller.py, which runs the genre backfill for the  *)
(*     owner's requests, and                                                *)
(*   - scripts/claude_fallback_client.py, which translates claims of the    *)
(*     queue worker while GPT is limited, each under the lease of its claim.*)
(* The shared guard lets one call run at a time and none in a cooldown.     *)
(***************************************************************************)
EXTENDS ResearchPoller

CONSTANTS
  Pollers,      \* genre poller processes
  Shimmed,      \* those with GENRE_HEAL_LLM=neuralwatt
  Slots,        \* slots of the queue worker in fallback
  Lease,        \* lease_seconds of a claim
  Margin,       \* LEASE_MARGIN_SECONDS
  FallbackMax,  \* TIMEOUT_SECONDS
  MaxGenre      \* bound: genre requests

ASSUME LocalConstants ==
  /\ Shimmed \subseteq Pollers /\ None \notin Pollers \cup Slots \cup (1..MaxGenre)
  /\ Pollers \cap Slots = {}
  /\ Lease \in Nat /\ Margin \in 0..Lease /\ FallbackMax \in 0..Margin
  /\ MaxGenre \in Nat

VARIABLES
  holder,  \* the job that Other stands for
  genre,   \* genre_backfill_requests, in the order of requested_at
  poller,  \* genre poller -> where it stands
  slot,    \* slot -> its claim
  lost     \* history: requests whose poller died before it wrote its end

jobs == <<holder, genre, poller, slot, lost>>
all == <<vars, jobs>>

Genre == 1..MaxGenre
Poller == [phase : {"off", "claim", "backfill", "llm", "done", "fail"}, request : Genre \cup {None}]
Slot == [phase : {"idle", "wait", "call"}, age : 0..(Lease + 1), time : 0..FallbackMax]

Away == [phase |-> "off", request |-> None]
Idle == [phase |-> "idle", age |-> 0, time |-> 0]

JobsTypeOK ==
  /\ holder \in Pollers \cup Slots \cup {None}
  /\ genre \in [Genre -> {"none", "pending", "claimed", "finished"}]
  /\ poller \in [Pollers -> Poller]
  /\ slot \in [Slots -> Slot]
  /\ lost \subseteq Genre

JobsInit ==
  /\ Init
  /\ holder = None /\ genre = [q \in Genre |-> "none"]
  /\ poller = [p \in Pollers |-> Away] /\ slot = [s \in Slots |-> Idle]
  /\ lost = {}

-----------------------------------------------------------------------------
(* The shared guard, as the jobs use it. *)

Takes(j) == OtherTakes /\ holder = None /\ holder' = j

(* A throttled call starts the cooldown. *)
LetsGo(j) == OtherEnds /\ holder = j /\ holder' = None

(* The lock goes with the process. *)
Dies(j) ==
  /\ OtherDies
  /\ lock' = IF holder = j THEN None ELSE lock
  /\ holder' = IF holder = j THEN None ELSE holder

-----------------------------------------------------------------------------
(* The genre poller. *)

RequestGenre ==
  /\ \E q \in Genre : /\ genre[q] = "none" /\ \A o \in Genre : o < q => genre[o] # "none"
                      /\ genre' = [genre EXCEPT ![q] = "pending"]
  /\ UNCHANGED <<vars, holder, poller, slot, lost>>

Goes(p, phase) == poller' = [poller EXCEPT ![p].phase = phase]

(* run_once: a known cooldown leaves the request unclaimed. *)
GenreStart(p) ==
  /\ poller[p].phase = "off" /\ (p \in Shimmed \/ ~cooling)
  /\ Goes(p, "claim")
  /\ UNCHANGED <<vars, holder, genre, slot, lost>>

Oldest == {q \in Genre : genre[q] = "pending" /\ \A o \in Genre : o < q => genre[o] # "pending"}

GenreClaim(p) ==
  /\ poller[p].phase = "claim"
  /\ \/ \E q \in Oldest :
          /\ genre' = [genre EXCEPT ![q] = "claimed"]
          /\ poller' = [poller EXCEPT ![p] = [phase |-> "backfill", request |-> q]]
     \/ Oldest = {} /\ poller' = [poller EXCEPT ![p] = Away] /\ UNCHANGED genre
  /\ UNCHANGED <<vars, holder, slot, lost>>

(* The backfill calls the model as often as it needs, and not at all through the shim. *)
GenreCalls(p) ==
  /\ poller[p].phase = "backfill" /\ p \notin Shimmed
  /\ Takes(p) /\ Goes(p, "llm")
  /\ UNCHANGED <<genre, slot, lost>>

GenreAnswered(p) ==
  /\ poller[p].phase = "llm"
  /\ LetsGo(p) /\ Goes(p, "backfill")
  /\ UNCHANGED <<genre, slot, lost>>

BackfillSucceeds(p) ==
  /\ poller[p].phase = "backfill" /\ Goes(p, "done")
  /\ UNCHANGED <<vars, holder, genre, slot, lost>>

(* A non-zero return code: a cooldown, a throttle or any other failure. *)
BackfillFails(p) ==
  /\ poller[p].phase = "backfill" /\ Goes(p, "fail")
  /\ UNCHANGED <<vars, holder, genre, slot, lost>>

EndsClaimed(p) == IF poller[p].phase = "done" THEN "finished" ELSE "claimed"   \* mutant

(* finished_at, or claimed_at NULL again. *)
Ends(p) == IF poller[p].phase = "done" THEN "finished" ELSE "pending"

GenreEnd(p) ==
  /\ poller[p].phase \in {"done", "fail"}
  /\ genre' = [genre EXCEPT ![poller[p].request] = Ends(p)]
  /\ poller' = [poller EXCEPT ![p] = Away]
  /\ UNCHANGED <<vars, holder, slot, lost>>

(* A kill, or a database that does not answer: nothing else clears claimed_at. *)
GenreDies(p) ==
  /\ poller[p].phase # "off" /\ Dies(p)
  /\ lost' = lost \cup ({poller[p].request} \ {None})
  /\ poller' = [poller EXCEPT ![p] = Away]
  /\ UNCHANGED <<genre, slot>>

-----------------------------------------------------------------------------
(* The fallback client: translate. *)

(* The queue worker claimed a source for Claude. *)
FallbackClaim(s) ==
  /\ slot[s].phase = "idle"
  /\ slot' = [slot EXCEPT ![s] = [Idle EXCEPT !.phase = "wait"]]
  /\ UNCHANGED <<vars, holder, genre, poller, lost>>

FitsAtClaim(s) == Idle.age <= Lease - Margin   \* mutant

(* The lease is looked at once the lock is held. *)
Fits(s) == slot[s].age <= Lease - Margin

FallbackCalls(s) ==
  /\ slot[s].phase = "wait" /\ Fits(s)
  /\ Takes(s)
  /\ slot' = [slot EXCEPT ![s].phase = "call", ![s].time = 0]
  /\ UNCHANGED <<genre, poller, lost>>

(* invalid_source or claude_cli_missing at once, claude_cooldown or lease_too_short
   under the lock: the claim goes back without a call. *)
FallbackRefused(s) ==
  /\ slot[s].phase = "wait"
  /\ \/ slot[s].age = 0
     \/ lock = None /\ (cooling \/ ~Fits(s))
  /\ slot' = [slot EXCEPT ![s] = Idle]
  /\ UNCHANGED <<vars, holder, genre, poller, lost>>

(* A result, a timeout, an error of the model or a throttle. *)
FallbackAnswered(s) ==
  /\ slot[s].phase = "call"
  /\ LetsGo(s)
  /\ slot' = [slot EXCEPT ![s] = Idle]
  /\ UNCHANGED <<genre, poller, lost>>

FallbackDies(s) ==
  /\ slot[s].phase # "idle" /\ Dies(s)
  /\ slot' = [slot EXCEPT ![s] = Idle]
  /\ UNCHANGED <<genre, poller, lost>>

-----------------------------------------------------------------------------
(* Time passes for all jobs at once. *)
JobsTick ==
  /\ Tick
  /\ \A s \in Slots : slot[s].phase = "call" => slot[s].time < FallbackMax
  /\ slot' = [s \in Slots |->
       [slot[s] EXCEPT !.age = IF slot[s].phase = "idle" THEN @ ELSE Older(@, Lease + 1),
                       !.time = IF slot[s].phase = "call" THEN @ + 1 ELSE @]]
  /\ UNCHANGED <<holder, genre, poller, lost>>

GenreStep(p) == GenreClaim(p) \/ GenreCalls(p) \/ GenreAnswered(p) \/ GenreEnd(p)

FallbackStep(s) == FallbackCalls(s) \/ FallbackRefused(s) \/ FallbackAnswered(s)

Research ==
  /\ \/ Owner
     \/ \E a \in Albums : Collect(a)
     \/ \E i \in Instances : Start(i) \/ Step(i) \/ CallSucceeds(i) \/ CallFails(i) \/ Crash(i)
     \/ CoolsOff
  /\ UNCHANGED jobs

JobsNext ==
  \/ Research
  \/ RequestGenre
  \/ \E p \in Pollers :
       GenreStart(p) \/ GenreStep(p) \/ BackfillSucceeds(p) \/ BackfillFails(p) \/ GenreDies(p)
  \/ \E s \in Slots : FallbackClaim(s) \/ FallbackStep(s) \/ FallbackDies(s)
  \/ JobsTick

JobsSpec == JobsInit /\ [][JobsNext]_all

(* launchd starts the pollers again, a poller runs on, a cooldown ends, time passes,
   every call ends, and of calls and backfills tried again and again one succeeds.
   The Genius collection owes nothing. *)
JobsFairness ==
  /\ \A i \in Instances :
       /\ WF_all(Start(i) /\ UNCHANGED jobs) /\ SF_all(Step(i) /\ UNCHANGED jobs)
       /\ SF_all(CallSucceeds(i) /\ UNCHANGED jobs)
  /\ WF_all(CoolsOff /\ UNCHANGED jobs) /\ SF_all(JobsTick)
  /\ \A p \in Pollers :
       /\ WF_all(GenreStart(p)) /\ WF_all(GenreClaim(p)) /\ WF_all(GenreAnswered(p))
       /\ WF_all(GenreEnd(p)) /\ SF_all(BackfillSucceeds(p))
  /\ \A s \in Slots : WF_all(FallbackAnswered(s))

JobsFairSpec == JobsSpec /\ JobsFairness

-----------------------------------------------------------------------------
(* A Claude call of the fallback is over before the lease of its claim, however
   long the claim waited behind another job: the store takes its result. *)
FallbackFitsLease == \A s \in Slots : slot[s].phase = "call" => slot[s].age <= Lease

(* A claimed genre request has exactly one poller at it, unless that poller died. *)
GenreHeld ==
  \A q \in Genre :
    /\ genre[q] = "claimed" /\ q \notin lost => \E p \in Pollers : poller[p].request = q
    /\ \A p, o \in Pollers : poller[p].request = q /\ poller[o].request = q => p = o

(* Once the subscription is no longer throttled, every genre request is served,
   through failed backfills and cooldowns; only one whose poller died is not. *)
GenreServed ==
  <>[]~cooling =>
    \A q \in Genre : genre[q] = "pending" ~> genre[q] = "finished" \/ q \in lost
=============================================================================
