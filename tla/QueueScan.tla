----------------------------- MODULE QueueScan -----------------------------
(***************************************************************************)
(* The order in which scripts/gpt_queue_worker.py offers the queue to the  *)
(* admission: QueueWorker._claim with its persisted scan.json.  Ticks of   *)
(* all slots go through it one at a time (the scan lock, and worker.lock   *)
(* between processes), while the owner, the crawlers and the store change  *)
(* the queue under it.                                                     *)
(*                                                                         *)
(* A key is its position in the key order; position 0 is the empty cursor. *)
(* What an admission does to the tables is GPTStore's subject: here it has *)
(* an outcome, and keys come and go.                                       *)
(***************************************************************************)
EXTENDS Naturals, FiniteSets

CONSTANTS
  Keys,        \* candidate keys
  Lyrics,      \* the 'lyrics:' keys: candidates while the owner's request is pending
  Skippable,   \* keys the fallback may have set aside in fallback-skip.json
  Limit,       \* LIMIT of the CANDIDATES query
  MaxRequests, \* bound: requests made by the owner
  MaxChanges   \* bound: other candidates that come or go, and crashes

ASSUME ScanConstants ==
  /\ Keys \subseteq Nat \ {0}
  /\ Lyrics \subseteq Keys
  /\ Skippable \subseteq Keys
  /\ Limit \in Nat \ {0}
  /\ MaxRequests \in Nat
  /\ MaxChanges \in Nat

VARIABLES
  queue,     \* keys the CANDIDATES query can return
  asked,     \* key -> requested_at of its pending request, 0 when none
  cursor,    \* scan.json cursor
  tried,     \* scan.json requests: key -> the requested_at that had its attempt
  phase,     \* where the tick under the scan lock stands
  at,        \* the key offered to the admission
  before,    \* the cursor before that row
  rows,      \* rows of this tick not looked at yet
  wanted,    \* requests read by this tick, key -> requested_at
  skip,      \* fallback-skip.json as this tick read it
  requests, changes,  \* bounds
  since,     \* history: keys in the queue ever since the lap began
  covered,   \* history: keys offered, set aside or interrupted in this lap
  ahead      \* history: key -> attempts its current request had ahead of the backlog

scan == <<cursor, tried>>
tick == <<phase, at, before, rows, wanted, skip>>
vars == <<queue, asked, scan, tick, requests, changes, since, covered, ahead>>

Stamps == 0..MaxRequests

TypeOK ==
  /\ queue \subseteq Keys
  /\ asked \in [Lyrics -> Stamps]
  /\ cursor \in Keys \cup {0}
  /\ tried \in [Lyrics -> Stamps]
  /\ phase \in {"out", "requests", "request", "rows", "row"}
  /\ at \in Keys \cup {0} /\ before \in Keys \cup {0}
  /\ rows \subseteq Keys
  /\ wanted \in [Lyrics -> Stamps]
  /\ skip \subseteq Keys
  /\ requests \in Stamps /\ changes \in 0..MaxChanges
  /\ since \subseteq Keys /\ covered \subseteq Keys
  /\ ahead \in [Lyrics -> Nat]

Nothing == [k \in Lyrics |-> 0]

Init ==
  /\ queue \in SUBSET (Keys \ Lyrics)
  /\ asked = Nothing /\ tried = Nothing
  /\ cursor = 0
  /\ phase = "out" /\ at = 0 /\ before = 0 /\ rows = {} /\ wanted = Nothing /\ skip = {}
  /\ requests = 0 /\ changes = 0
  /\ since = queue /\ covered = {} /\ ahead = Nothing

-----------------------------------------------------------------------------
(* The queue changes. *)

(* The owner requests a track, or requests it again: a new requested_at. *)
Request(k) ==
  /\ requests < MaxRequests /\ requests' = requests + 1
  /\ k \in Lyrics
  /\ asked' = [asked EXCEPT ![k] = requests + 1]
  /\ ahead' = [ahead EXCEPT ![k] = 0]
  /\ queue' = queue \cup {k}
  /\ UNCHANGED <<scan, tick, changes, since, covered>>

Appear(k) ==
  /\ changes < MaxChanges /\ changes' = changes + 1
  /\ k \in Keys \ Lyrics
  /\ queue' = queue \cup {k}
  /\ UNCHANGED <<asked, scan, tick, requests, since, covered, ahead>>

(* Translated, withdrawn, in backoff, or rejected. *)
Disappear(k) ==
  /\ changes < MaxChanges /\ changes' = changes + 1
  /\ k \in queue
  /\ queue' = queue \ {k} /\ since' = since \ {k}
  /\ asked' = [l \in Lyrics |-> IF l = k THEN 0 ELSE asked[l]]
  /\ ahead' = [l \in Lyrics |-> IF l = k THEN 0 ELSE ahead[l]]
  /\ UNCHANGED <<scan, tick, requests, covered>>

-----------------------------------------------------------------------------
(* One tick: scan.json, the requests and the next rows are read. *)

After == {k \in queue : cursor < k}

PageUnordered(R) == R \subseteq After /\ (R = After \/ Cardinality(R) = Limit)   \* mutant

(* CANDIDATES: the first Limit rows after the cursor, in key order. *)
Page(R) ==
  /\ R \subseteq After
  /\ R = After \/ Cardinality(R) = Limit
  /\ \A r \in R, k \in After \ R : r < k

StillTriedNone == Nothing   \* mutant

(* Requests no longer pending, or made again, are forgotten. *)
StillTried == [k \in Lyrics |-> IF asked[k] = tried[k] THEN tried[k] ELSE 0]

Read(aside) ==
  /\ phase = "out"
  /\ wanted' = asked /\ skip' = aside
  /\ rows' \in SUBSET queue /\ Page(rows')
  /\ tried' = StillTried
  /\ phase' = "requests"
  /\ UNCHANGED <<queue, asked, cursor, at, before, requests, changes, since, covered, ahead>>

(* Requests that get their attempt ahead of the backlog in this tick. *)
Untried == {k \in Lyrics : wanted[k] # 0 /\ tried[k] # wanted[k] /\ k \notin skip}

Counted(k, n) == IF asked[k] = wanted[k] THEN [ahead EXCEPT ![k] = n] ELSE ahead

(* The oldest of them is marked on disk, then offered. *)
PickRequest(k) ==
  /\ phase = "requests"
  /\ k \in Untried /\ \A l \in Untried : wanted[k] <= wanted[l]
  /\ tried' = [tried EXCEPT ![k] = wanted[k]]
  /\ ahead' = Counted(k, ahead[k] + 1)
  /\ at' = k /\ phase' = "request"
  /\ UNCHANGED <<queue, asked, cursor, before, rows, wanted, skip, requests, changes, since, covered>>

(* What _admit answers: nothing to claim here ("none"), no budget ("budget"), or
   a claim or an exception, both of which end the tick. *)
Outcomes == {"none", "budget", "ends"}

Goes(outcome, next) == phase' = IF outcome = "none" THEN next ELSE "out"

(* A budget refusal gives the request its attempt back. *)
RequestAnswered(outcome) ==
  /\ phase = "request"
  /\ IF outcome = "budget"
     THEN tried' = [tried EXCEPT ![at] = 0] /\ ahead' = Counted(at, 0)
     ELSE UNCHANGED <<tried, ahead>>
  /\ Goes(outcome, "requests")
  /\ UNCHANGED <<queue, asked, cursor, at, before, rows, wanted, skip, requests, changes, since, covered>>

RequestsDone == phase = "requests" /\ Untried = {}

WrapsNever == FALSE   \* mutant

Wraps == cursor # 0

(* No row after the cursor: the lap is over. *)
Wrap ==
  /\ RequestsDone /\ rows = {}
  /\ Wraps
  /\ cursor' = 0 /\ phase' = "out"
  /\ since' = queue /\ covered' = {}
  /\ UNCHANGED <<queue, asked, tried, at, before, rows, wanted, skip, requests, changes, ahead>>

StartRows ==
  /\ RequestsDone
  /\ rows # {} \/ ~Wraps
  /\ phase' = IF rows = {} THEN "out" ELSE "rows"
  /\ UNCHANGED <<queue, asked, scan, at, before, rows, wanted, skip, requests, changes, since, covered, ahead>>

(* The cursor moves on to the next row on disk, and the row is offered unless
   the fallback set it aside. *)
PickRow(k) ==
  /\ phase = "rows"
  /\ k \in rows /\ \A j \in rows : k <= j
  /\ rows' = rows \ {k}
  /\ before' = cursor /\ cursor' = k /\ at' = k
  /\ IF k \in skip THEN covered' = covered \cup {k} /\ UNCHANGED phase
                   ELSE phase' = "row" /\ UNCHANGED covered
  /\ UNCHANGED <<queue, asked, tried, wanted, skip, requests, changes, since, ahead>>

CursorStays(outcome) == cursor   \* mutant

(* The cursor stays before a row the budget refused. *)
Cursor(outcome) == IF outcome = "budget" THEN before ELSE cursor

RowAnswered(outcome) ==
  /\ phase = "row"
  /\ cursor' = Cursor(outcome)
  /\ covered' = IF outcome = "budget" THEN covered ELSE covered \cup {at}
  /\ Goes(outcome, "rows")
  /\ UNCHANGED <<queue, asked, tried, at, before, rows, wanted, skip, requests, changes, since, ahead>>

RowsDone ==
  /\ phase = "rows" /\ rows = {}
  /\ phase' = "out"
  /\ UNCHANGED <<queue, asked, scan, at, before, rows, wanted, skip, requests, changes, since, covered, ahead>>

(* The process dies: what scan.json says stays. *)
Crash ==
  /\ changes < MaxChanges /\ changes' = changes + 1
  /\ phase # "out" /\ phase' = "out"
  /\ covered' = IF phase = "row" THEN covered \cup {at} ELSE covered
  /\ UNCHANGED <<queue, asked, scan, at, before, rows, wanted, skip, requests, since, ahead>>

-----------------------------------------------------------------------------
Tick ==
  \/ \E aside \in SUBSET Skippable : Read(aside)
  \/ \E k \in Lyrics : PickRequest(k)
  \/ Wrap \/ StartRows \/ RowsDone
  \/ \E k \in Keys : PickRow(k)

Answer(outcome) == RequestAnswered(outcome) \/ RowAnswered(outcome)

Change ==
  \/ \E k \in Lyrics : Request(k)
  \/ \E k \in Keys : Appear(k) \/ Disappear(k)

Next == Tick \/ (\E outcome \in Outcomes : Answer(outcome)) \/ Change \/ Crash

Spec == Init /\ [][Next]_vars

(* The schedule starts tick after tick, an admission returns, and a day with
   budget comes again. *)
Fairness ==
  /\ WF_vars(Tick)
  /\ SF_vars(\E outcome \in {"none", "ends"} : RequestAnswered(outcome))
  /\ SF_vars(\E outcome \in {"none", "ends"} : RowAnswered(outcome))

FairSpec == Spec /\ Fairness

-----------------------------------------------------------------------------
(* Properties. *)

(* Within a lap, no key that was in the queue all along falls behind the cursor
   without its offer: not when rows come and go, the budget refuses a row, or a
   process dies between two ticks. *)
LapCovers ==
  \A k \in since : k <= cursor => k \in covered \/ (phase = "row" /\ at = k)

(* When the cursor wraps, every key that was in the queue since the lap began
   had its turn. *)
LapComplete == [][Wrap => since \subseteq covered]_vars

(* A request is tried ahead of the backlog at most once, whatever crashes, so a
   poison request cannot take every claim. *)
OncePerRequest == \A k \in Lyrics : ahead[k] <= 1

(* No key is starved: one that stays in the queue is offered, behind poison rows,
   a stream of requests and days without budget. *)
EveryKeyOffered ==
  \A k \in Keys \ Skippable :
    k \in queue ~> k \notin queue \/ (phase \in {"request", "row"} /\ at = k)

-----------------------------------------------------------------------------
(* The inductive invariant behind the safety properties. *)

(* The rows still to come are those after the cursor, and no key of the lap is
   missing between them. *)
RowsAhead ==
  /\ phase \in {"requests", "request", "rows", "row"} => \A r \in rows : cursor < r
  /\ phase \in {"requests", "request"} =>
       \A k \in since : cursor < k /\ k \notin rows => rows # {} /\ \A r \in rows : r < k
  /\ phase \in {"rows", "row"} =>
       \A k \in since : cursor < k /\ k \notin rows => \A r \in rows : r < k

RowPlaced ==
  /\ phase = "row" => at = cursor /\ before < at
  /\ since \subseteq queue

(* An attempt ahead of the backlog is on disk; one made for an overtaken request
   does not count. *)
AheadMarked ==
  \A k \in Lyrics :
    /\ ahead[k] = 1 => tried[k] = asked[k]
    /\ phase # "out" /\ asked[k] # wanted[k] => ahead[k] = 0

IInv ==
  /\ TypeOK /\ LapCovers /\ OncePerRequest
  /\ RowsAhead /\ RowPlaced /\ AheadMarked

=============================================================================
