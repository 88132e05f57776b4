------------------------------ MODULE GPTStore ------------------------------
(***************************************************************************)
(* The durable claims of scripts/gpt_translation_store.py and the protocol *)
(* its callers (the slots of scripts/gpt_queue_worker.py) follow: bind an  *)
(* album row, read the source, admit under the advisory lock, infer with   *)
(* no transaction open, then submit or fail.                               *)
(*                                                                         *)
(* Time is abstracted to what the guards ask of it.  A lease is live or    *)
(* expired, a backoff is due or not, a row was updated today or not, and   *)
(* `newer' holds the works whose published row was updated after the work  *)
(* was.  Expiry, backoff and midnight are actions of their own.            *)
(***************************************************************************)
EXTENDS Naturals, FiniteSets

CONSTANTS
  Items,                 \* translation targets: a track's lyrics or an annotation
  Genius,                \* the Items that are Genius annotations
  Fps,                   \* source versions (fingerprints)
  Korean,                \* the source versions that are already Korean
  Oversized,             \* the source versions above the batch limit
  Clients,               \* claiming slots of the local consumers
  None,                  \* no source, no item, no fingerprint (SQL NULL)
  DailyCap,              \* GPTTranslationStore.daily_cap
  MaxRunning,            \* GPTTranslationStore.max_running
  MaxAttempts,           \* MAX_ATTEMPTS
  TemporaryMaxAttempts,  \* TEMPORARY_MAX_ATTEMPTS
  MaxClaims,             \* bound: claims of one work (refunds make them unbounded)
  MaxEdits,              \* bound: steps of the owner and of the crawlers
  MaxDays                \* bound: midnights

ASSUME StoreConstants ==
  /\ Genius \subseteq Items
  /\ Korean \subseteq Fps
  /\ Oversized \subseteq Fps
  /\ None \notin Fps \cup Items
  /\ Fps \cap {"pending", "not_required"} = {}
  /\ DailyCap \in Nat
  /\ MaxRunning \in Nat
  /\ MaxAttempts \in Nat \ {0}
  /\ TemporaryMaxAttempts \in Nat
  /\ MaxAttempts <= TemporaryMaxAttempts
  /\ MaxClaims \in Nat
  /\ MaxEdits \in Nat
  /\ MaxDays \in Nat

VARIABLES
  source,  \* item -> current source version (track_lyrics, track_genius_annotations)
  row,     \* item -> what the reader sees (track_lyrics_translations, annotations)
  link,    \* item -> source_state of its album row, or the version it is linked to
  wanted,  \* items whose album job is live: not cancelled, with an active scope
  work,    \* <<item, version>> -> its row of lyrics_translation_work
  newer,   \* works whose item's row has updated_at > the work's updated_at
  client,  \* slot -> its position in the claim protocol
  spent,   \* history: attempts of today, taken and not refunded, per work
  edits,   \* bound: owner and crawler steps so far
  day      \* bound: midnights so far

vars == <<source, row, link, wanted, work, newer, client, spent, edits, day>>

Works == Items \X Fps

WorksOf(i) == {i} \X Fps

WorkStatus == {"absent", "ready", "running", "retryable_error", "done"}

(* last_reason in the classes the store tells apart: "terminal" stands for
   refused and user_cancelled, "other" for claim_released, superseded_result,
   the usage limit and every other code. *)
Reasons == {"none", "temporary_error", "terminal", "other"}

Work ==
  [status : WorkStatus,
   attempts : Nat,
   claims : Nat,          \* claims ever granted: the source of fresh tokens
   token : Nat,           \* claim_token, 0 when NULL
   leased : BOOLEAN,      \* lease_until > now()
   due : BOOLEAN,         \* next_attempt_at IS NULL OR next_attempt_at <= now()
   today : BOOLEAN,       \* updated_at on the current UTC day
   reason : Reasons,      \* last_reason
   manual : BOOLEAN,      \* manual_requested
   result : Nat]          \* segments, named by the claim that produced them; 0 when NULL

NoWork ==
  [status |-> "absent", attempts |-> 0, claims |-> 0, token |-> 0, leased |-> FALSE,
   due |-> TRUE, today |-> FALSE, reason |-> "none", manual |-> FALSE, result |-> 0]

(* status "requested" stands for an annotation's "pending" too. *)
Row ==
  [status : {"absent", "requested", "done", "failed"},
   origin : {"none", "manual", "poller"},
   fp : Fps \cup {None},
   by : Nat]              \* the claim whose segments are shown; 0 for a human's

NoRow == [status |-> "absent", origin |-> "none", fp |-> None, by |-> 0]

Client ==
  [phase : {"idle", "picked", "korean", "admitting", "holding", "refused"},
   item : Items \cup {None},
   fp : Fps \cup {None},
   manual : BOOLEAN,
   token : Nat,
   touched : BOOLEAN]     \* the item's row was updated after this slot's prepare began

Idle == [phase |-> "idle", item |-> None, fp |-> None, manual |-> FALSE,
         token |-> 0, touched |-> FALSE]

TypeOK ==
  /\ source \in [Items -> Fps \cup {None}]
  /\ row \in [Items -> Row]
  /\ link \in [Items -> Fps \cup {"pending", "not_required"}]
  /\ wanted \subseteq Items
  /\ work \in [Works -> Work]
  /\ newer \subseteq Works
  /\ client \in [Clients -> Client]
  /\ spent \in [Works -> Nat]
  /\ edits \in Nat
  /\ day \in Nat

(* A deployment state before the first claim: sources crawled, some lyrics
   requested, every annotation pending, some albums in demand. *)
Init ==
  /\ source \in [Items -> Fps]
  /\ \E asked \in SUBSET Items :
       row = [i \in Items |-> IF i \in asked \cup Genius
                              THEN [NoRow EXCEPT !.status = "requested"] ELSE NoRow]
  /\ link = [i \in Items |-> IF i \in Genius THEN "not_required" ELSE "pending"]
  /\ wanted \in SUBSET (Items \ Genius)
  /\ work = [w \in Works |-> NoWork]
  /\ newer = {}
  /\ client = [c \in Clients |-> Idle]
  /\ spent = [w \in Works |-> 0]
  /\ edits = 0
  /\ day = 0

-----------------------------------------------------------------------------
(* Reading the tables. *)

Target(c) == <<client[c].item, client[c].fp>>

(* _source: the source is readable and within the batch limit. *)
Readable(i) == source[i] # None /\ source[i] \notin Oversized

Shown(i) == row[i].status = "done" /\ row[i].fp = source[i]

ManuallyDone(i) == i \notin Genius /\ row[i].status = "done" /\ row[i].origin = "manual"

(* The live album demand predicate of the claim UPDATE and of submit. *)
Demanded(w) == w[1] \in wanted /\ link[w[1]] = w[2]

AttemptCap(reason) ==
  IF reason = "temporary_error" THEN TemporaryMaxAttempts ELSE MaxAttempts

Live(w) == work[w].status = "running" /\ work[w].leased

Running == {w \in Works : Live(w)}

(* n[w] charges for each w of S: as many as the sum of n over S. *)
Charges(n, S) == UNION {{w} \X (1..n[w]) : w \in S}

Today == Charges([w \in Works |-> work[w].attempts], {w \in Works : work[w].today})

Used == Cardinality(Today)

-----------------------------------------------------------------------------
(* Writing the tables. *)

(* The item's row gets a new updated_at: every claim of it, and every prepare
   under way (its now() is the start of its transaction), is now older. *)
Overtaken(i) ==
  [c \in Clients |->
     IF client[c].item = i /\ client[c].phase \in {"korean", "admitting", "holding"}
     THEN [client[c] EXCEPT !.touched = TRUE] ELSE client[c]]

Rewrite(i, r) ==
  /\ row' = [row EXCEPT ![i] = r]
  /\ newer' = newer \cup WorksOf(i)

MayPublishOverNewer(i, later) ==
  i \in Genius \/ row[i].origin # "manual" \/ row[i].status = "requested"

MayPublishAlways(i, later) == TRUE

(* _publish: the guard of the upsert (lyrics) or UPDATE (annotation).  The
   operators before it, and others marked so, are mutants: the checks replace a
   definition by one to show that a property depends on it. *)
MayPublish(i, later) ==
  /\ ~later
  /\ i \in Genius \/ row[i].origin # "manual" \/ row[i].status = "requested"

Publish(c, i, f, by) ==
  /\ Rewrite(i, [status |-> "done", origin |-> "poller", fp |-> f, by |-> by])
  /\ client' = [Overtaken(i) EXCEPT ![c] = Idle]

Leave(c) ==
  /\ client' = [client EXCEPT ![c] = Idle]
  /\ UNCHANGED <<row, newer>>

-----------------------------------------------------------------------------
(* The owner, the demand scopes and the crawlers: outside this repository's
   source, modelled by the columns they write. *)

Edit == edits < MaxEdits /\ edits' = edits + 1 /\ UNCHANGED day

(* A crawl stores another source version.  An annotation's body and its
   translation share one row, so its updated_at moves too. *)
SourceChanges(i, f) ==
  /\ Edit
  /\ f # source[i]
  /\ source' = [source EXCEPT ![i] = f]
  /\ IF i \in Genius THEN Rewrite(i, row[i]) /\ client' = Overtaken(i)
                     ELSE UNCHANGED <<row, newer, client>>
  /\ UNCHANGED <<link, wanted, work, spent>>

(* The owner asks for a translation of a track's lyrics (again). *)
RequestTranslation(i) ==
  /\ Edit
  /\ i \notin Genius
  /\ Rewrite(i, [row[i] EXCEPT !.status = "requested"])
  /\ client' = Overtaken(i)
  /\ UNCHANGED <<source, link, wanted, work, spent>>

(* The owner stores a translation of her own for the current source. *)
SaveManualEdit(i) ==
  /\ Edit
  /\ i \notin Genius /\ source[i] # None
  /\ Rewrite(i, [status |-> "done", origin |-> "manual", fp |-> source[i], by |-> 0])
  /\ client' = Overtaken(i)
  /\ UNCHANGED <<source, link, wanted, work, spent>>

(* An album enters demand, is withdrawn, or its track is released for relinking. *)
ChangeDemand(i) ==
  /\ Edit
  /\ i \notin Genius
  /\ \/ wanted' = (wanted \ {i}) \cup ({i} \ wanted) /\ UNCHANGED link
     \/ link[i] # "pending" /\ link' = [link EXCEPT ![i] = "pending"] /\ UNCHANGED wanted
  /\ UNCHANGED <<source, row, work, newer, client, spent>>

(* now() passes a lease's end, a backoff's end, UTC midnight. *)
LeaseExpires(w) ==
  /\ Live(w)
  /\ work' = [work EXCEPT ![w] = [work[w] EXCEPT !.leased = FALSE]]
  /\ UNCHANGED <<source, row, link, wanted, newer, client, spent, edits, day>>

BackoffElapses(w) ==
  /\ ~work[w].due
  /\ work' = [work EXCEPT ![w] = [work[w] EXCEPT !.due = TRUE]]
  /\ UNCHANGED <<source, row, link, wanted, newer, client, spent, edits, day>>

Midnight ==
  /\ day < MaxDays /\ day' = day + 1
  /\ work' = [w \in Works |-> [work[w] EXCEPT !.today = FALSE]]
  /\ spent' = [w \in Works |-> 0]
  /\ UNCHANGED <<source, row, link, wanted, newer, client, edits>>

-----------------------------------------------------------------------------
CreatedAgain(w) == [w EXCEPT !.status = "ready"]   \* mutant

(* INSERT .. ON CONFLICT, and ensure_work: the work row exists from here on. *)
Created(w) == IF w.status = "absent" THEN [w EXCEPT !.status = "ready"] ELSE w

(* bind_album: its own transaction before admission.  It links the album row
   to the work of the current source, creating that work, or settles the row. *)
BindAlbum(c, i) ==
  /\ client[c].phase = "idle"
  /\ i \in wanted /\ link[i] # "not_required" /\ source[i] # None
  /\ IF ManuallyDone(i) \/ Shown(i) \/ source[i] \in Korean
     THEN /\ link' = [link EXCEPT ![i] = "not_required"]
          /\ UNCHANGED <<work, client>>
     ELSE LET w == <<i, source[i]>>
          IN  /\ link' = [link EXCEPT ![i] = source[i]]
              /\ work' = [work EXCEPT ![w] = Created(work[w])]
              /\ client' = [client EXCEPT ![c] = [Idle EXCEPT !.phase = "picked", !.item = i]]
  /\ UNCHANGED <<source, row, wanted, newer, spent, edits, day>>

(* prepare up to the lock: the source and the row are read, and a cached, manual
   or (for lyrics) Korean answer returned, with no lock held. *)
Begin(i, m) ==
  IF i \notin Genius /\ source[i] \in Korean
  THEN [Idle EXCEPT !.phase = "korean", !.item = i, !.manual = m]
  ELSE [Idle EXCEPT !.phase = "admitting", !.item = i, !.fp = source[i], !.manual = m]

(* The scan reads a requested row (or a pending annotation); by the time the row
   is prepared the owner, a crawl or another slot may have moved on. *)
PickRequested(c, i) ==
  /\ client[c].phase = "idle"
  /\ row[i].status = "requested"
  /\ client' = [client EXCEPT ![c] =
       [Idle EXCEPT !.phase = "picked", !.item = i, !.manual = TRUE]]
  /\ UNCHANGED <<source, row, link, wanted, work, newer, spent, edits, day>>

Prepare(c) ==
  LET i == client[c].item
  IN  /\ client[c].phase = "picked"
      /\ client' = [client EXCEPT ![c] =
           IF ~Readable(i) \/ Shown(i) \/ ManuallyDone(i) THEN Idle
                                                        ELSE Begin(i, client[c].manual)]
      /\ UNCHANGED <<source, row, link, wanted, work, newer, spent, edits, day>>

(* The answer to already_korean: an explicit lyrics request becomes failed. *)
RejectKorean(c) ==
  LET i == client[c].item
  IN  /\ client[c].phase = "korean"
      /\ IF client[c].manual /\ i \notin Genius /\ row[i].status = "requested"
         THEN /\ Rewrite(i, [row[i] EXCEPT !.status = "failed"])
              /\ client' = [Overtaken(i) EXCEPT ![c] = Idle]
         ELSE Leave(c)
      /\ UNCHANGED <<source, link, wanted, work, spent, edits, day>>

-----------------------------------------------------------------------------
(* prepare under the advisory lock, one transaction.  An HTTPException rolls
   back the upsert with it. *)
Upserted(c) ==
  LET w == Created(work[Target(c)])
  IN  [w EXCEPT !.manual = w.manual \/ client[c].manual]

StoppedLate(w) == w.reason = "terminal" \/ w.attempts > AttemptCap(w.reason)   \* mutant

StoppedByCap(w) == w.attempts >= AttemptCap(w.reason)   \* mutant

Stopped(w) == w.reason = "terminal" \/ w.attempts >= AttemptCap(w.reason)

GrabbableOnce(w) == w.status \in {"ready", "retryable_error"} /\ w.due   \* mutant

Grabbable(w) ==
  \/ w.status \in {"ready", "retryable_error"} /\ w.due
  \/ w.status = "running" /\ ~w.leased

BudgetLeftLate == Used <= DailyCap   \* mutant

BudgetLeft == Used < DailyCap

SlotFreeLate == Cardinality(Running) <= MaxRunning   \* mutant

SlotFree == Cardinality(Running) < MaxRunning

Admissible(c) ==
  /\ ~Stopped(Upserted(c))
  /\ BudgetLeft /\ SlotFree
  /\ Grabbable(Upserted(c))
  /\ Upserted(c).manual \/ Demanded(Target(c))

(* A result stored earlier is published without another inference. *)
AdmitStored(c) ==
  LET i == client[c].item
      w == Target(c)
  IN  /\ client[c].phase = "admitting"
      /\ work[w].status = "done" /\ source[i] = client[c].fp
      /\ work' = [work EXCEPT ![w] = Upserted(c)]
      /\ IF MayPublish(i, client[c].touched)
         THEN Publish(c, i, client[c].fp, work[w].result) ELSE Leave(c)
      /\ UNCHANGED <<source, link, wanted, spent, edits, day>>

(* Mutant: taking over an expired lease keeps the token of its holder. *)
ClaimedKeeping(w) ==
  [w EXCEPT !.status = "running", !.attempts = w.attempts + 1, !.claims = w.claims + 1,
            !.token = IF w.token = 0 THEN w.claims + 1 ELSE w.token,
            !.leased = TRUE, !.today = TRUE]

Claimed(w) ==
  [w EXCEPT !.status = "running", !.attempts = w.attempts + 1, !.claims = w.claims + 1,
            !.token = w.claims + 1, !.leased = TRUE, !.today = TRUE]

StampedAtCommit(c, w) == newer \ {w}   \* mutant

(* The claim's updated_at is the start of the transaction: a row updated while
   this slot waited for the lock stays newer. *)
Stamped(c, w) == IF client[c].touched THEN newer \cup {w} ELSE newer \ {w}

AdmitClaim(c) ==
  LET w == Target(c)
  IN  /\ client[c].phase = "admitting"
      /\ work[w].status # "done" /\ Admissible(c)
      /\ work[w].claims < MaxClaims
      /\ work' = [work EXCEPT ![w] = Claimed(Upserted(c))]
      /\ newer' = Stamped(c, w)
      /\ client' = [client EXCEPT ![c].phase = "holding", ![c].token = Claimed(Upserted(c)).token]
      /\ spent' = [spent EXCEPT ![w] = @ + 1]
      /\ UNCHANGED <<source, row, link, wanted, edits, day>>

AdmitRefused(c) ==
  /\ client[c].phase = "admitting"
  /\ IF work[Target(c)].status = "done" THEN source[client[c].item] # client[c].fp
                                        ELSE ~Admissible(c) \/ work[Target(c)].claims = MaxClaims
  /\ Leave(c)
  /\ UNCHANGED <<source, link, wanted, work, spent, edits, day>>

-----------------------------------------------------------------------------
Current(c) == Live(Target(c)) /\ work[Target(c)].token = client[c].token

AcceptsAnyVersion(c) == Current(c) /\ (work[Target(c)].manual \/ Demanded(Target(c)))   \* mutant

Accepts(c) ==
  /\ Current(c)
  /\ work[Target(c)].manual \/ Demanded(Target(c))
  /\ source[client[c].item] = client[c].fp

(* Mutant: the row is closed and its segments are not stored. *)
CompletedEmpty(w, token) ==
  [w EXCEPT !.status = "done", !.token = 0, !.leased = FALSE, !.today = TRUE]

Completed(w, token) ==
  [w EXCEPT !.status = "done", !.token = 0, !.leased = FALSE, !.today = TRUE, !.result = token]

(* submit: complete_work and _publish in one transaction. *)
Submit(c) ==
  LET i == client[c].item
      w == Target(c)
  IN  /\ client[c].phase = "holding"
      /\ Accepts(c)
      /\ work' = [work EXCEPT ![w] = Completed(work[w], client[c].token)]
      /\ IF MayPublish(i, w \in newer)
         THEN Publish(c, i, client[c].fp, client[c].token) ELSE Leave(c)
      /\ UNCHANGED <<source, link, wanted, spent, edits, day>>

(* submit raises: the claim is gone, the demand or the source moved, or the
   segments do not match the source.  The slot goes on to fail(). *)
SubmitRefused(c) ==
  /\ client[c].phase = "holding"
  /\ client' = [client EXCEPT ![c].phase = "refused"]
  /\ UNCHANGED <<source, row, link, wanted, work, newer, spent, edits, day>>

(* fail: release the claim; a refund returns the attempt and keeps a previous
   temporary_error.  A claim that is no longer current changes nothing. *)
Released(w, reason, refund) ==
  [w EXCEPT !.status = "retryable_error", !.token = 0, !.leased = FALSE, !.today = TRUE,
            !.attempts = IF refund THEN w.attempts - 1 ELSE w.attempts,
            !.reason = IF refund /\ w.reason = "temporary_error" THEN w.reason ELSE reason,
            !.due = reason # "temporary_error"]

Fail(c, reason, refund) ==
  LET w == Target(c)
  IN  /\ IF Current(c)
         THEN /\ work' = [work EXCEPT ![w] = Released(work[w], reason, refund)]
              /\ spent' = IF refund /\ spent[w] > 0 THEN [spent EXCEPT ![w] = @ - 1] ELSE spent
         ELSE UNCHANGED <<work, spent>>
      /\ Leave(c)
      /\ UNCHANGED <<source, link, wanted, edits, day>>

(* The slot's own reason: the inference failed, was refused, was stopped by the
   owner, or never ran (a usage limit, a release before streaming). *)
GiveUp(c) ==
  /\ client[c].phase = "holding"
  /\ \/ \E reason \in {"temporary_error", "terminal", "other"} : Fail(c, reason, FALSE)
     \/ Fail(c, "other", TRUE)

FailSuperseded(c) == client[c].phase = "refused" /\ Fail(c, "other", FALSE)

(* The process dies or its database session does: what was not committed is
   gone, and the lease alone frees the work. *)
Crash(c) ==
  /\ client[c].phase # "idle"
  /\ Leave(c)
  /\ UNCHANGED <<source, link, wanted, work, spent, edits, day>>

-----------------------------------------------------------------------------
Environment ==
  \/ \E i \in Items : \/ \E f \in Fps \cup {None} : SourceChanges(i, f)
                      \/ RequestTranslation(i) \/ SaveManualEdit(i) \/ ChangeDemand(i)
  \/ \E w \in Works : LeaseExpires(w) \/ BackoffElapses(w)
  \/ Midnight

Slot(c) ==
  \/ \E i \in Items : BindAlbum(c, i) \/ PickRequested(c, i)
  \/ Prepare(c) \/ RejectKorean(c)
  \/ AdmitStored(c) \/ AdmitClaim(c) \/ AdmitRefused(c)
  \/ Submit(c) \/ SubmitRefused(c) \/ GiveUp(c) \/ FailSuperseded(c) \/ Crash(c)

Next == Environment \/ \E c \in Clients : Slot(c)

Spec == Init /\ [][Next]_vars

(* The scheduler restarts the worker, whose scan offers every pending request
   again; inferences have a deadline; clocks advance.  Slots may crash, but one
   that keeps getting as far as a transaction eventually commits it. *)
Fairness ==
  /\ \A i \in Items : SF_vars(\E c \in Clients : PickRequested(c, i))
  /\ \A c \in Clients :
       /\ SF_vars(AdmitStored(c) \/ AdmitClaim(c)) /\ SF_vars(RejectKorean(c))
       /\ SF_vars(Prepare(c)) /\ WF_vars(AdmitRefused(c))
       /\ WF_vars(Submit(c) \/ GiveUp(c) \/ SubmitRefused(c)) /\ WF_vars(FailSuperseded(c))
  /\ \A w \in Works : WF_vars(LeaseExpires(w)) /\ WF_vars(BackoffElapses(w))
  /\ WF_vars(Midnight)

FairSpec == Spec /\ Fairness

-----------------------------------------------------------------------------
(* Properties. *)

(* The lease slots: admission counts live leases under the lock, so no
   interleaving of claims, expiries and reclaims holds more than max_running. *)
SlotsRespected == Cardinality(Running) <= MaxRunning

(* The daily budget: what was claimed today and not refunded never exceeds the
   cap, although admission sums whole rows touched today instead of claims. *)
BudgetRespected == Cardinality(Charges(spent, Works)) <= DailyCap

(* Two slots never both hold the current claim of one work, whatever leases
   expired and were taken over in between. *)
ClaimExclusive ==
  \A c, d \in Clients :
    /\ client[c].phase = "holding" /\ client[d].phase = "holding"
    /\ Target(c) = Target(d) /\ Current(c) /\ Current(d)
    => c = d

(* No source consumes more inferences than its cap, a refund never takes back
   an attempt that was not granted, and the row keeps the CHECK constraints of
   lyrics_translation_work. *)
Consistent(w) ==
  /\ w.attempts <= TemporaryMaxAttempts
  /\ w.attempts <= w.claims
  /\ w.status = "running" <=> w.token # 0
  /\ w.status = "running" => w.attempts > 0 /\ w.reason # "terminal"
  /\ w.status = "done" <=> w.result # 0

AttemptsBounded == \A w \in Works : Consistent(work[w])

(* What a reader is shown as the poller's translation of a version is the
   immutable result stored for exactly that version. *)
ShownIsStored ==
  \A i \in Items :
    row[i].by # 0 => /\ row[i].fp \in Fps
                     /\ work[<<i, row[i].fp>>].status = "done"
                     /\ work[<<i, row[i].fp>>].result = row[i].by

(* A slot overtaken by an edit, a request or another publication after its
   prepare began publishes nothing: its last step leaves the row as it is.  One
   write is not guarded by time: a slot that read a Korean source may still fail
   the request of that moment, a later one than its own included. *)
OvertakenNeverPublishes ==
  [][\A c \in Clients :
       client[c].touched /\ client'[c].phase = "idle" =>
         \/ row' = row
         \/ /\ client[c].phase = "korean" /\ row[client[c].item].status = "requested"
            /\ row' = [row EXCEPT ![client[c].item].status = "failed"]]_vars

(* Only the owner replaces her own finished translation of lyrics. *)
ManualKept ==
  [][\A i \in Items :
       ManuallyDone(i) /\ row'[i] # row[i] =>
         row'[i].status = "requested" \/ row'[i].origin = "manual"]_vars

(* A publication shows a translation of the version that is current then. *)
PublishesCurrent ==
  [][\A i \in Items :
       row'[i].by # 0 /\ row'[i] # row[i] /\ row'[i].status = "done" =>
         row'[i].fp = source[i]]_vars

(* A stored result is never replaced, reopened or charged again. *)
DoneImmutable ==
  [][\A w \in Works :
       work[w].status = "done" =>
         /\ work'[w].status = "done" /\ work'[w].result = work[w].result
         /\ work'[w].attempts = work[w].attempts]_vars

(* A refused or cancelled source is never sent to a model again. *)
StoppedStays ==
  [][\A w \in Works :
       work[w].reason = "terminal" =>
         work'[w].reason = work[w].reason /\ work'[w].claims = work[w].claims]_vars

(* No explicit request is stranded: it is shown (or rejected as Korean), or its
   source moves on, or its unfinished work is stopped by the attempt rules; a
   budget that is used up only delays it to another day.  A result that lost its
   publication race to the request is shown by it.  A rejection counts also when
   the slot read the Korean source before the request. *)
RequestResolved ==
  \A i \in Items, f \in Fps \ Oversized :
    (row[i].status = "requested" /\ source[i] = f) ~>
       \/ row[i].status # "requested" \/ source[i] # f
       \/ /\ work[<<i, f>>].status # "done"
          /\ \/ Stopped(work[<<i, f>>])
             \/ work[<<i, f>>].claims = MaxClaims      \* a bound, as the last day is
             \/ day = MaxDays /\ ~BudgetLeft

(* The promise to the reader, with all claims, leases, attempts, budgets, races
   and crashes below it: every step is one of ReaderView's, or none of the
   reader's business. *)
Reader == INSTANCE ReaderView WITH stored <- [w \in Works |-> work[w].result]

KeepsPromise == Reader!Spec

-----------------------------------------------------------------------------
(* The inductive invariant behind the safety properties. *)

(* A slot past the choice of a row knows its item; past prepare's reads, its
   version too. *)
Placed ==
  \A c \in Clients :
    /\ client[c].phase = "idle" => client[c] = Idle
    /\ client[c].phase # "idle" => client[c].item \in Items
    /\ client[c].phase \in {"admitting", "holding", "refused"} => client[c].fp \in Fps

Claiming(c) == client[c].phase \in {"holding", "refused"}

(* Slots hold tokens their work granted, and never the same one. *)
Granted ==
  /\ \A c \in Clients : Claiming(c) => client[c].token \in 1..work[Target(c)].claims
  /\ \A c, d \in Clients :
       Claiming(c) /\ Claiming(d) /\ Target(c) = Target(d)
         /\ client[c].token = client[d].token => c = d

(* The work's timestamp betrays every overtaking of the slot that holds it. *)
Betrayed ==
  \A c \in Clients :
    client[c].phase = "holding" /\ Current(c) /\ client[c].touched => Target(c) \in newer

(* Only a slot past prepare's reads can be overtaken. *)
OvertakenPlaced ==
  \A c \in Clients :
    client[c].touched => client[c].phase \in {"korean", "admitting", "holding", "refused"}

FewRunning == IsFiniteSet(Running) /\ SlotsRespected

(* What was spent today is in the rows that admission sums. *)
Counted == \A w \in Works : spent[w] <= work[w].attempts /\ (spent[w] > 0 => work[w].today)

WithinBudget == IsFiniteSet(Today) /\ BudgetRespected

IInv ==
  /\ TypeOK /\ Placed /\ OvertakenPlaced
  /\ AttemptsBounded /\ Granted /\ Betrayed /\ ShownIsStored
  /\ FewRunning
  /\ Counted /\ WithinBudget

=============================================================================
