# Verification of the myblog workspace's background jobs

The repository is the workspace around a music blog: it holds the jobs that run on
the owner's machine against the production database (`scripts/`), the schema they
share (`docs/contracts/schema.sql`), hooks for agent sessions (`.codex`, `.agents`),
probes and backfills (`tools/`), infrastructure and a large archive of documents and
measurements. The backend, the front end and the shared database package are other
repositories; here they are known only through the tables and calls the jobs use.

The jobs are small programs that share rows with other writers, hold leases across
model calls of many minutes, die and are restarted by a scheduler, and share files
and locks with a setup screen. The hard part is not what one of them computes but
what several of them do to each other, and that is what is modelled here.

## Inventory

| Part | State it keeps | Operations | What must hold |
|---|---|---|---|
| Translation store (`gpt_translation_store.py`) | `lyrics_translation_work`: status, attempts, token, lease, reason, segments; the published rows | `prepare`, `submit`, `fail`, publication | one holder per work; caps on attempts, day and leases; the owner's text is hers; a result is stored once and shown for its own version only |
| Queue worker, runs (`gpt_queue_worker.py`) | `settings.json` (enabled, pause_reason, resume_at, limit_hits, fallback), the fallback's counts and skip list, the cached site pause, `worker.lock` | `main`, slots, `held`, `_infer`, `_infer_fallback`, `limit_hit`, `limit_cleared` | a stop takes effect; a limit waits and never stops; the fallback keeps to its cap and leaves GPT its attempts |
| Queue worker, scan | `scan.json`: cursor and tried requests | `_claim` | no key is passed over or starved; a request jumps the queue once |
| Setup server (`gpt_worker_setup.py`) | the pending sign-in; writes `settings.json` | `/login`, callback, `/models`, `/save`, `/pause` | no account or model change under a run; a stop works at any time |
| Plan account (`gpt_plan_auth.py`) | session files, `settings.active`, `account.lock` | `begin`, `finish`, `credentials`, `models` | one renewal at a time; a session is cleared only when the provider ended it |
| GPT plan client (`gpt_plan_client.py`) | none | one inference | only a completed answer counts |
| Claude fallback client (`claude_fallback_client.py`) | the lease of its claim | one inference | a call fits in what is left of the lease |
| Heartbeats (`automation_heartbeat.py`) | one row per agent, last write time | `maybe`, `force`, `record` | a live run never looks stale |
| Demand bridge (`lyrics_demand_translate.py`) | album rows with source revision and work link | link, claim, recheck, publish, release | (retired: `lyrics_translate_poller.main` returns before it is called) |
| Earlier pollers (`lyrics_translate_poller.py`, `genius_translate_poller.py`) | claims on the published rows | claim, translate, write back | (no longer scheduled) |
| Research poller (`research_poller.py`) | `album_research`: status, started_at, note; `genius_nudge_state.json` | claim and takeover, readiness gate, nudges, the call, both write-backs | two runs of a row only after a run that was late; every request is answered; a note is never lost to a failure; a cooldown strands at most one row |
| Genre poller (`genre_heal_poller.py`) | `genre_backfill_requests`: claimed_at, finished_at | preflight, claim, backfill, end or requeue | one poller per request; a failed backfill is tried again |
| Nightly drafts (`buckit_nightly.py`) | bucket items (checked, post_id) and posts, both behind the backend's API; files; the exit status | export, one model call, binding of files to memos, create, grow | a draft carries its own album's review; a memo that is stuck shows in the status |
| Checkout claims (`session-claim.sh`, `retire-session-claim.sh`) | a directory of claim files and a lock directory | claim, retire, hook | one owner of the checkout |
| Installers, shim, hooks, tools, infrastructure | files, logs | run by hand or stateless | - |

How they meet. The queue worker's slots call the store, one transaction per call; no
transaction is open during an inference. All slots of a run share one scan lock, one
done event and one cached answer of the site's pause; runs exclude each other by
`worker.lock`. The setup screen writes `settings.json` under `control.lock` while a
run reads it, and its sign-in takes `worker.lock` as well. Slots and screens renew the
same session under `account.lock`. The store shares its tables with the backend
(requests, manual edits), the crawlers (new source versions) and the writers of the
demand; it defends itself with a claim token, a lease, a fingerprint and a comparison of timestamps.

The research poller, the backfill of the genre poller and the fallback client share one
Claude subscription, through `coordinated_run` and `coordinated_call` of a package of
another repository: a lock between processes, waited for without a bound, and a
cooldown that a throttled call starts and that is looked at before the wait and again
under the lock. Each of the three holds something else meanwhile that ages: a row that
turns stale after 20 minutes, a request nobody else reclaims, a claim with a lease. The
nightly run makes its one call through the same lock but holds nothing meanwhile; it
meets the owner, and a run started by hand, only in the rows of the backend.

The hazards listed in `PROJECT.json` name the lines where this can go wrong.

## Modules

| Module | What it is |
|---|---|
| `GPTStore` | the claim protocol of the store with its callers and every other writer of its rows |
| `ReaderView` | what that protocol promises a reader, without claims, leases, attempts or budgets |
| `QueueRun` | runs, slots, stops, usage limits and the fallback |
| `QueueScan` | the order in which the queue is offered |
| `PlanAccount` | sign-in, renewal and the setup screens, over the session files and three locks |
| `ResearchPoller` | the research queue: claims, takeover, gate, nudges, write-backs |
| `LocalJobs` | the jobs on one subscription: `ResearchPoller` with the genre poller and the fallback client in the place of its abstract `Other` |
| `NightlyDrafts` | nights of export, model call and delivery next to the owner and a second run |
| `GPTStoreProofs`, `GPTStoreRefinement`, `QueueRunProofs`, `QueueScanProofs`, `PlanAccountProofs`, `ResearchPollerProofs`, `LocalJobsProofs`, `NightlyDraftsProofs` | theorems and their proofs |
| `MCGPTStore`, `MCQueueRun`, `MCQueueScan`, `MCPlanAccount`, `MCResearchPoller`, `MCLocalJobs`, `MCNightlyDrafts` | symmetry and values for model checking |

### GPTStore

An item is a track's lyrics or a Genius annotation (`Genius`); a version (`Fps`) is a
fingerprint of its source, and some versions are Korean or too large. A work is a
pair of both, the unique key of `lyrics_translation_work`. A slot (`Clients`) moves
through the calls of `_admit` and `_infer`:

| Action | Code |
|---|---|
| `BindAlbum` | `bind_album` and its commit |
| `PickRequested` | the scan's read of a requested row or a pending annotation |
| `Prepare` | `prepare` up to the advisory lock: source and row are read, a shown, manual or Korean answer returns |
| `RejectKorean` | the UPDATE to failed that follows such an answer |
| `AdmitStored`, `AdmitClaim`, `AdmitRefused` | `prepare` from the advisory lock to the commit, by outcome; a refusal rolls the upsert back |
| `Submit`, `SubmitRefused` | `submit` with `complete_work` and the publication, or its exceptions |
| `GiveUp`, `FailSuperseded` | `fail` with the reasons and refunds its callers pass |
| `Crash` | the process or its session is gone between two transactions |
| `SourceChanges`, `RequestTranslation`, `SaveManualEdit`, `ChangeDemand` | crawlers, backend and demand, by the columns they write |
| `LeaseExpires`, `BackoffElapses`, `Midnight` | `now()` passes a bound that a guard compares with |

Time is reduced to the comparisons the code makes. `newer` is the set of works whose
published row has a later `updated_at` than they have, which is what the publication
compares. `touched` says the same for a prepare under way, whose `now()` is the start
of its transaction: `Stamped` keeps a row newer that was updated while the slot waited
for the lock. A slot that read a Korean source is touched like the others, and writes
all the same: the UPDATE of `RejectKorean` asks for a requested row and compares no
time, so that it may fail a request that came after the slot's read, and of a source
that is no longer Korean. `OvertakenNeverPublishes` names that write as the only one an
overtaken slot makes. Writers outside this repository are taken to commit at once: a
transaction of theirs that stays open across a claim would carry an older timestamp
than its commit, which the code's comparison cannot see either.

`prepare` compares the day's cap with the sum of `attempt_count` over the rows updated
today. `Used` counts the pairs of a work and one of its attempts instead (`Charges`),
which is the same number; `spent` charges each claim to the day it was made on.

`ReaderView` has three variables, the source, the row and the stored translations,
and six actions. `GPTStore!KeepsPromise` is its specification with `stored` mapped to
the work rows' results.

### QueueRun

The store is reduced to a source with its attempts and its holder, the scan to some
claimable source. What is kept in full is what the slots, the switches and the limit
do: `Scan` is `_claim` up to the admission under the scan lock, `Check` and
`CheckModel` the second look at the switches at the head of `_infer`, `Begin` the
start of the call. The outcomes of a GPT call are `LimitHit`, `PlanStop`,
`StreamFails` and `StreamCompletes`, with `LimitCleared` and `SubmitResult` after the
last; those of a Claude call are `FallbackCompletes`, `FallbackFails` and
`FallbackRefused`. `windows`, `late` and `lateClaims` are history variables, updated
by `Observe` in every step.

A source no longer in the queue by other means, heartbeats and usage totals are left
out. Files can be read and written, except where the code catches the failure; there
both outcomes are allowed (`LimitCleared`, `Recorded`, `Cleanup`).

### QueueScan

A key is its position in key order. `Read` is the beginning of a tick: `scan.json`,
the pending requests, and a page of at most `Limit` rows after the cursor. Then each
request not tried yet, oldest first, and each row is marked on disk (`PickRequest`,
`PickRow`) and offered; the admission answers with one of three outcomes
(`RequestAnswered`, `RowAnswered`). `Request`, `Appear` and `Disappear` change the
queue between any two of these steps. `since`, `covered` and `ahead` are histories.

### PlanAccount

The actors are the slots of the run under way and the setup screens. A screen is a
setup server, which serves one request at a time; several may run on one state
directory. A session is the number of its refresh token, in the order the provider
granted them; of an access token only its freshness is kept.

| Action | Code |
|---|---|
| `NoSession`, `UseSession`, `Renew` | `credentials` under `account.lock`, up to the request to the provider |
| `Rotates`, `RenewsSame`, `Rejects`, `RotatesUnheard`, `NotRenewed` | the answer: a new token, the old one again, a refusal, a lost answer, no renewal |
| `StoreRenewed`, `DropRenewed`, `ClearRejected` | what `credentials` does with the answer; each releases `account.lock` |
| `Login`, `Callback`, `Exchange`, `SignInFails`, `SaveSession`, `Activate` | `/login` and the callback with `begin` and `finish`; the two writes of `finish` are two steps |
| `Choose`, `Save`, `SaveRefused`, `Pause` | `/models`, `/save` and `/pause`; the catalog is read in `Choose`, before the locks of `Save` |
| `Start`, `RunEnds`, `StreamEnds`, `StopWorker` | `main`, the end of a slot's stream, and the stop written for a failed call |
| `RunDies`, `ScreenDies` | a process is killed: its locks are free, an answer not yet written is lost |

`valid` and `granted` are the provider's. It invalidates a token that it rotates, and
refuses one that is not valid; that is all the model assumes of it. `ran`, `verified`
and `gone` are histories. `control.lock` has no variable: a screen holds it only
together with `worker.lock`, and the two writers that take it alone (`Pause`,
`StopWorker`) do so in one step. A sign-in needs no action in `QueueRun`: it leaves no model, so
that nothing starts before a save, which `QueueRun` has.

### ResearchPoller

An instance is a process: launchd's, or one the owner started, with or without
`--once`. `requested_at` is kept as the order it induces (`before`) and as an age up to
`GeniusWaitMax`; `started_at` as the age of the claim, up to just over `StaleRunning`.
Time passes in `Tick`, wherever an instance stands. Only a call is cut off, after
`CallMax`; reads, writes and the wait for the lock take as long as they take. `Slack` is
what the window leaves beside a call, `StaleRunning - CallMax`: five minutes in the code.

| Action | Code |
|---|---|
| `Enqueue`, `Restart`, `Refine` | the owner's requests, as the backend writes them |
| `Start`, `Preflight` | one firing: `main`, and the look at the cooldown before a claim |
| `NudgeRead`, `NudgeSend` | `_nudge_unready_albums`: the held albums and the state file are read, one message per album is sent, the file is written once at the end |
| `Claim`, `ClaimNone` | `CLAIM_SQL`, with the takeover and the readiness gate |
| `Read`, `Acquire`, `CallSucceeds`, `CallFails` | facts and metadata; `coordinated_run` up to its lock; the call and its end |
| `MarkDone`, `MarkFailed` | the write-backs, by row id |
| `Crash`, `OtherDies` | a process dies; its lock goes with it |
| `Collect`, `OtherTakes`, `OtherEnds`, `CoolsOff` | the worker's Genius collection, the other jobs, the cooldown |

`served` and `current` say whether a run has seen the owner's last request and nobody
else wrote its row; `quiet` says what the nudge file should know, and `torn` which
messages it lost where the code accepts that (a crash or a failed message before the
save, another instance's save); `wasted` counts the claims of one cooldown; `delay` is
the time an instance spent since its claim beside the call, and `late` the albums a run
of which spent more than `Slack` there. All are histories.

The docstring (`research_poller.py:28`) promises that "two poller instances never
double-run a row". The code does not keep that (`SingleFlight`, see below): the window
is 20 minutes (line 95) and a call 15 (line 94), but the wait for the lock (line 573)
is not bounded, and `started_at` is written at the claim and not again. What it does
keep is `DoubleRunsAreLate`: an album is run twice at once only if it is late. The same
exception, and no other, stands in `DoneIsLatest` and in the second half of `NotesKept`;
that no failure blanks a note holds of late runs too. An album is no longer late once
it is claimed while nobody is at it. The schedule itself starts one instance at a time;
the owner's own starts make two.

### LocalJobs

The module extends `ResearchPoller`, so that its rows, lock and cooldown are the same
variables, and says which job `Other` stands for (`holder`). A genre poller goes
through `GenreStart` (preflight), `GenreClaim`, `GenreCalls` and `GenreAnswered` (as
often as the backfill calls the model), `BackfillSucceeds` or `BackfillFails`, and
`GenreEnd`, which sets `finished_at` or clears `claimed_at`. A poller in `Shimmed` runs
with `GENRE_HEAL_LLM=neuralwatt` and does not touch the subscription. A slot goes
through `FallbackClaim`, then under the lock `FallbackCalls` or `FallbackRefused`, then
`FallbackAnswered`; its lease is looked at where `translate` does, once the lock is
held. `claimed_at` is taken from a monotonic clock after the claim was committed
(`gpt_queue_worker.py:233`); the margin leaves 120 seconds over a call of 300, which covers what
passes between the two.

### NightlyDrafts

A memo is an album with checked items. A file is the memo it is about and a name; the
name is the memo's slug, or one that drifted from it in case, spaces and separators
(`Key`). A name that drifts onto the exact slug of another memo is excluded
(`Bases \cap Keys = {}`): the code would bind it to that memo. `Start` is the export, `Answer` the call with everything computed from it
(`Slugs`, `Bound`, `Pairings`), `Mint` the token, then one action per answer of the
backend to a create (`Create`, `Stuck`, `Denied`, `Skipped`) and to a grow (`Grow`,
`GrowFails`), and `Finish` with the exit status `Code`. `Abort` and `DeliveryFails` are
the other ends, and also what a kill leaves behind. A lost answer is the case of
`Skipped` or `GrowFails` that changes the backend's rows. The owner checks, unchecks,
publishes, discards, or repairs by hand (`Recover`) between any two steps. The title
and with it the slug of a draft are the album's for good, whoever creates it.

What the model shows beyond its properties, and the code accepts or its comments do
not say:

- An answer that cannot be parsed, files that bind to no memo, and memos without a file
  end with exit 0, while the docstring (line 17) says "Zero drafts is now a failed run".
- A create whose answer is lost ends with exit 0; the memo shows as a 409, and as
  exit 4, only on the next night.
- Of two runs at once the loser reports the memo as stuck although the winner grows it.
- The grow is by album: an item checked after the export is stamped and unchecked with
  the others, without having been read.
- Of two files with one name the first is delivered and the last is on disk.

An operator marked as mutant in a comment is a plausible bug of the definition named
after it. No specification uses it; replacing the definition by it makes the property
listed with it in `PROJECT.json` fail, which shows that the property depends on it.

## What is checked

| Run | Instance | Shows |
|---|---|---|
| `store_publish` | one lyric, three versions, one of them Korean, two slots, cap 3, 2 claims per work, 2 steps of the environment | claims, publication, the owner's text, overtaken slots, the cap over several works, and the refinement of `ReaderView`; `IInv` is the invariant the proofs use, with the bound on live leases among its parts |
| `store_live` | one lyric, a Korean version, one slot, cap 1, 3 claims, two midnights, 2 steps of the environment | every request ends; attempts and the days' budgets |
| `run_safety` | two slots, two sources, 2 hits, 2 steps of owner, site or crash | stops, waits, the fallback's cap; `IInv` is the invariant the proofs use |
| `run_live` | two slots, one source | stops end runs; GPT is probed again |
| `run_attempts` | one slot, one source | a counterexample, see below |
| `scan` | four keys, two of them requests, one set aside, pages of two, 2 requests, 2 changes | laps, priority, no starvation; `IInv` is the invariant the proofs use |
| `plan_safety` | two accounts of one model each, two slots, two screens, 3 tokens, 2 switches, revocations or crashes | races on sessions, locks and settings; `IInv` is the invariant the proofs use |
| `plan_model` | the same with 2 tokens and no crash | a counterexample, see below |
| `research` | two instances, one with `--once`, one album, a call of 3 and a window of 4, 3 requests, 2 faults | double runs, hidden requests and notes replaced unseen need a late run; notes, the cooldown, the nudge file |
| `research_double` | the same with one request and no fault | a counterexample, see below |
| `nightly` | a scheduled run and one by hand, two memos, two bases of one key | drafts are their own album's; exit 0 is honest |
| `jobs` | one instance, one album, one genre poller, one slot, a call of 1 and a window of 2, a lease of 2 with a margin of 1, 2 research requests, one genre request, one fault | every request of both queues is answered; calls fit their leases |

Bounds. Two slots are enough for a takeover, a race for the last unit of a cap and
two streams that meet one limit; a third adds no new kind of pair, and the properties
are about pairs or counts that the proofs cover for any number. `MaxClaims` is larger
than one so that a claim is taken over, `MaxEdits` = 2 lets the owner act before and
after a publication or undo a change, pages of two rows out of four keys make the
cursor stop inside and at the end of a lap. Three tokens are two sign-ins and a
rotation, or a sign-in rotated twice; two screens let a sign-in fall between two steps
of another screen. `store_publish` has three versions so that two translations of a lyric race, and a
Korean source is read before a request and rejected after it. The days of the budget are
`store_live`'s: with a cap of 1 a third claim of a work, which its attempts forbid, falls
on the third day. No run has an annotation, whose source and translation share a row, and
none reaches the higher cap on attempts of a temporary error: there the invariants and
action properties rest on the proofs. `research` has the ratio of the
code, 900 to 1200 seconds, which leaves a slack of one: a takeover one tick early meets
a run that is not late. It has one row; which of several albums is claimed,
and a firing that nudges one and not another, are covered by the proofs only. Two faults
strand a row and lose a write or a message; three requests ask, restart or refine, and
ask again while a late run is under way. `nightly` needs no bound: its nights go round a finite set of states, and
two memos under one key are the smallest case in which a fold is ambiguous; an album
with several items is covered by the proofs. `jobs` has one job of each kind, which is
all the lock can tell apart. `MaxClaims`, `MaxEdits`, `MaxHits`,
`MaxDays`, `MaxRequests`, `MaxChanges`, `MaxSessions`, `MaxFaults` and `MaxGenre` bound the exploration and stand for nothing
in the code. `CHECK_DEADLOCK FALSE` is set because a bounded instance stops when the
bounds are used up and the queue is empty or stopped, or no session is left.

`RequestResolved` counts a request as ended when the last day of the instance has no
budget left or a work used all of `MaxClaims`, which only the bounds bring about; and
also when a slot rejects it that read the Korean source before it was made.

Fairness. The scheduler starts the worker every minute and a lap offers every row
(`QueueScan` checks exactly that), hence strong fairness of picking a requested item
although slots may be busy or crash in between. Transactions commit, calls have
deadlines (`gpt_plan_client.py` and `claude_fallback_client.py` check them), clocks
advance, past midnight too: weak fairness. A slot may crash before any of its steps, so that a step
which must happen in the end is given strong fairness: crashes are not assumed to hit
the same transaction for ever. In `QueueScan` a budget refusal is not the only answer
an admission ever gives: days with budget come. In `LocalJobs` launchd starts the
pollers again (weak), a started poller goes on, and time passes although jobs come and
go in between (strong); every call of a job ends, a cooldown ends, and of research calls
and backfills tried again and again one succeeds (strong). Both liveness properties
there hold only if the subscription is throttled no more from some time on, which is
their premise: every throttle delays, none loses. The Genius collection is owed
nothing, which is what makes `RequestsAnswered` a statement about the gate's escape;
nor is the owner's second request of an album that a late run then marks as done, since
nothing tells the queue that it was not seen (without that exception one instance alone
violates the property);
nor is a genre request whose poller died (`lost`), since nothing clears its
`claimed_at`. No fairness is assumed of the owner,
the site, the crawlers, the limit or the crash.

### Three disagreements

`_infer_fallback` says of itself: "Every failure is refunded: the attempts belong to
GPT." `run_attempts` shows one that is not: a completed Claude call whose result the
store refuses (`validate_segments`, when the model returned another number of lines)
is released as `superseded_result` without a refund, and the source is not put on the
skip list. With two attempts per source, two such calls stop it before GPT saw it. It is the
only such release: `AttemptsReturned` proves that every other one after a fallback claim
returns its attempt, or cancels the source because the owner stopped the worker or
changed its model. (A release that itself fails leaves the claim to its lease, with the
attempt spent, in either mode; the theorem does not speak of that.)

`/save` promises "Only live, account-provided slugs". `plan_model` shows a saved model
of another account: the catalog is read before `worker.lock` and `control.lock` are
taken, and `settings.active` is not compared afterwards. It needs two setup screens on
one state directory, one that saves and one that completes a sign-in in between.
Nothing starts by itself, because both leave `enabled` false (`EnabledAsVerified`).

The research poller promises that "two poller instances never double-run a row".
`research_double` shows two at one row, with one request and no failure. Its `PromptSpec`
lets time pass only between firings, in a call, and behind a lock somebody else holds:
an instance claims the row and waits behind another job for longer than the window, a
second instance claims the row, and each then runs it and writes it by its id. With 900
of 1200 seconds allowed to the call, more than five minutes of waiting
before a call that uses its time are enough.

## What is proved

For every value of the constants that meets the named assumptions (`StoreConstants`,
`RunConstants`, `ScanConstants`, `PlanConstants`, `ResearchConstants`, `LocalConstants`,
`NightlyConstants`):

- `GPTStoreProofs`: the inductive invariant `IInv` (`Inductive`) and from it
  `TypeCorrect`, `AttemptsCapped`, `OneHolder`, `OnlyStoredShown`, `SlotCap`, `BudgetKept`; and the
  action properties `DoneForGood`, `StoppedForGood`, `NoLatePublication`,
  `OwnerKeepsHers`, `PublicationsCurrent`.
- `GPTStoreRefinement`: `Implements`, the claim protocol implements `ReaderView`.
- `QueueRunProofs`: the inductive invariant (`Inductive`), `StopCatches`,
  `HitsMatchWaits`, `CapKept`, and the action properties `WaitsStand` and
  `AttemptsReturned` (`OnlyRefusalsCost`, which no run repeats).
- `QueueScanProofs`: the inductive invariant (`Inductive`), `NoKeySkipped`, `PriorityOnce`, `LapsAreComplete`.
- `PlanAccountProofs`: the inductive invariant (`Invariant`), `RunKeepsAccount` and
  `NothingStartsUnverified`, and the action properties `SessionsKept` and
  `NewestSessionKept`.
- `ResearchPollerProofs`: `TypeCorrect`, the inductive invariant (`Invariant`),
  `DoubleRunsLate`, `RequestsAnsweredInTime`, `OneRowPerCooldown` and `NudgesKnown`, and
  the action property `NoNoteLost`; for every call limit up to the window, and any time
  spent in the wait for the lock.
- `LocalJobsProofs`: `Implements`, the jobs together implement `ResearchPoller`; from it
  `DoubleRunsLateAmongJobs` and `CooldownAmongJobs`; and `RequestsHeld`, `CallsFitLease`,
  `OneCall` (`OneCallAtATime`, which no run repeats).
- `NightlyDraftsProofs`: `Invariant`, `DraftsAreOwn`, `ExitIsHonest`.

The argument for the store. That two slots never both hold the current claim follows
from `Granted`: a slot's token was granted by its work, and no two slots have the same
one, because a claim always takes a number the work has not used. That an overtaken
slot never publishes needs `Betrayed`: while a slot's claim is current, an update of
the row since its prepare began shows in the timestamps (`newer`). It is not enough to
say so from the claim on, since the claim's own timestamp is the start of a
transaction that may have waited for the lock; `OvertakenPlaced` carries the fact
through the wait. For a slot that read a Korean source nothing of the kind is needed or
true: it publishes nothing, and its rejection is not compared with any time. That only stored results are shown needs the CHECK constraints of
the work rows (`Consistent`): a result exists exactly when the row is done, and a done
row is never touched again. `FewRunning` carries the finiteness of the set of live
leases, which the count needs.

The argument for the daily budget. `Counted` says of each work that its charges of the
day are no more than its row's attempts, and that with a charge the row was updated
today, so that admission counts it. A claim adds an attempt and a charge, a refund takes
both back, a midnight clears both. Each side of the comparison is the size of one finite
set of pairs, which a step changes in one pair; no sum over rows is needed. Admission
compares the larger of the two with the cap, which can refuse a claim the cap would have
allowed but never grants one too many.

The argument for the runs. A slot only goes forward from a clear look at the switches
(`Forward`, the lemma `SlotMoves`), and there are two looks, before the claim and before
the call. `Caught` says of a stop that has begun: a slot that claimed since then is past
the scan lock, and nobody else is under it (`OneScan`), so that the next one to take the
lock sees the stop; a slot that began a call since then is not about to begin another.
That is all a stop can let through, however many slots there are. `HitsWaited` ties
the streak to the waits armed: a hit is only counted while no wait stands, and then one
does. `RoomAhead` says that a fallback slot on its way to a call has seen room under the
cap; it needs `SlotsOfRun`, that a fallback run has one slot, since two would see the
same room. `Charged` keeps refunds above zero: a source that is held has an attempt.
`EndsOfGPT` says that what follows the end of a GPT call happens in GPT runs only, which
is why the release there, which may keep the attempt, costs GPT nothing of the
fallback's.

The argument for the refinement. A step of the owner, a crawler or a rejection maps to
the abstract step of the same kind; a submission stores a result and either publishes
it or not, which is `Translate`; a publication of a result stored before is `Show`;
every other step leaves source, row and results alone. The invariant is needed to know
that a submission's work had no result yet and that what `AdmitStored` shows is one.

The argument for the scan. `RowsAhead` says that the rows of a page still to come lie
after the cursor and that no key of the lap lies between them unseen; with it the
cursor can only pass a key that was offered. `AheadMarked` ties the count of priority
attempts to what `scan.json` says on disk, which is why a crash cannot repeat one.

The argument for the plan account. `LocksHeld` ties each lock to where its holder
stands, so that a renewal and a sign-in's write exclude each other, as do a run and a
sign-in or a save. `Presented` then says that the token in a renewal is the one on
disk, and `TokensKnown` that every token on disk is accepted by the provider, known to
be gone, or about to be replaced by the one process that holds its successor; for the
last it needs `TokensDistinct`. A refusal therefore only ever meets a token that is
gone. `AtRunAccount` carries the run's account through a renewal. There is one lemma
per action, with one step for each variable it changes and each part it can disturb.

The argument for the research poller. `Own` says of a working instance, unless its
album is late, that its row is running, that nobody asked again or wrote it since the
claim, and that it is no older than the instance's time beside its call and in it. The
first is at most `Slack` while the album is not late, the second at most `CallMax`, so
that the row is not stale, and neither a claim nor a request of the owner reaches it;
its write-back by id is safe. `Tick` is the step that makes an album late, exactly when
the first bound would be passed, and a claim clears it only when nobody is at the row.
Without `Own` the other parts are not inductive: nothing else relates the age of a row
to where its instance stands. For the cooldown, `Spared` says that an
instance that wasted a row is not on its way to another claim while the cooldown stands,
because only a preflight that saw none sends it there.

The argument for the jobs. A step of a genre poller or a slot that takes the lock, lets
it go or dies is one of the three steps of `Other`; every other one stutters. A claimed
genre request has one poller because a request leaves a poller (`AtWork`) in the step
that ends its claim, or in the poller's death. `OnTime` bounds the age of a lease in a
call by the margin and the time of the call, and holds only because the lease is looked
at after the wait. `Lock` names the job in a call that the lock is held for; every
step that ends a call, a death included, gives it back.

The argument for the nightly drafts. Equal bases are numbered, and as many numbers as
memos are used, so that no two memos have one slug (`SlugsDiffer`, a pigeonhole
argument over finite sets). A file's name is its memo's slug or that slug's key; a name
found exactly is therefore that memo's, and a key is used only if no second memo has
it. `Sound` says that what a run was told of and has not counted as failed is the memo
whose grow call is under way; it carries `HonestExit`.

Only model-checked: the liveness properties (`RequestResolved`, `StopEndsRun`,
`GPTProbedAgain`, `EveryKeyOffered`, `RequestsAnswered`, `GenreServed`), since fairness
and ENABLED are beyond the prover. Every invariant and every action property of a
passing run is stated by a theorem.

## Not modelled, and the plan

The texts of sources, translations and prompts, the parsing of event streams and
command output, logs and usage totals, the HTML of the setup screen: data no property
tells apart. Installers, probes, backfills, hooks and infrastructure: run by hand or
without state over time.

In the modelled components: heartbeats, usage totals and the retry delays of the nightly
call; the genre backfill itself, the Genius collection and the backend, whose code is in
other repositories and which appear as what their callers see of them.

Components left out:

- Heartbeats: best-effort writes of one row per agent, throttled; nothing in the
  repository reads it.
- The demand bridge and the earlier pollers: the code is kept for its regression tests
  and nothing calls it.
- The GPT client's reader of event streams, the editor helper, the usage shim, the
  guards of agent sessions: parsers and single calls with no state over time.
- Checkout claims: two shell scripts of the developer's sessions around a directory of
  files, apart from the blog's jobs.
- Probes, benchmarks and one-off backfills: run by hand, read-only or sequential.

What remains of the plan, in order:

1. `QueueRun` as an implementation of the attempt and claim rules of `GPTStore`: its
   sources mapped to works, its releases to `GiveUp`.
2. Text matching of `tools/` as operators against reference definitions.
