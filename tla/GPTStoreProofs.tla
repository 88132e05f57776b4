--------------------------- MODULE GPTStoreProofs ---------------------------
(***************************************************************************)
(* What GPTStore guarantees for any number of items, versions and slots.   *)
(*                                                                         *)
(* Lemmas about one work row come first: what each write of the store      *)
(* leaves in its columns.  Then one lemma says what every step but a claim *)
(* leaves alone (Steady), and the invariants are proved from it, a claim   *)
(* being the only other case.                                              *)
(***************************************************************************)
EXTENDS GPTStore, FiniteSetTheorems, TLAPS

-----------------------------------------------------------------------------
(* One row of lyrics_translation_work. *)

LEMMA CreatedRow ==
  ASSUME NEW w \in Work
  PROVE  /\ Created(w) \in Work
         /\ Created(w).status = IF w.status = "absent" THEN "ready" ELSE w.status
         /\ Created(w).attempts = w.attempts /\ Created(w).claims = w.claims
         /\ Created(w).token = w.token /\ Created(w).leased = w.leased
         /\ Created(w).reason = w.reason /\ Created(w).result = w.result
  BY DEF Created, Work, WorkStatus

LEMMA ManualRow ==
  ASSUME NEW w \in Work, NEW m \in BOOLEAN
  PROVE  LET v == [w EXCEPT !.manual = w.manual \/ m]
         IN  /\ v \in Work
             /\ v.status = w.status /\ v.attempts = w.attempts /\ v.claims = w.claims
             /\ v.token = w.token /\ v.leased = w.leased
             /\ v.reason = w.reason /\ v.result = w.result
<1>1. (w.manual \/ m) \in BOOLEAN
  BY DEF Work
<1>2. [w EXCEPT !.manual = w.manual \/ m] \in Work
  BY <1>1, Zenon DEF Work
<1>3. QED
  BY <1>2 DEF Work

LEMMA ClaimedRow ==
  ASSUME NEW w \in Work
  PROVE  /\ Claimed(w) \in Work
         /\ Claimed(w).status = "running" /\ Claimed(w).leased
         /\ Claimed(w).attempts = w.attempts + 1
         /\ Claimed(w).claims = w.claims + 1 /\ Claimed(w).token = w.claims + 1
         /\ Claimed(w).reason = w.reason /\ Claimed(w).result = w.result
<1>1. w.attempts + 1 \in Nat /\ w.claims + 1 \in Nat /\ "running" \in WorkStatus
  BY DEF Work, WorkStatus
<1>2. Claimed(w) \in Work
  BY <1>1, Zenon DEF Claimed, Work
<1>3. QED
  BY <1>2 DEF Claimed, Work

LEMMA CompletedRow ==
  ASSUME NEW w \in Work, NEW token \in Nat
  PROVE  LET v == Completed(w, token)
         IN  /\ v \in Work
             /\ v.status = "done" /\ v.token = 0 /\ ~v.leased /\ v.result = token
             /\ v.attempts = w.attempts /\ v.claims = w.claims /\ v.reason = w.reason
<1>1. "done" \in WorkStatus /\ 0 \in Nat
  BY DEF WorkStatus
<1>2. Completed(w, token) \in Work
  BY <1>1, Zenon DEF Completed, Work
<1>3. QED
  BY <1>2 DEF Completed, Work

LEMMA ReleasedRow ==
  ASSUME NEW w \in Work, w.attempts > 0, NEW reason \in Reasons, NEW refund \in BOOLEAN
  PROVE  LET v == Released(w, reason, refund)
         IN  /\ v \in Work
             /\ v.status = "retryable_error" /\ v.token = 0 /\ ~v.leased
             /\ v.attempts = IF refund THEN w.attempts - 1 ELSE w.attempts
             /\ v.claims = w.claims /\ v.result = w.result
<1> DEFINE a == IF refund THEN w.attempts - 1 ELSE w.attempts
           r == IF refund /\ w.reason = "temporary_error" THEN w.reason ELSE reason
<1>1. a \in Nat /\ 0 \in Nat /\ "retryable_error" \in WorkStatus
  BY DEF Work, WorkStatus
<1>2. r \in Reasons /\ (reason # "temporary_error") \in BOOLEAN
  BY DEF Work
<1>3. Released(w, reason, refund) =
        [w EXCEPT !.status = "retryable_error", !.token = 0, !.leased = FALSE, !.today = TRUE,
                  !.attempts = a, !.reason = r, !.due = reason # "temporary_error"]
  BY Zenon DEF Released
<1> HIDE DEF a, r
<1>4. Released(w, reason, refund) \in Work
  BY <1>1, <1>2, <1>3, Zenon DEF Work
<1>5. QED
  BY <1>4 DEF Released, Work, a

LEMMA ClockRow ==
  ASSUME NEW w \in Work
  PROVE  /\ [w EXCEPT !.leased = FALSE] \in Work
         /\ [w EXCEPT !.due = TRUE] \in Work
         /\ [w EXCEPT !.today = FALSE] \in Work
  BY DEF Work

-----------------------------------------------------------------------------
(* Types of the values the actions write. *)

LEMMA IdleType == Idle \in Client
  BY DEF Idle, Client

LEMMA TargetIsWork ==
  ASSUME TypeOK, Placed, NEW c \in Clients,
         client[c].phase \in {"admitting", "holding", "refused"}
  PROVE  /\ Target(c) \in Works
         /\ client[c].item \in Items
         /\ client[c].fp \in Fps
         /\ work[Target(c)] \in Work
  BY DEF TypeOK, Placed, Target, Works

LEMMA OvertakenType ==
  ASSUME TypeOK, Placed, NEW i
  PROVE  /\ Overtaken(i) \in [Clients -> Client]
         /\ \A c \in Clients :
              /\ Overtaken(i)[c].phase = client[c].phase
              /\ Overtaken(i)[c].item = client[c].item
              /\ Overtaken(i)[c].fp = client[c].fp
              /\ Overtaken(i)[c].token = client[c].token
              /\ client[c].phase = "idle" => Overtaken(i)[c] = Idle
              /\ client[c].item # i => Overtaken(i)[c] = client[c]
<1>1. \A c \in Clients : client[c] \in Client
  BY DEF TypeOK
<1>2. \A c \in Clients : [client[c] EXCEPT !.touched = TRUE] \in Client
  BY <1>1 DEF Client
<1>3. Overtaken(i) \in [Clients -> Client]
  BY <1>1, <1>2 DEF Overtaken
<1>4. ASSUME NEW c \in Clients
      PROVE  /\ Overtaken(i)[c].phase = client[c].phase
             /\ Overtaken(i)[c].item = client[c].item
             /\ Overtaken(i)[c].fp = client[c].fp
             /\ Overtaken(i)[c].token = client[c].token
             /\ client[c].phase = "idle" => Overtaken(i)[c] = Idle
             /\ client[c].item # i => Overtaken(i)[c] = client[c]
  BY <1>1 DEF Overtaken, Client, Placed
<1>5. QED
  BY <1>3, <1>4

LEMMA UpsertedRow ==
  ASSUME TypeOK, Placed, NEW c \in Clients, client[c].phase = "admitting"
  PROVE  LET w == work[Target(c)]
             v == Upserted(c)
         IN  /\ v \in Work
             /\ v.status = IF w.status = "absent" THEN "ready" ELSE w.status
             /\ v.attempts = w.attempts /\ v.claims = w.claims
             /\ v.token = w.token /\ v.leased = w.leased
             /\ v.reason = w.reason /\ v.result = w.result
<1>1. work[Target(c)] \in Work /\ client[c].manual \in BOOLEAN
  BY TargetIsWork DEF TypeOK, Client
<1>2. QED
  BY <1>1, CreatedRow, ManualRow DEF Upserted

LEMMA ClaimedSlot ==
  ASSUME TypeOK, Placed, NEW c \in Clients, AdmitClaim(c)
  PROVE  client' = [client EXCEPT ![c].phase = "holding",
                                  ![c].token = work[Target(c)].claims + 1]
<1>1. Claimed(Upserted(c)).token = work[Target(c)].claims + 1
  BY UpsertedRow, ClaimedRow DEF AdmitClaim
<1>2. QED
  BY <1>1 DEF AdmitClaim

LEMMA InitTyped == Init => TypeOK /\ Placed
<1> SUFFICES ASSUME Init PROVE TypeOK /\ Placed
  OBVIOUS
<1>1. NoRow \in Row /\ [NoRow EXCEPT !.status = "requested"] \in Row
  BY DEF NoRow, Row
<1>2. NoWork \in Work
  BY DEF NoWork, Work, WorkStatus, Reasons
<1>3. TypeOK
  BY <1>1, <1>2, IdleType, StoreConstants DEF Init, TypeOK
<1>4. Placed
  BY DEF Init, Placed, Idle
<1>5. QED
  BY <1>3, <1>4

-----------------------------------------------------------------------------
(* Every step keeps the work rows typed and consistent. *)

LEMMA OneRow ==
  ASSUME TypeOK, AttemptsBounded, NEW w \in Works, NEW v \in Work, Consistent(v),
         work' = [work EXCEPT ![w] = v]
  PROVE  work' \in [Works -> Work] /\ AttemptsBounded'
  BY DEF TypeOK, AttemptsBounded

LEMMA FailStep ==
  ASSUME TypeOK, Placed, AttemptsBounded, NEW c \in Clients, Claiming(c),
         NEW reason \in Reasons, NEW refund \in BOOLEAN, Fail(c, reason, refund)
  PROVE  work' \in [Works -> Work] /\ AttemptsBounded'
<1>1. CASE ~Current(c)
  BY <1>1 DEF Fail, TypeOK, AttemptsBounded
<1>2. CASE Current(c)
  <2> DEFINE w == Target(c)
             v == Released(work[w], reason, refund)
  <2>1. w \in Works /\ work[w] \in Work /\ work[w].status = "running" /\ Consistent(work[w])
    BY <1>2, TargetIsWork DEF Claiming, Current, Live, AttemptsBounded
  <2>2. v \in Work /\ Consistent(v)
    BY <2>1, ReleasedRow, StoreConstants DEF Consistent, Work
  <2>3. work' = [work EXCEPT ![w] = v]
    BY <1>2 DEF Fail
  <2>4. QED
    BY <2>1, <2>2, <2>3, OneRow
<1>3. QED
  BY <1>1, <1>2

LEMMA WorkStep ==
  ASSUME TypeOK, Placed, AttemptsBounded, Granted, [Next]_vars
  PROVE  work' \in [Works -> Work] /\ AttemptsBounded'
<1>1. ASSUME NEW w \in Works, LeaseExpires(w) \/ BackoffElapses(w)
      PROVE  work' \in [Works -> Work] /\ AttemptsBounded'
  <2>1. work[w] \in Work /\ Consistent(work[w])
    BY DEF TypeOK, AttemptsBounded
  <2>2. /\ Consistent([work[w] EXCEPT !.leased = FALSE])
        /\ Consistent([work[w] EXCEPT !.due = TRUE])
    BY <2>1 DEF Consistent, Work
  <2>3. QED
    BY <1>1, <2>1, <2>2, ClockRow, OneRow DEF LeaseExpires, BackoffElapses
<1>2. CASE Midnight
  <2>1. ASSUME NEW w \in Works
        PROVE  [work[w] EXCEPT !.today = FALSE] \in Work /\ Consistent([work[w] EXCEPT !.today = FALSE])
    <3>1. work[w] \in Work /\ Consistent(work[w])
      BY DEF TypeOK, AttemptsBounded
    <3>2. QED
      BY <3>1, ClockRow DEF Consistent, Work
  <2>2. QED
    BY <1>2, <2>1 DEF Midnight, AttemptsBounded
<1>3. ASSUME NEW c \in Clients, NEW i \in Items, BindAlbum(c, i)
      PROVE  work' \in [Works -> Work] /\ AttemptsBounded'
  <2> DEFINE w == <<i, source[i]>>
  <2>1. CASE UNCHANGED work
    BY <2>1 DEF TypeOK, AttemptsBounded
  <2>2. CASE work' = [work EXCEPT ![w] = Created(work[w])]
    <3>1. w \in Works
      BY <1>3 DEF BindAlbum, TypeOK, Works
    <3>2. work[w] \in Work /\ Consistent(work[w])
      BY <3>1 DEF TypeOK, AttemptsBounded
    <3>3. Created(work[w]) \in Work /\ Consistent(Created(work[w]))
      BY <3>2, CreatedRow DEF Consistent
    <3>4. QED
      BY <2>2, <3>1, <3>3, OneRow
  <2>3. QED
    BY <1>3, <2>1, <2>2 DEF BindAlbum
<1>4. ASSUME NEW c \in Clients, AdmitStored(c) \/ AdmitClaim(c)
      PROVE  work' \in [Works -> Work] /\ AttemptsBounded'
  <2> DEFINE w == Target(c)
             u == Upserted(c)
  <2>1. client[c].phase = "admitting" /\ w \in Works /\ work[w] \in Work /\ Consistent(work[w])
    BY <1>4, TargetIsWork DEF AdmitStored, AdmitClaim, AttemptsBounded
  <2>2. u \in Work /\ Consistent(u)
    BY <2>1, UpsertedRow DEF Consistent
  <2>3. CASE AdmitStored(c)
    BY <2>1, <2>2, <2>3, OneRow DEF AdmitStored
  <2>4. CASE AdmitClaim(c)
    <3>1. u.attempts < TemporaryMaxAttempts /\ u.reason # "terminal"
      BY <2>2, <2>4, StoreConstants DEF AdmitClaim, Admissible, Stopped, AttemptCap, Work
    <3>2. work[w].status # "done" /\ u.status # "done"
      BY <2>1, <2>4, UpsertedRow DEF AdmitClaim
    <3>3. Claimed(u) \in Work /\ Consistent(Claimed(u))
      BY <2>2, <3>1, <3>2, ClaimedRow, StoreConstants DEF Consistent, Work
    <3>4. QED
      BY <2>1, <2>4, <3>3, OneRow DEF AdmitClaim
  <2>5. QED
    BY <1>4, <2>3, <2>4
<1>5. ASSUME NEW c \in Clients, Submit(c)
      PROVE  work' \in [Works -> Work] /\ AttemptsBounded'
  <2> DEFINE w == Target(c)
             v == Completed(work[w], client[c].token)
  <2>1. Claiming(c) /\ w \in Works /\ work[w] \in Work /\ Consistent(work[w])
    BY <1>5, TargetIsWork DEF Submit, Claiming, AttemptsBounded
  <2>2. client[c].token \in Nat /\ client[c].token # 0
    BY <2>1 DEF Granted, Work
  <2>3. v \in Work /\ Consistent(v)
    BY <2>1, <2>2, CompletedRow DEF Consistent, Work
  <2>4. QED
    BY <1>5, <2>1, <2>3, OneRow DEF Submit
<1>6. ASSUME NEW c \in Clients, GiveUp(c) \/ FailSuperseded(c)
      PROVE  work' \in [Works -> Work] /\ AttemptsBounded'
  BY <1>6, FailStep DEF GiveUp, FailSuperseded, Claiming, Reasons
<1>7. ASSUME UNCHANGED work
      PROVE  work' \in [Works -> Work] /\ AttemptsBounded'
  BY <1>7 DEF TypeOK, AttemptsBounded
<1>8. QED
  BY <1>1, <1>2, <1>3, <1>4, <1>5, <1>6, <1>7
  DEF Next, vars, Environment, Slot, SourceChanges, RequestTranslation, SaveManualEdit,
      ChangeDemand, PickRequested, Prepare, RejectKorean, AdmitRefused,
      SubmitRefused, Crash

-----------------------------------------------------------------------------
(* Every step keeps the slots and the item rows typed and placed. *)

SlotsOK == client \in [Clients -> Client] /\ Placed

RowsOK == row \in [Items -> Row] /\ newer \subseteq Works

LEMMA OneSlot ==
  ASSUME TypeOK, Placed, NEW c \in Clients, NEW v \in Client, NEW i,
         v.phase = "idle" => v = Idle,
         v.phase # "idle" => v.item \in Items,
         v.phase \in {"admitting", "holding", "refused"} => v.fp \in Fps,
         \/ client' = [client EXCEPT ![c] = v]
         \/ client' = [Overtaken(i) EXCEPT ![c] = v]
  PROVE  SlotsOK'
<1>1. Overtaken(i) \in [Clients -> Client]
  BY OvertakenType
<1>2. ASSUME NEW d \in Clients, d # c
      PROVE  /\ Overtaken(i)[d].phase = client[d].phase
             /\ Overtaken(i)[d].item = client[d].item
             /\ Overtaken(i)[d].fp = client[d].fp
             /\ client[d].phase = "idle" => Overtaken(i)[d] = Idle
  BY OvertakenType
<1>3. QED
  BY <1>1, <1>2 DEF SlotsOK, TypeOK, Placed

LEMMA WholeSlots ==
  ASSUME TypeOK, Placed, NEW i, client' = Overtaken(i) \/ UNCHANGED client
  PROVE  SlotsOK'
<1>1. CASE client' = Overtaken(i)
  BY <1>1, OvertakenType DEF SlotsOK, Placed
<1>2. CASE UNCHANGED client
  BY <1>2 DEF SlotsOK, Placed, TypeOK
<1>3. QED
  BY <1>1, <1>2

LEMMA OneItem ==
  ASSUME TypeOK, NEW i \in Items, NEW r \in Row,
         Rewrite(i, r) \/ UNCHANGED <<row, newer>>
  PROVE  RowsOK'
  BY DEF TypeOK, Rewrite, RowsOK, WorksOf, Works

LEMMA LeaveStep ==
  ASSUME TypeOK, Placed, NEW c \in Clients, Leave(c)
  PROVE  SlotsOK' /\ RowsOK'
<1>1. SlotsOK'
  BY IdleType, OneSlot DEF Leave, Idle
<1>2. RowsOK'
  BY DEF Leave, RowsOK, TypeOK
<1>3. QED
  BY <1>1, <1>2

LEMMA PublishStep ==
  ASSUME TypeOK, Placed, NEW c \in Clients, NEW i \in Items, NEW f \in Fps, NEW by \in Nat,
         Publish(c, i, f, by)
  PROVE  SlotsOK' /\ RowsOK'
<1>1. SlotsOK'
  BY IdleType, OneSlot DEF Publish, Idle
<1>2. [status |-> "done", origin |-> "poller", fp |-> f, by |-> by] \in Row
  BY DEF Row
<1>3. RowsOK'
  BY <1>2, OneItem DEF Publish
<1>4. QED
  BY <1>1, <1>3

LEMMA BeginType ==
  ASSUME TypeOK, NEW i \in Items, NEW m \in BOOLEAN, source[i] # None
  PROVE  /\ Begin(i, m) \in Client
         /\ Begin(i, m).phase \in {"korean", "admitting"}
         /\ Begin(i, m).item = i
         /\ ~Begin(i, m).touched
         /\ Begin(i, m).phase = "admitting" => Begin(i, m).fp \in Fps
  BY DEF TypeOK, Begin, Idle, Client

LEMMA EnvironmentSlots ==
  ASSUME TypeOK, Placed, Environment
  PROVE  SlotsOK' /\ RowsOK'
<1>1. ASSUME NEW i \in Items,
             \/ \E f \in Fps \cup {None} : SourceChanges(i, f)
             \/ RequestTranslation(i) \/ SaveManualEdit(i) \/ ChangeDemand(i)
      PROVE  SlotsOK' /\ RowsOK'
  <2>1. row[i] \in Row /\ [row[i] EXCEPT !.status = "requested"] \in Row
    BY DEF TypeOK, Row
  <2>2. [status |-> "done", origin |-> "manual", fp |-> source[i], by |-> 0] \in Row
    BY DEF TypeOK, Row
  <2>3. SlotsOK'
    BY <1>1, WholeSlots DEF SourceChanges, RequestTranslation, SaveManualEdit, ChangeDemand
  <2>4. RowsOK'
    BY <1>1, <2>1, <2>2, OneItem
    DEF SourceChanges, RequestTranslation, SaveManualEdit, ChangeDemand
  <2>5. QED
    BY <2>3, <2>4
<1>2. ASSUME (\E w \in Works : LeaseExpires(w) \/ BackoffElapses(w)) \/ Midnight
      PROVE  SlotsOK' /\ RowsOK'
  BY <1>2, WholeSlots DEF LeaseExpires, BackoffElapses, Midnight, RowsOK, TypeOK
<1>3. QED
  BY <1>1, <1>2 DEF Environment

LEMMA SlotSlots ==
  ASSUME TypeOK, Placed, NEW c \in Clients, Slot(c)
  PROVE  SlotsOK' /\ RowsOK'
<1>1. ASSUME NEW i \in Items, BindAlbum(c, i)
      PROVE  SlotsOK' /\ RowsOK'
  <2>1. [Idle EXCEPT !.phase = "picked", !.item = i] \in Client
    BY DEF Idle, Client
  <2>2. SlotsOK'
    BY <1>1, <2>1, OneSlot, WholeSlots DEF BindAlbum, Idle
  <2>3. QED
    BY <1>1, <2>2 DEF BindAlbum, RowsOK, TypeOK
<1>2. ASSUME NEW i \in Items, PickRequested(c, i)
      PROVE  SlotsOK' /\ RowsOK'
  <2>1. [Idle EXCEPT !.phase = "picked", !.item = i, !.manual = TRUE] \in Client
    BY DEF Idle, Client
  <2>2. SlotsOK'
    BY <1>2, <2>1, OneSlot DEF PickRequested, Idle
  <2>3. QED
    BY <1>2, <2>2 DEF PickRequested, RowsOK, TypeOK
<1>3. CASE Prepare(c)
  <2>1. client[c].item \in Items /\ client[c].manual \in BOOLEAN
    BY <1>3 DEF Prepare, Placed, TypeOK, Client
  <2>2. SlotsOK'
    <3>1. CASE client' = [client EXCEPT ![c] = Idle]
      BY <3>1, IdleType, OneSlot DEF Idle
    <3>2. CASE /\ client' = [client EXCEPT ![c] = Begin(client[c].item, client[c].manual)]
               /\ source[client[c].item] # None
      BY <2>1, <3>2, BeginType, OneSlot
    <3>3. QED
      BY <1>3, <3>1, <3>2 DEF Prepare, Readable
  <2>3. QED
    BY <1>3, <2>2 DEF Prepare, RowsOK, TypeOK
<1>4. CASE RejectKorean(c)
  <2> DEFINE i == client[c].item
  <2>1. i \in Items /\ row[i] \in Row
    BY <1>4 DEF RejectKorean, Placed, TypeOK
  <2>2. [row[i] EXCEPT !.status = "failed"] \in Row
    BY <2>1 DEF Row
  <2>3. CASE Leave(c)
    BY <2>3, LeaveStep
  <2>4. CASE /\ Rewrite(i, [row[i] EXCEPT !.status = "failed"])
             /\ client' = [Overtaken(i) EXCEPT ![c] = Idle]
    BY <2>1, <2>2, <2>4, OneItem, OneSlot, IdleType DEF Idle
  <2>5. QED
    BY <1>4, <2>3, <2>4 DEF RejectKorean
<1>5. ASSUME AdmitStored(c) \/ Submit(c)
      PROVE  SlotsOK' /\ RowsOK'
  <2>1. Target(c) \in Works /\ client[c].item \in Items /\ client[c].fp \in Fps
        /\ work[Target(c)] \in Work
    BY <1>5, TargetIsWork DEF AdmitStored, Submit
  <2>2. work[Target(c)].result \in Nat /\ client[c].token \in Nat
    BY <2>1 DEF Work, TypeOK, Client
  <2>3. QED
    BY <1>5, <2>1, <2>2, PublishStep, LeaveStep DEF AdmitStored, Submit
<1>6. ASSUME AdmitClaim(c) \/ SubmitRefused(c)
      PROVE  SlotsOK' /\ RowsOK'
  <2> DEFINE n == work[Target(c)].claims + 1
             h == [client[c] EXCEPT !.phase = "holding", !.token = n]
             r == [client[c] EXCEPT !.phase = "refused"]
  <2>1. /\ Target(c) \in Works /\ client[c].item \in Items /\ client[c].fp \in Fps
        /\ work[Target(c)] \in Work
    BY <1>6, TargetIsWork DEF AdmitClaim, SubmitRefused
  <2>2. client[c] \in Client /\ n \in Nat
    BY <2>1 DEF TypeOK, Work
  <2>3. /\ h \in Client /\ h.phase = "holding" /\ h.item = client[c].item /\ h.fp = client[c].fp
        /\ r \in Client /\ r.phase = "refused" /\ r.item = client[c].item /\ r.fp = client[c].fp
    BY <2>2 DEF Client
  <2>4. client' = [client EXCEPT ![c] = h] \/ client' = [client EXCEPT ![c] = r]
    BY <1>6, ClaimedSlot DEF SubmitRefused
  <2>5. SlotsOK'
    <3> HIDE DEF h, r
    <3>1. QED
      BY <2>1, <2>3, <2>4, OneSlot
  <2>6. RowsOK'
    BY <1>6, <2>1 DEF AdmitClaim, Stamped, SubmitRefused, RowsOK, TypeOK
  <2>7. QED
    BY <2>5, <2>6
<1>7. ASSUME AdmitRefused(c) \/ GiveUp(c) \/ FailSuperseded(c) \/ Crash(c)
      PROVE  SlotsOK' /\ RowsOK'
  BY <1>7, LeaveStep DEF AdmitRefused, GiveUp, FailSuperseded, Crash, Fail
<1>8. QED
  BY <1>1, <1>2, <1>3, <1>4, <1>5, <1>6, <1>7 DEF Slot

LEMMA CountersStep ==
  ASSUME TypeOK, Placed, [Next]_vars
  PROVE  /\ source' \in [Items -> Fps \cup {None}]
         /\ link' \in [Items -> Fps \cup {"pending", "not_required"}]
         /\ wanted' \subseteq Items
         /\ spent' \in [Works -> Nat]
         /\ edits' \in Nat /\ day' \in Nat
<1>1. ASSUME Environment \/ UNCHANGED vars
      PROVE  /\ source' \in [Items -> Fps \cup {None}]
             /\ link' \in [Items -> Fps \cup {"pending", "not_required"}]
             /\ wanted' \subseteq Items
             /\ spent' \in [Works -> Nat]
             /\ edits' \in Nat /\ day' \in Nat
  <2>1. ASSUME NEW i \in Items, NEW f \in Fps \cup {None}, SourceChanges(i, f)
        PROVE  /\ source' \in [Items -> Fps \cup {None}] /\ edits' \in Nat
               /\ UNCHANGED <<link, wanted, spent, day>>
    BY <2>1 DEF SourceChanges, Edit, TypeOK
  <2>2. ASSUME NEW i \in Items, RequestTranslation(i) \/ SaveManualEdit(i)
        PROVE  edits' \in Nat /\ UNCHANGED <<source, link, wanted, spent, day>>
    BY <2>2 DEF RequestTranslation, SaveManualEdit, Edit, TypeOK
  <2>3. ASSUME NEW i \in Items, ChangeDemand(i)
        PROVE  /\ link' \in [Items -> Fps \cup {"pending", "not_required"}]
               /\ wanted' \subseteq Items
               /\ edits' \in Nat /\ UNCHANGED <<source, spent, day>>
    BY <2>3 DEF ChangeDemand, Edit, TypeOK
  <2>4. ASSUME NEW w \in Works, LeaseExpires(w) \/ BackoffElapses(w)
        PROVE  UNCHANGED <<source, link, wanted, spent, edits, day>>
    BY <2>4 DEF LeaseExpires, BackoffElapses
  <2>5. CASE Midnight
    BY <2>5 DEF Midnight, TypeOK
  <2>6. QED
    BY <1>1, <2>1, <2>2, <2>3, <2>4, <2>5 DEF Environment, vars, TypeOK
<1>2. ASSUME NEW c \in Clients, Slot(c)
      PROVE  /\ source' \in [Items -> Fps \cup {None}]
             /\ link' \in [Items -> Fps \cup {"pending", "not_required"}]
             /\ wanted' \subseteq Items
             /\ spent' \in [Works -> Nat]
             /\ edits' \in Nat /\ day' \in Nat
  <2>1. \/ UNCHANGED <<source, link, wanted, edits, day>>
        \/ \E i \in Items : BindAlbum(c, i)
    <3>1. GiveUp(c) \/ FailSuperseded(c) => UNCHANGED <<source, link, wanted, edits, day>>
      BY DEF GiveUp, FailSuperseded, Fail
    <3>2. \A i \in Items : PickRequested(c, i) => UNCHANGED <<source, link, wanted, edits, day>>
      BY DEF PickRequested
    <3>3. Prepare(c) \/ RejectKorean(c) \/ AdmitStored(c) \/ AdmitClaim(c)
            => UNCHANGED <<source, link, wanted, edits, day>>
      BY DEF Prepare, RejectKorean, AdmitStored, AdmitClaim
    <3>4. AdmitRefused(c) \/ Submit(c) \/ SubmitRefused(c) \/ Crash(c)
            => UNCHANGED <<source, link, wanted, edits, day>>
      BY DEF AdmitRefused, Submit, SubmitRefused, Crash
    <3>5. QED
      BY <1>2, <3>1, <3>2, <3>3, <3>4 DEF Slot
  <2>2. /\ UNCHANGED <<source, wanted, edits, day>>
        /\ link' \in [Items -> Fps \cup {"pending", "not_required"}]
    BY <2>1 DEF TypeOK, BindAlbum
  <2>3. spent' \in [Works -> Nat]
    <3>1. ASSUME NEW w \in Works, spent' = [spent EXCEPT ![w] = @ + 1]
          PROVE  spent' \in [Works -> Nat]
      BY <3>1 DEF TypeOK
    <3>2. ASSUME NEW w \in Works, spent[w] > 0, spent' = [spent EXCEPT ![w] = @ - 1]
          PROVE  spent' \in [Works -> Nat]
      <4>1. spent[w] - 1 \in Nat
        BY <3>2 DEF TypeOK
      <4>2. QED
        BY <3>2, <4>1 DEF TypeOK
    <3>3. CASE UNCHANGED spent
      BY <3>3 DEF TypeOK
    <3>4. CASE AdmitClaim(c)
      BY <3>1, <3>4, TargetIsWork DEF AdmitClaim
    <3>5. ASSUME NEW reason, NEW refund, Fail(c, reason, refund), Claiming(c)
          PROVE  spent' \in [Works -> Nat]
      <4>1. Target(c) \in Works
        BY <3>5, TargetIsWork DEF Claiming
      <4>2. QED
        BY <3>2, <3>3, <3>5, <4>1 DEF Fail
    <3>6. QED
      BY <1>2, <3>3, <3>4, <3>5
      DEF Slot, BindAlbum, PickRequested, Prepare, RejectKorean, AdmitStored,
          AdmitRefused, Submit, SubmitRefused, GiveUp, FailSuperseded, Crash, Claiming
  <2>4. QED
    BY <2>2, <2>3 DEF TypeOK
<1>3. QED
  BY <1>1, <1>2 DEF Next

LEMMA TypeStep ==
  ASSUME TypeOK, Placed, AttemptsBounded, Granted, [Next]_vars
  PROVE  TypeOK' /\ Placed' /\ AttemptsBounded'
<1>1. SlotsOK' /\ RowsOK'
  <2>1. CASE UNCHANGED vars
    BY <2>1 DEF vars, SlotsOK, RowsOK, TypeOK, Placed
  <2>2. QED
    BY <2>1, EnvironmentSlots, SlotSlots DEF Next
<1>2. QED
  BY <1>1, WorkStep, CountersStep DEF TypeOK, SlotsOK, RowsOK

-----------------------------------------------------------------------------
(* What every step but a claim leaves alone. *)

(* A row w rewritten to v: no claim granted, no dead lease revived, no stored
   result touched, no terminal reason replaced. *)
Kept(w, v) ==
  /\ v.claims = w.claims
  /\ v.status = "running" /\ v.leased => w.status = "running" /\ w.leased /\ v.token = w.token
  /\ w.status = "done" => v.status = "done" /\ v.result = w.result /\ v.attempts = w.attempts
  /\ w.reason = "terminal" => v.reason = w.reason

Steady ==
  /\ newer \subseteq newer'
  /\ \A w \in Works : Kept(work[w], work'[w])
  /\ \A c \in Clients :
       /\ client'[c].phase = "holding" => client[c].phase = "holding"
       /\ client'[c].phase \in {"holding", "refused"} =>
            /\ Claiming(c)
            /\ client'[c].item = client[c].item /\ client'[c].fp = client[c].fp
            /\ client'[c].token = client[c].token
       /\ client'[c].phase = "holding" /\ client'[c].touched =>
            client[c].touched \/ WorksOf(client[c].item) \subseteq newer'

(* An overtaken slot is one whose item was rewritten. *)
LEMMA OvertakenHolders ==
  ASSUME TypeOK, NEW i, NEW c \in Clients, Overtaken(i)[c].touched
  PROVE  client[c].touched \/ client[c].item = i
  BY DEF TypeOK, Overtaken, Client

(* A step that takes no slot into a claim or out of it with its token. *)
SlotsQuiet(i) ==
  \/ UNCHANGED <<client, newer>>
  \/ client' = Overtaken(i) /\ newer' = newer \cup WorksOf(i)
  \/ \E c \in Clients, v \in Client :
       /\ v.phase \notin {"holding", "refused"} /\ ~v.touched
       /\ \/ client' = [client EXCEPT ![c] = v] /\ UNCHANGED newer
          \/ client' = [Overtaken(i) EXCEPT ![c] = v] /\ newer' = newer \cup WorksOf(i)

LEMMA SlotsSteady ==
  ASSUME TypeOK, Placed, NEW i, SlotsQuiet(i)
  PROVE  /\ newer \subseteq newer'
         /\ \A c \in Clients :
              /\ client'[c].phase = "holding" => client[c].phase = "holding"
              /\ client'[c].phase \in {"holding", "refused"} =>
                   /\ Claiming(c)
                   /\ client'[c].item = client[c].item /\ client'[c].fp = client[c].fp
                   /\ client'[c].token = client[c].token
              /\ client'[c].phase = "holding" /\ client'[c].touched =>
                   client[c].touched \/ WorksOf(client[c].item) \subseteq newer'
<1>1. newer \subseteq newer'
  BY DEF SlotsQuiet
<1>2. ASSUME NEW c \in Clients
      PROVE  \/ client'[c] = client[c]
             \/ client'[c] = Overtaken(i)[c] /\ newer' = newer \cup WorksOf(i)
             \/ client'[c].phase \notin {"holding", "refused"}
  BY OvertakenType DEF TypeOK, SlotsQuiet
<1>3. ASSUME NEW c \in Clients
      PROVE  /\ client'[c].phase = "holding" => client[c].phase = "holding"
             /\ client'[c].phase \in {"holding", "refused"} =>
                  /\ Claiming(c)
                  /\ client'[c].item = client[c].item /\ client'[c].fp = client[c].fp
                  /\ client'[c].token = client[c].token
             /\ client'[c].phase = "holding" /\ client'[c].touched =>
                  client[c].touched \/ WorksOf(client[c].item) \subseteq newer'
  BY <1>2, OvertakenType, OvertakenHolders DEF Claiming
<1>4. QED
  BY <1>1, <1>3

(* Every write of a work row but the claim keeps it. *)
LEMMA WorkSteady ==
  ASSUME TypeOK, Placed, AttemptsBounded, Next,
         \A c \in Clients : ~AdmitClaim(c)
  PROVE  \A w \in Works : Kept(work[w], work'[w])
<1>0. \A w \in Works : work[w] \in Work /\ Consistent(work[w])
  BY DEF TypeOK, AttemptsBounded
<1>1. ASSUME NEW w \in Works, NEW v \in Work, work' = [work EXCEPT ![w] = v], Kept(work[w], v)
      PROVE  \A u \in Works : Kept(work[u], work'[u])
  BY <1>1 DEF TypeOK, Kept
<1>2. ASSUME UNCHANGED work
      PROVE  \A u \in Works : Kept(work[u], work'[u])
  BY <1>2 DEF Kept
<1>3. ASSUME NEW w \in Works, LeaseExpires(w) \/ BackoffElapses(w)
      PROVE  \A u \in Works : Kept(work[u], work'[u])
  <2>1. /\ Kept(work[w], [work[w] EXCEPT !.leased = FALSE])
        /\ Kept(work[w], [work[w] EXCEPT !.due = TRUE])
    BY <1>0 DEF Work, Kept
  <2>2. QED
    BY <1>0, <1>1, <1>3, <2>1, ClockRow DEF LeaseExpires, BackoffElapses
<1>4. CASE Midnight
  <2>1. \A u \in Works : Kept(work[u], [work[u] EXCEPT !.today = FALSE])
    BY <1>0 DEF Work, Kept
  <2>2. QED
    BY <1>4, <2>1 DEF Midnight
<1>5. ASSUME NEW c \in Clients, NEW i \in Items, BindAlbum(c, i)
      PROVE  \A u \in Works : Kept(work[u], work'[u])
  <2> DEFINE w == <<i, source[i]>>
  <2>1. CASE work' = [work EXCEPT ![w] = Created(work[w])]
    <3>1. w \in Works
      BY <1>5 DEF BindAlbum, TypeOK, Works
    <3>2. Created(work[w]) \in Work /\ Kept(work[w], Created(work[w]))
      BY <1>0, <3>1, CreatedRow DEF Kept
    <3>3. QED
      BY <1>1, <2>1, <3>1, <3>2
  <2>2. QED
    BY <1>2, <1>5, <2>1 DEF BindAlbum
<1>6. ASSUME NEW c \in Clients, AdmitStored(c)
      PROVE  \A u \in Works : Kept(work[u], work'[u])
  <2>1. Target(c) \in Works
    BY <1>6, TargetIsWork DEF AdmitStored
  <2>2. Upserted(c) \in Work /\ Kept(work[Target(c)], Upserted(c))
    BY <1>6, UpsertedRow DEF AdmitStored, Kept
  <2>3. QED
    BY <1>1, <1>6, <2>1, <2>2 DEF AdmitStored
<1>7. ASSUME NEW c \in Clients, Submit(c)
      PROVE  \A u \in Works : Kept(work[u], work'[u])
  <2> DEFINE v == Completed(work[Target(c)], client[c].token)
  <2>1. Target(c) \in Works /\ client[c].token \in Nat
    BY <1>7, TargetIsWork DEF Submit, TypeOK, Client
  <2>2. work[Target(c)].status = "running"
    BY <1>7 DEF Submit, Accepts, Current, Live
  <2>3. v \in Work /\ Kept(work[Target(c)], v)
    BY <1>0, <2>1, <2>2, CompletedRow DEF Kept
  <2>4. QED
    BY <1>1, <1>7, <2>1, <2>3 DEF Submit
<1>8. ASSUME NEW c \in Clients, GiveUp(c) \/ FailSuperseded(c)
      PROVE  \A u \in Works : Kept(work[u], work'[u])
  <2>1. Target(c) \in Works
    BY <1>8, TargetIsWork DEF GiveUp, FailSuperseded
  <2>2. PICK reason \in Reasons, refund \in BOOLEAN : Fail(c, reason, refund)
    BY <1>8 DEF GiveUp, FailSuperseded, Reasons
  <2> DEFINE v == Released(work[Target(c)], reason, refund)
  <2>3. CASE Current(c)
    <3>1. /\ work[Target(c)].attempts > 0 /\ work[Target(c)].status = "running"
          /\ work[Target(c)].reason # "terminal"
      BY <1>0, <2>1, <2>3 DEF Current, Live, Consistent
    <3>2. v \in Work /\ Kept(work[Target(c)], v)
      BY <1>0, <2>1, <3>1, ReleasedRow DEF Kept
    <3>3. QED
      BY <1>1, <2>1, <2>2, <2>3, <3>2 DEF Fail
  <2>4. QED
    BY <1>2, <2>2, <2>3 DEF Fail
<1>9. QED
  BY <1>2, <1>3, <1>4, <1>5, <1>6, <1>7, <1>8
  DEF Next, Environment, Slot, SourceChanges, RequestTranslation, SaveManualEdit,
      ChangeDemand, PickRequested, Prepare, RejectKorean, AdmitRefused,
      SubmitRefused, Crash

LEMMA QuietStep ==
  ASSUME TypeOK, Placed, Next, \A c \in Clients : ~AdmitClaim(c) /\ ~SubmitRefused(c)
  PROVE  \E i : SlotsQuiet(i)
<1>1. ASSUME NEW i \in Items,
             \/ \E f \in Fps \cup {None} : SourceChanges(i, f)
             \/ RequestTranslation(i) \/ SaveManualEdit(i) \/ ChangeDemand(i)
      PROVE  SlotsQuiet(i)
  BY <1>1 DEF SourceChanges, RequestTranslation, SaveManualEdit, ChangeDemand, Rewrite, SlotsQuiet
<1>2. ASSUME \/ \E w \in Works : LeaseExpires(w) \/ BackoffElapses(w)
             \/ Midnight
      PROVE  SlotsQuiet(None)
  BY <1>2 DEF LeaseExpires, BackoffElapses, Midnight, SlotsQuiet
<1>3. ASSUME NEW c \in Clients, NEW i \in Items, BindAlbum(c, i) \/ PickRequested(c, i)
      PROVE  SlotsQuiet(i)
  <2>1. [Idle EXCEPT !.phase = "picked", !.item = i] \in Client
        /\ [Idle EXCEPT !.phase = "picked", !.item = i].phase = "picked"
        /\ ~[Idle EXCEPT !.phase = "picked", !.item = i].touched
    BY DEF Idle, Client
  <2>2. CASE BindAlbum(c, i)
    BY <2>1, <2>2 DEF BindAlbum, SlotsQuiet
  <2>3. CASE PickRequested(c, i)
    <3>1. LET v == [Idle EXCEPT !.phase = "picked", !.item = i, !.manual = TRUE]
          IN  v \in Client /\ v.phase = "picked" /\ ~v.touched
      BY DEF Idle, Client
    <3>2. QED
      BY <2>3, <3>1 DEF PickRequested, SlotsQuiet
  <2>4. QED
    BY <1>3, <2>2, <2>3
<1>4. ASSUME NEW c \in Clients, Prepare(c)
      PROVE  SlotsQuiet(client[c].item)
  <2> DEFINE i == client[c].item
  <2>1. i \in Items /\ client[c].manual \in BOOLEAN
    BY <1>4 DEF Prepare, Placed, TypeOK, Client
  <2>2. CASE client' = [client EXCEPT ![c] = Idle]
    BY <1>4, <2>2, IdleType DEF Prepare, SlotsQuiet, Idle
  <2>3. CASE client' = [client EXCEPT ![c] = Begin(i, client[c].manual)] /\ source[i] # None
    <3>1. Begin(i, client[c].manual) \in Client /\ Begin(i, client[c].manual).phase \notin {"holding", "refused"}
         /\ ~Begin(i, client[c].manual).touched
      BY <2>1, <2>3, BeginType
    <3>2. QED
      BY <1>4, <2>3, <3>1 DEF Prepare, SlotsQuiet
  <2>4. QED
    BY <1>4, <2>2, <2>3 DEF Prepare, Readable
<1>5. ASSUME NEW c \in Clients,
             \/ RejectKorean(c) \/ AdmitStored(c) \/ AdmitRefused(c) \/ Submit(c)
             \/ GiveUp(c) \/ FailSuperseded(c) \/ Crash(c)
      PROVE  SlotsQuiet(client[c].item)
  <2>1. Idle \in Client /\ Idle.phase \notin {"holding", "refused"} /\ ~Idle.touched
    BY IdleType DEF Idle
  <2>2. \/ client' = [client EXCEPT ![c] = Idle] /\ UNCHANGED newer
        \/ /\ client' = [Overtaken(client[c].item) EXCEPT ![c] = Idle]
           /\ newer' = newer \cup WorksOf(client[c].item)
    BY <1>5 DEF RejectKorean, AdmitStored, AdmitRefused, Submit, GiveUp, FailSuperseded, Fail,
                Crash, Leave, Publish, Rewrite
  <2>3. QED
    BY <2>1, <2>2 DEF SlotsQuiet
<1>6. QED
  BY <1>1, <1>2, <1>3, <1>4, <1>5 DEF Next, Environment, Slot

LEMMA SteadyStep ==
  ASSUME TypeOK, Placed, AttemptsBounded, Next, \A c \in Clients : ~AdmitClaim(c)
  PROVE  Steady
<1>1. CASE \A c \in Clients : ~SubmitRefused(c)
  BY <1>1, QuietStep, SlotsSteady, WorkSteady DEF SlotsQuiet, Steady
<1>2. ASSUME NEW d \in Clients, SubmitRefused(d)
      PROVE  Steady
  <2>1. newer \subseteq newer'
    BY <1>2 DEF SubmitRefused
  <2>2. \A c \in Clients : c # d => client'[c] = client[c]
    BY <1>2 DEF SubmitRefused
  <2>3. /\ client'[d].phase = "refused" /\ client'[d].item = client[d].item
        /\ client'[d].fp = client[d].fp /\ client'[d].token = client[d].token
        /\ client[d].phase = "holding"
    BY <1>2 DEF SubmitRefused, TypeOK, Client
  <2>4. QED
    BY <2>1, <2>2, <2>3, WorkSteady DEF Steady, Claiming
<1>3. QED
  BY <1>1, <1>2

-----------------------------------------------------------------------------
(* A claim: the one step that makes a work live, with a token never used. *)

LEMMA ClaimStep ==
  ASSUME TypeOK, Placed, NEW c \in Clients, AdmitClaim(c)
  PROVE  LET w == Target(c)
         IN  /\ w \in Works /\ client[c].phase = "admitting"
             /\ \A u \in Works : u # w => work'[u] = work[u]
             /\ work'[w].claims = work[w].claims + 1
             /\ work'[w].token = work[w].claims + 1
             /\ work'[w].reason = work[w].reason /\ work[w].reason # "terminal"
             /\ work[w].status # "done"
             /\ \A d \in Clients : d # c => client'[d] = client[d]
             /\ client'[c].phase = "holding" /\ client'[c].token = work[w].claims + 1
             /\ client'[c].item = client[c].item /\ client'[c].fp = client[c].fp
             /\ client'[c].touched = client[c].touched
<1>1. Target(c) \in Works /\ client[c].phase = "admitting"
  BY TargetIsWork DEF AdmitClaim
<1>2. /\ Upserted(c) \in Work /\ Upserted(c).claims = work[Target(c)].claims
      /\ Upserted(c).reason = work[Target(c)].reason
  BY <1>1, UpsertedRow
<1>3. work' = [work EXCEPT ![Target(c)] = Claimed(Upserted(c))]
  BY DEF AdmitClaim
<1>4. /\ work'[Target(c)].claims = work[Target(c)].claims + 1
      /\ work'[Target(c)].token = work[Target(c)].claims + 1
      /\ work'[Target(c)].reason = work[Target(c)].reason
      /\ \A u \in Works : u # Target(c) => work'[u] = work[u]
  BY <1>1, <1>2, <1>3, ClaimedRow DEF TypeOK
<1>5. work[Target(c)].reason # "terminal" /\ work[Target(c)].status # "done"
  BY <1>2 DEF AdmitClaim, Admissible, Stopped
<1>6. /\ \A d \in Clients : d # c => client'[d] = client[d]
      /\ client'[c].phase = "holding" /\ client'[c].token = work[Target(c)].claims + 1
      /\ client'[c].item = client[c].item /\ client'[c].fp = client[c].fp
      /\ client'[c].touched = client[c].touched
  <2>1. client \in [Clients -> Client] /\ client[c] \in Client
    BY DEF TypeOK
  <2>2. client'[c] = [client[c] EXCEPT !.phase = "holding", !.token = work[Target(c)].claims + 1]
    BY <2>1, ClaimedSlot
  <2>3. \A d \in Clients : d # c => client'[d] = client[d]
    BY <2>1, ClaimedSlot
  <2>4. QED
    BY <2>1, <2>2, <2>3 DEF Client
<1>7. QED
  BY <1>1, <1>4, <1>5, <1>6

(* The targets of the slots that hold a claim are works. *)
LEMMA ClaimingTarget ==
  ASSUME TypeOK, Placed, NEW c \in Clients, Claiming(c)
  PROVE  /\ Target(c) \in Works /\ Target(c) \in WorksOf(client[c].item)
         /\ work[Target(c)] \in Work
  BY TargetIsWork DEF Claiming, Target, WorksOf

LEMMA SteadyTarget ==
  ASSUME TypeOK, Placed, Steady, NEW c \in Clients, Claiming(c)'
  PROVE  /\ Claiming(c) /\ Target(c)' = Target(c) /\ Target(c) \in Works
         /\ client'[c].token = client[c].token
  BY ClaimingTarget DEF Steady, Claiming, Target

LEMMA GrantedStep ==
  ASSUME TypeOK, Placed, AttemptsBounded, Granted, Next
  PROVE  Granted'
<1>1. CASE \A c \in Clients : ~AdmitClaim(c)
  <2>1. Steady
    BY <1>1, SteadyStep
  <2>2. ASSUME NEW c \in Clients, Claiming(c)'
        PROVE  client'[c].token \in 1 .. work'[Target(c)'].claims
    BY <2>1, <2>2, SteadyTarget DEF Granted, Steady, Kept
  <2>3. ASSUME NEW c \in Clients, NEW d \in Clients, Claiming(c)', Claiming(d)',
               Target(c)' = Target(d)', client'[c].token = client'[d].token
        PROVE  c = d
    BY <2>1, <2>3, SteadyTarget DEF Granted
  <2>4. QED
    BY <2>2, <2>3 DEF Granted
<1>2. ASSUME NEW a \in Clients, AdmitClaim(a)
      PROVE  Granted'
  <2> DEFINE w == Target(a)
  <2>1. /\ w \in Works /\ work[w] \in Work
        /\ \A u \in Works : work'[u].claims >= work[u].claims /\ work[u].claims \in Nat
        /\ work'[w].claims = work[w].claims + 1
    BY <1>2, ClaimStep DEF TypeOK, Work
  <2>2. Claiming(a)' /\ Target(a)' = w /\ client'[a].token = work[w].claims + 1
    BY <1>2, ClaimStep DEF Claiming, Target
  <2>3. ASSUME NEW d \in Clients, d # a, Claiming(d)'
        PROVE  /\ Claiming(d) /\ Target(d)' = Target(d) /\ Target(d) \in Works
               /\ client'[d].token = client[d].token
               /\ client[d].token \in 1 .. work[Target(d)].claims
    <3>1. client'[d] = client[d]
      BY <1>2, <2>3, ClaimStep
    <3>2. QED
      BY <2>3, <3>1, ClaimingTarget DEF Claiming, Target, Granted
  <2>4. ASSUME NEW c \in Clients, Claiming(c)'
        PROVE  client'[c].token \in 1 .. work'[Target(c)'].claims
    <3>1. CASE c = a
      BY <2>1, <2>2, <3>1 DEF Work
    <3>2. CASE c # a
      <4>1. Target(c)' = Target(c) /\ client'[c].token \in 1 .. work[Target(c)].claims
        BY <2>3, <2>4, <3>2
      <4>2. /\ work'[Target(c)].claims >= work[Target(c)].claims
            /\ work[Target(c)].claims \in Nat /\ work'[Target(c)].claims \in Nat
        BY <1>2, <2>1, <2>3, <2>4, <3>2, ClaimStep DEF Work
      <4>3. QED
        BY <4>1, <4>2
    <3>3. QED
      BY <3>1, <3>2
  <2>5. ASSUME NEW c \in Clients, NEW d \in Clients, Claiming(c)', Claiming(d)',
               Target(c)' = Target(d)', client'[c].token = client'[d].token
        PROVE  c = d
    <3>1. ASSUME NEW d1 \in Clients, d1 # a, Claiming(d1)', Target(d1)' = w,
                 client'[d1].token = work[w].claims + 1
          PROVE  FALSE
      BY <2>1, <2>3, <3>1 DEF Work
    <3>2. CASE c # a /\ d # a
      BY <2>3, <2>5, <3>2 DEF Granted
    <3>3. QED
      BY <2>2, <2>5, <3>1, <3>2
  <2>6. QED
    BY <2>4, <2>5 DEF Granted
<1>3. QED
  BY <1>1, <1>2

(* A slot overtaken while it holds the current claim: its work is in newer,
   since the rewrite that overtook it added all works of the item, and only
   another claim removes one. *)
LEMMA BetrayedStep ==
  ASSUME TypeOK, Placed, AttemptsBounded, Granted, Betrayed, Next
  PROVE  Betrayed'
<1>1. CASE \A c \in Clients : ~AdmitClaim(c)
  <2>1. Steady
    BY <1>1, SteadyStep
  <2> SUFFICES ASSUME NEW c \in Clients, client'[c].phase = "holding", Current(c)',
                      client'[c].touched
               PROVE  Target(c)' \in newer'
    BY DEF Betrayed
  <2>2. /\ Claiming(c) /\ client[c].phase = "holding"
        /\ Target(c)' = Target(c) /\ Target(c) \in Works
        /\ client'[c].token = client[c].token
    BY <2>1, SteadyTarget DEF Claiming, Steady
  <2>3. Current(c)
    BY <2>1, <2>2 DEF Current, Live, Steady, Kept
  <2>4. CASE client[c].touched
    BY <2>1, <2>2, <2>3, <2>4 DEF Betrayed, Steady
  <2>5. CASE WorksOf(client[c].item) \subseteq newer'
    BY <2>2, <2>5, ClaimingTarget
  <2>6. QED
    BY <2>1, <2>4, <2>5 DEF Steady
<1>2. ASSUME NEW a \in Clients, AdmitClaim(a)
      PROVE  Betrayed'
  <2> DEFINE w == Target(a)
  <2> SUFFICES ASSUME NEW c \in Clients, client'[c].phase = "holding", Current(c)',
                      client'[c].touched
               PROVE  Target(c)' \in newer'
    BY DEF Betrayed
  <2>1. newer' = IF client[a].touched THEN newer \cup {w} ELSE newer \ {w}
    BY <1>2 DEF AdmitClaim, Stamped
  <2>2. CASE c = a
    BY <1>2, <2>1, <2>2, ClaimStep DEF Target
  <2>3. CASE c # a
    <3>1. client'[c] = client[c] /\ Target(c)' = Target(c) /\ client[c].phase = "holding"
      BY <1>2, <2>3, ClaimStep DEF Target
    <3>2. Claiming(c) /\ Target(c) \in Works /\ work[Target(c)] \in Work
      BY <3>1, ClaimingTarget DEF Claiming
    <3>3. client[c].token \in 1 .. work[Target(c)].claims
      BY <3>2 DEF Granted
    <3>4. Target(c) # w
      BY <1>2, <3>1, <3>2, <3>3, ClaimStep DEF Current, Work
    <3>5. Current(c)
      BY <1>2, <3>1, <3>2, <3>4, ClaimStep DEF Current, Live
    <3>6. QED
      BY <2>1, <3>1, <3>4, <3>5 DEF Betrayed
  <2>4. QED
    BY <2>2, <2>3
<1>3. QED
  BY <1>1, <1>2

LEMMA OvertakenPlacedStep ==
  ASSUME TypeOK, Placed, OvertakenPlaced, Next
  PROVE  OvertakenPlaced'
<1>1. CASE \A c \in Clients : ~AdmitClaim(c) /\ ~SubmitRefused(c)
  <2>1. PICK i : SlotsQuiet(i)
    BY <1>1, QuietStep
  <2>2. ASSUME NEW c \in Clients, client'[c].touched
        PROVE  \/ client'[c] = client[c]
               \/ client'[c] = Overtaken(i)[c]
    BY <2>1, <2>2, OvertakenType DEF SlotsQuiet, TypeOK
  <2>3. ASSUME NEW c \in Clients, Overtaken(i)[c].touched
        PROVE  Overtaken(i)[c].phase \in {"korean", "admitting", "holding", "refused"}
    BY <2>3, OvertakenType DEF Overtaken, OvertakenPlaced
  <2>4. QED
    BY <2>2, <2>3 DEF OvertakenPlaced
<1>2. ASSUME NEW a \in Clients, AdmitClaim(a)
      PROVE  OvertakenPlaced'
  BY <1>2, ClaimStep DEF OvertakenPlaced
<1>3. ASSUME NEW a \in Clients, SubmitRefused(a)
      PROVE  OvertakenPlaced'
  BY <1>3 DEF SubmitRefused, OvertakenPlaced, TypeOK, Client
<1>4. QED
  BY <1>1, <1>2, <1>3

-----------------------------------------------------------------------------
(* Every step, the claim included. *)

LEMMA RowsKept ==
  ASSUME TypeOK, Placed, AttemptsBounded, [Next]_vars, NEW w \in Works
  PROVE  /\ work[w].status = "done" =>
              /\ work'[w].status = "done" /\ work'[w].result = work[w].result
              /\ work'[w].attempts = work[w].attempts
         /\ work[w].reason = "terminal" =>
              work'[w].reason = work[w].reason /\ work'[w].claims = work[w].claims
<1>1. CASE UNCHANGED vars
  BY <1>1 DEF vars
<1>2. ASSUME Next, NEW c \in Clients, AdmitClaim(c)
      PROVE  w = Target(c) \/ work'[w] = work[w]
  BY <1>2, ClaimStep
<1>3. ASSUME NEW c \in Clients, AdmitClaim(c)
      PROVE  work[Target(c)].status # "done" /\ work[Target(c)].reason # "terminal"
  BY <1>3, ClaimStep
<1>4. CASE Next /\ \A c \in Clients : ~AdmitClaim(c)
  BY <1>4, WorkSteady DEF Kept
<1>5. QED
  BY <1>1, <1>2, <1>3, <1>4

LEMMA FewRunningStep ==
  ASSUME TypeOK, Placed, AttemptsBounded, FewRunning, Next
  PROVE  FewRunning'
<1>1. IsFiniteSet(Running) /\ Cardinality(Running) \in Nat /\ Cardinality(Running) <= MaxRunning
  BY FS_CardinalityType DEF FewRunning, SlotsRespected
<1>2. CASE \A c \in Clients : ~AdmitClaim(c)
  <2>1. Running' \subseteq Running
    BY <1>2, WorkSteady DEF Running, Live, Kept
  <2>2. IsFiniteSet(Running') /\ Cardinality(Running') <= Cardinality(Running)
    BY <1>1, <2>1, FS_Subset
  <2>3. Cardinality(Running') \in Nat
    BY <2>2, FS_CardinalityType
  <2>4. QED
    BY <1>1, <2>2, <2>3, StoreConstants DEF FewRunning, SlotsRespected
<1>3. ASSUME NEW c \in Clients, AdmitClaim(c)
      PROVE  FewRunning'
  <2> DEFINE w == Target(c)
             R == Running \cup {w}
  <2>1. Running' \subseteq R
    BY <1>3, ClaimStep DEF Running, Live
  <2>2. Cardinality(Running) < MaxRunning
    BY <1>3 DEF AdmitClaim, Admissible, SlotFree
  <2>3. IsFiniteSet(R) /\ Cardinality(R) <= Cardinality(Running) + 1
    BY <1>1, FS_AddElement
  <2>4. IsFiniteSet(Running') /\ Cardinality(Running') <= Cardinality(R)
    BY <2>1, <2>3, FS_Subset
  <2>5. Cardinality(Running') \in Nat /\ Cardinality(R) \in Nat
    BY <2>3, <2>4, FS_CardinalityType
  <2>6. QED
    BY <1>1, <2>2, <2>3, <2>4, <2>5, StoreConstants DEF FewRunning, SlotsRespected
<1>4. QED
  BY <1>2, <1>3

(* Who writes an item's row, and what: the owner, a crawl (an annotation's
   timestamp only), a Korean rejection, or a publication. *)
LEMMA Writes ==
  ASSUME TypeOK, Placed, Next, NEW i \in Items, row'[i] # row[i]
  PROVE  \/ RequestTranslation(i) \/ SaveManualEdit(i)
         \/ \E c \in Clients : /\ RejectKorean(c) /\ row[i].status = "requested"
                              /\ row'[i] = [row[i] EXCEPT !.status = "failed"]
         \/ \E c \in Clients :
              /\ AdmitStored(c) /\ i = client[c].item /\ MayPublish(i, client[c].touched)
              /\ row'[i] = [status |-> "done", origin |-> "poller", fp |-> client[c].fp,
                            by |-> work[Target(c)].result]
         \/ \E c \in Clients :
              /\ Submit(c) /\ i = client[c].item /\ MayPublish(i, Target(c) \in newer)
              /\ row'[i] = [status |-> "done", origin |-> "poller", fp |-> client[c].fp,
                            by |-> client[c].token]
<1>1. ASSUME NEW j \in Items,
             \/ \E f \in Fps \cup {None} : SourceChanges(j, f)
             \/ RequestTranslation(j) \/ SaveManualEdit(j) \/ ChangeDemand(j)
      PROVE  RequestTranslation(i) \/ SaveManualEdit(i)
  BY <1>1 DEF SourceChanges, RequestTranslation, SaveManualEdit, ChangeDemand, Rewrite, TypeOK
<1>2. ASSUME NEW c \in Clients, RejectKorean(c)
      PROVE  /\ row[i].status = "requested"
             /\ row'[i] = [row[i] EXCEPT !.status = "failed"]
  BY <1>2 DEF RejectKorean, Rewrite, Leave, TypeOK
<1>3. ASSUME NEW c \in Clients, AdmitStored(c)
      PROVE  /\ i = client[c].item /\ MayPublish(i, client[c].touched)
             /\ row'[i] = [status |-> "done", origin |-> "poller", fp |-> client[c].fp,
                           by |-> work[Target(c)].result]
  BY <1>3 DEF AdmitStored, Publish, Rewrite, Leave, TypeOK
<1>4. ASSUME NEW c \in Clients, Submit(c)
      PROVE  /\ i = client[c].item /\ MayPublish(i, Target(c) \in newer)
             /\ row'[i] = [status |-> "done", origin |-> "poller", fp |-> client[c].fp,
                           by |-> client[c].token]
  BY <1>4 DEF Submit, Publish, Rewrite, Leave, TypeOK
<1>5. QED
  BY <1>1, <1>2, <1>3, <1>4
  DEF Next, Environment, Slot, LeaseExpires, BackoffElapses, Midnight, BindAlbum,
      PickRequested, Prepare, AdmitClaim, AdmitRefused, SubmitRefused, GiveUp,
      FailSuperseded, Fail, Crash, Leave

LEMMA ShownStep ==
  ASSUME TypeOK, Placed, AttemptsBounded, ShownIsStored, Next
  PROVE  ShownIsStored'
<1> SUFFICES ASSUME NEW i \in Items, row'[i].by # 0
             PROVE  /\ row'[i].fp \in Fps
                    /\ work'[<<i, row'[i].fp>>].status = "done"
                    /\ work'[<<i, row'[i].fp>>].result = row'[i].by
  BY DEF ShownIsStored
<1>1. CASE row'[i].by = row[i].by /\ row'[i].fp = row[i].fp
  <2>1. <<i, row[i].fp>> \in Works
    BY <1>1 DEF ShownIsStored, Works
  <2>2. QED
    BY <1>1, <2>1, RowsKept DEF ShownIsStored
<1>2. ASSUME NEW c \in Clients, AdmitStored(c), i = client[c].item,
             row'[i] = [status |-> "done", origin |-> "poller", fp |-> client[c].fp,
                        by |-> work[Target(c)].result]
      PROVE  /\ row'[i].fp \in Fps
             /\ work'[<<i, row'[i].fp>>].status = "done"
             /\ work'[<<i, row'[i].fp>>].result = row'[i].by
  <2>1. Target(c) \in Works /\ client[c].fp \in Fps /\ Target(c) = <<i, client[c].fp>>
    BY <1>2, TargetIsWork DEF AdmitStored, Target
  <2>2. QED
    BY <1>2, <2>1, RowsKept DEF AdmitStored
<1>3. ASSUME NEW c \in Clients, Submit(c), i = client[c].item,
             row'[i] = [status |-> "done", origin |-> "poller", fp |-> client[c].fp,
                        by |-> client[c].token]
      PROVE  /\ row'[i].fp \in Fps
             /\ work'[<<i, row'[i].fp>>].status = "done"
             /\ work'[<<i, row'[i].fp>>].result = row'[i].by
  <2>1. /\ Target(c) \in Works /\ client[c].fp \in Fps /\ Target(c) = <<i, client[c].fp>>
        /\ work[Target(c)] \in Work /\ client[c].token \in Nat
    BY <1>3, TargetIsWork DEF Submit, Target, TypeOK, Client
  <2>2. work'[Target(c)] = Completed(work[Target(c)], client[c].token)
    BY <1>3, <2>1 DEF Submit, TypeOK
  <2>3. QED
    BY <1>3, <2>1, <2>2, CompletedRow
<1>4. CASE row'[i] # row[i]
  <2>1. row[i] \in Row /\ [row[i] EXCEPT !.status = "failed"].by = row[i].by
        /\ [row[i] EXCEPT !.status = "failed"].fp = row[i].fp
        /\ [row[i] EXCEPT !.status = "requested"].by = row[i].by
        /\ [row[i] EXCEPT !.status = "requested"].fp = row[i].fp
    BY DEF TypeOK, Row
  <2>2. CASE RequestTranslation(i)
    BY <1>1, <2>1, <2>2 DEF RequestTranslation, Rewrite, TypeOK
  <2>3. CASE SaveManualEdit(i)
    BY <2>3 DEF SaveManualEdit, Rewrite, TypeOK
  <2>4. QED
    BY <1>1, <1>2, <1>3, <1>4, <2>1, <2>2, <2>3, Writes
<1>5. QED
  BY <1>1, <1>4

-----------------------------------------------------------------------------
(* The daily budget.  A charge is one attempt of one work: sums are compared by
   comparing sets of charges, and no order of summation is needed. *)

(* A step moves one work's account: what was spent there stays in the row that
   admission sums, and more is spent only while the sum is below the cap. *)
Accounts(u) ==
  /\ \A w \in Works : w # u => work'[w] = work[w] /\ spent'[w] = spent[w]
  /\ u \in Works =>
       /\ spent'[u] <= work'[u].attempts
       /\ spent'[u] > 0 => work'[u].today
       /\ spent'[u] <= spent[u] \/ (BudgetLeft /\ spent'[u] = spent[u] + 1)

LEMMA RowAccounts ==
  ASSUME TypeOK, Counted, NEW u \in Works, NEW v \in Work, UNCHANGED spent,
         work' = [work EXCEPT ![u] = v], v.attempts = work[u].attempts,
         work[u].today => v.today
  PROVE  Accounts(u)
BY DEF TypeOK, Counted, Accounts

LEMMA FailAccounts ==
  ASSUME TypeOK, Placed, AttemptsBounded, Counted, NEW c \in Clients, Claiming(c),
         NEW reason \in Reasons, NEW refund \in BOOLEAN, Fail(c, reason, refund)
  PROVE  \E u : Accounts(u)
<1> DEFINE u == Target(c)
           v == Released(work[u], reason, refund)
<1>1. u \in Works /\ work[u] \in Work /\ spent[u] \in Nat
  BY TargetIsWork DEF Claiming, TypeOK
<1>2. spent[u] <= work[u].attempts /\ (spent[u] > 0 => work[u].today)
  BY <1>1 DEF Counted
<1>3. CASE ~Current(c)
  <2>1. UNCHANGED <<work, spent>>
    BY <1>3 DEF Fail
  <2> QED
    BY <1>1, <1>2, <2>1 DEF Accounts
<1>4. CASE Current(c)
  <2>1. work[u].attempts > 0
    BY <1>1, <1>4 DEF Current, Live, AttemptsBounded, Consistent
  <2>2. work' = [work EXCEPT ![u] = v]
    BY <1>4 DEF Fail
  <2>3. spent' = IF refund /\ spent[u] > 0 THEN [spent EXCEPT ![u] = @ - 1] ELSE spent
    BY <1>4 DEF Fail
  <2>4. /\ v \in Work /\ v.today
        /\ v.attempts = IF refund THEN work[u].attempts - 1 ELSE work[u].attempts
    <3>1. v \in Work /\ v.attempts = IF refund THEN work[u].attempts - 1 ELSE work[u].attempts
      BY <1>1, <2>1, ReleasedRow
    <3>2. v.today
      BY <1>1, Zenon DEF Released, Work
    <3> QED
      BY <3>1, <3>2
  <2> HIDE DEF u, v
  <2>5. work'[u] = v /\ \A w \in Works : w # u => work'[w] = work[w] /\ spent'[w] = spent[w]
    BY <1>1, <2>2, <2>3 DEF TypeOK
  <2>6. spent'[u] = IF refund /\ spent[u] > 0 THEN spent[u] - 1 ELSE spent[u]
    BY <1>1, <2>3 DEF TypeOK
  <2>7. work[u].attempts \in Nat
    BY <1>1 DEF Work
  <2>8. spent'[u] <= v.attempts /\ spent'[u] <= spent[u]
    BY <1>1, <1>2, <2>1, <2>4, <2>6, <2>7
  <2> QED
    BY <2>4, <2>5, <2>8 DEF Accounts
<1> QED
  BY <1>3, <1>4

LEMMA StepAccounts ==
  ASSUME TypeOK, Placed, AttemptsBounded, Counted, Next, ~Midnight
  PROVE  \E u : Accounts(u)
<1>1. ASSUME NEW u \in Works, LeaseExpires(u) \/ BackoffElapses(u)
      PROVE  \E w : Accounts(w)
  <2>1. work[u] \in Work /\ UNCHANGED spent
    BY <1>1 DEF TypeOK, LeaseExpires, BackoffElapses
  <2>2. PICK v \in {[work[u] EXCEPT !.leased = FALSE], [work[u] EXCEPT !.due = TRUE]} :
          work' = [work EXCEPT ![u] = v]
    BY <1>1 DEF LeaseExpires, BackoffElapses
  <2>3. v \in Work
    BY <2>1, ClockRow
  <2>4. v.attempts = work[u].attempts /\ (work[u].today => v.today)
    BY <2>1 DEF Work
  <2> QED
    BY <2>1, <2>2, <2>3, <2>4, RowAccounts
<1>2. ASSUME NEW c \in Clients, NEW i \in Items, BindAlbum(c, i)
      PROVE  \E u : Accounts(u)
  <2> DEFINE u == <<i, source[i]>>
             v == Created(work[u])
  <2>1. u \in Works /\ UNCHANGED spent
    BY <1>2 DEF BindAlbum, TypeOK, Works
  <2>2. work[u] \in Work
    BY <2>1 DEF TypeOK
  <2>3. CASE work' = [work EXCEPT ![u] = v]
    <3>1. v \in Work /\ v.attempts = work[u].attempts
      BY <2>2, CreatedRow
    <3>2. work[u].today => v.today
      BY <2>2 DEF Created, Work
    <3> QED
      BY <2>1, <2>3, <3>1, <3>2, RowAccounts
  <2>4. CASE UNCHANGED work
    BY <2>1, <2>4 DEF Counted, Accounts, TypeOK
  <2> QED
    BY <1>2, <2>3, <2>4 DEF BindAlbum
<1>3. ASSUME NEW c \in Clients, AdmitStored(c)
      PROVE  \E u : Accounts(u)
  <2> DEFINE u == Target(c)
             v == Upserted(c)
  <2>1. u \in Works /\ work[u] \in Work /\ client[c].phase = "admitting" /\ UNCHANGED spent
    BY <1>3, TargetIsWork DEF AdmitStored
  <2>2. v \in Work /\ v.attempts = work[u].attempts
    BY <2>1, UpsertedRow
  <2>3. work[u].today => v.today
    BY <2>1, CreatedRow DEF Upserted, Created, Work
  <2>4. work' = [work EXCEPT ![u] = v]
    BY <1>3 DEF AdmitStored
  <2> HIDE DEF u, v
  <2> QED
    BY <2>1, <2>2, <2>3, <2>4, RowAccounts
<1>4. ASSUME NEW c \in Clients, AdmitClaim(c)
      PROVE  \E u : Accounts(u)
  <2> DEFINE u == Target(c)
             v == Claimed(Upserted(c))
  <2>1. /\ u \in Works /\ work[u] \in Work /\ client[c].phase = "admitting" /\ BudgetLeft
        /\ spent[u] \in Nat /\ work[u].attempts \in Nat
    BY <1>4, TargetIsWork DEF AdmitClaim, Admissible, TypeOK, Work
  <2>2. Upserted(c) \in Work /\ Upserted(c).attempts = work[u].attempts
    BY <2>1, UpsertedRow
  <2>3. v \in Work /\ v.attempts = work[u].attempts + 1
    BY <2>2, ClaimedRow
  <2>4. v.today
    BY <2>2 DEF Claimed, Work
  <2>5. work' = [work EXCEPT ![u] = v] /\ spent' = [spent EXCEPT ![u] = @ + 1]
    BY <1>4 DEF AdmitClaim
  <2> HIDE DEF u, v
  <2>6. spent[u] <= work[u].attempts
    BY <2>1 DEF Counted
  <2>7. /\ work'[u] = v /\ spent'[u] = spent[u] + 1
        /\ \A w \in Works : w # u => work'[w] = work[w] /\ spent'[w] = spent[w]
    BY <2>1, <2>5 DEF TypeOK
  <2> QED
    BY <2>1, <2>3, <2>4, <2>6, <2>7 DEF Accounts
<1>5. ASSUME NEW c \in Clients, Submit(c)
      PROVE  \E u : Accounts(u)
  <2> DEFINE u == Target(c)
             v == Completed(work[u], client[c].token)
  <2>1. u \in Works /\ work[u] \in Work /\ client[c].token \in Nat /\ UNCHANGED spent
    BY <1>5, TargetIsWork DEF Submit, TypeOK, Client
  <2>2. v \in Work /\ v.attempts = work[u].attempts
    BY <2>1, CompletedRow
  <2>3. v.today
    BY <2>1 DEF Completed, Work
  <2>4. work' = [work EXCEPT ![u] = v]
    BY <1>5 DEF Submit
  <2> HIDE DEF u, v
  <2> QED
    BY <2>1, <2>2, <2>3, <2>4, RowAccounts
<1>6. ASSUME NEW c \in Clients, GiveUp(c) \/ FailSuperseded(c)
      PROVE  \E u : Accounts(u)
  BY <1>6, FailAccounts DEF GiveUp, FailSuperseded, Claiming, Reasons
<1>7. ASSUME UNCHANGED <<work, spent>>
      PROVE  \E u : Accounts(u)
  BY <1>7 DEF Counted, Accounts, TypeOK
<1> QED
  BY <1>1, <1>2, <1>3, <1>4, <1>5, <1>6, <1>7
  DEF Next, Environment, Slot, SourceChanges, RequestTranslation, SaveManualEdit,
      ChangeDemand, PickRequested, Prepare, RejectKorean, AdmitRefused,
      SubmitRefused, Crash

(* What is charged to the works was spent today, and admission sums all of it. *)
LEMMA SpentIsSummed ==
  ASSUME TypeOK, Counted
  PROVE  Charges(spent, Works) \subseteq Today
<1> SUFFICES ASSUME NEW w \in Works, NEW k \in 1..spent[w]
             PROVE  <<w, k>> \in Today
  BY DEF Charges
<1>1. spent[w] \in Nat /\ work[w].attempts \in Nat
  BY DEF TypeOK, Work
<1>2. work[w].today /\ k \in 1..work[w].attempts
  BY <1>1 DEF Counted
<1> QED
  BY <1>2 DEF Today, Charges

LEMMA BudgetStep ==
  ASSUME TypeOK, Placed, AttemptsBounded, Counted, WithinBudget, Next,
         work' \in [Works -> Work], spent' \in [Works -> Nat]
  PROVE  Counted' /\ WithinBudget'
<1> DEFINE P == Charges(spent, Works)
<1>0. /\ IsFiniteSet(Today) /\ Cardinality(Today) \in Nat
      /\ IsFiniteSet(P) /\ Cardinality(P) \in Nat /\ Cardinality(P) <= Cardinality(Today)
      /\ Cardinality(P) <= DailyCap /\ DailyCap \in Nat
  BY SpentIsSummed, FS_Subset, FS_CardinalityType, StoreConstants
  DEF WithinBudget, BudgetRespected
<1>1. CASE Midnight
  <2>1. \A w \in Works : spent'[w] = 0 /\ ~work'[w].today
    BY <1>1 DEF Midnight, TypeOK, Work
  <2>2. Counted'
    BY <2>1 DEF Counted, Work
  <2>3. Today' = {} /\ Charges(spent, Works)' = {}
    BY <2>1 DEF Today, Charges
  <2> QED
    BY <1>0, <2>2, <2>3, FS_EmptySet DEF WithinBudget, BudgetRespected
<1>2. CASE ~Midnight
  <2>1. PICK u : Accounts(u)
    BY <1>2, StepAccounts
  <2>2. Counted'
    BY <2>1 DEF Accounts, Counted
  <2>3. IsFiniteSet(Today')
    <3>1. CASE u \in Works
      <4> DEFINE R == {u} \X (1..work'[u].attempts)
      <4>1. work'[u].attempts \in Nat
        BY <3>1 DEF Work
      <4>2. IsFiniteSet(R)
        <5>1. IsFiniteSet({u}) /\ IsFiniteSet(1..work'[u].attempts)
          <6>1. 1 \in Int /\ work'[u].attempts \in Int
            BY <4>1
          <6> QED
            BY <6>1, FS_Singleton, FS_Interval, Zenon
        <5> QED
          BY <5>1, FS_Product
      <4>3. Today' \subseteq Today \cup R
        BY <2>1 DEF Accounts, Today, Charges
      <4> QED
        BY <1>0, <4>2, <4>3, FS_Union, FS_Subset
    <3>2. CASE u \notin Works
      <4>1. Today' = Today
        BY <2>1, <3>2 DEF Accounts, Today, Charges
      <4> QED
        BY <1>0, <4>1
    <3> QED
      BY <3>1, <3>2
  <2>4. CASE \A w \in Works : spent'[w] <= spent[w]
    <3>1. Charges(spent, Works)' \subseteq P
      <4> SUFFICES ASSUME NEW w \in Works, NEW k \in 1..spent'[w]
                   PROVE  <<w, k>> \in P
        BY DEF Charges
      <4>1. k \in 1..spent[w]
        BY <2>4 DEF TypeOK
      <4> QED
        BY <4>1 DEF Charges
    <3>2. /\ Cardinality(Charges(spent, Works)') \in Nat
          /\ Cardinality(Charges(spent, Works)') <= Cardinality(P)
      BY <1>0, <3>1, FS_Subset, FS_CardinalityType
    <3>3. BudgetRespected'
      BY <1>0, <3>2 DEF BudgetRespected
    <3> QED
      BY <2>2, <2>3, <3>3 DEF WithinBudget
  <2>5. CASE u \in Works /\ BudgetLeft /\ spent'[u] = spent[u] + 1
    <3>1. Charges(spent, Works)' \subseteq P \cup {<<u, spent[u] + 1>>}
      <4> SUFFICES ASSUME NEW w \in Works, NEW k \in 1..spent'[w], <<w, k>> # <<u, spent[u] + 1>>
                   PROVE  <<w, k>> \in P
        BY DEF Charges
      <4>1. k \in 1..spent[w]
        BY <2>1, <2>5 DEF Accounts, TypeOK
      <4> QED
        BY <4>1 DEF Charges
    <3>2. /\ IsFiniteSet(P \cup {<<u, spent[u] + 1>>})
          /\ Cardinality(P \cup {<<u, spent[u] + 1>>}) \in Nat
          /\ Cardinality(P \cup {<<u, spent[u] + 1>>}) <= Cardinality(P) + 1
      <4> DEFINE x == <<u, spent[u] + 1>>
      <4>1. IsFiniteSet(P) /\ Cardinality(P) \in Nat
        BY <1>0
      <4> HIDE DEF P, x
      <4>2. /\ IsFiniteSet(P \cup {x})
            /\ Cardinality(P \cup {x}) = IF x \in P THEN Cardinality(P) ELSE Cardinality(P) + 1
        BY <4>1, FS_AddElement
      <4>3. /\ IsFiniteSet(P \cup {x}) /\ Cardinality(P \cup {x}) \in Nat
            /\ Cardinality(P \cup {x}) <= Cardinality(P) + 1
        BY <4>1, <4>2
      <4> QED
        BY <4>3 DEF x
    <3>3. /\ Cardinality(Charges(spent, Works)') \in Nat
          /\ Cardinality(Charges(spent, Works)') <= Cardinality(P) + 1
      BY <1>0, <3>1, <3>2, FS_Subset, FS_CardinalityType
    <3>4. Cardinality(P) + 1 <= DailyCap
      BY <1>0, <2>5 DEF BudgetLeft, Used
    <3>5. BudgetRespected'
      BY <1>0, <3>3, <3>4 DEF BudgetRespected
    <3> QED
      BY <2>2, <2>3, <3>5 DEF WithinBudget
  <2> QED
    BY <2>1, <2>4, <2>5 DEF Accounts, TypeOK
<1> QED
  BY <1>1, <1>2

-----------------------------------------------------------------------------
(* The inductive invariant. *)

LEMMA InitHolds == Init => IInv
<1> SUFFICES ASSUME Init PROVE IInv
  OBVIOUS
<1>1. TypeOK /\ Placed
  BY InitTyped
<1>2. \A c \in Clients : ~Claiming(c) /\ ~client[c].touched
  BY DEF Init, Idle, Claiming
<1>3. OvertakenPlaced /\ Granted /\ Betrayed
  BY <1>2 DEF OvertakenPlaced, Granted, Betrayed
<1>4. AttemptsBounded
  BY StoreConstants DEF Init, AttemptsBounded, Consistent, NoWork
<1>5. ShownIsStored
  BY DEF Init, ShownIsStored, NoRow
<1>6. Running = {}
  BY DEF Init, Running, Live, NoWork
<1>7. FewRunning
  BY <1>6, FS_EmptySet, StoreConstants DEF FewRunning, SlotsRespected
<1>8. \A w \in Works : spent[w] = 0 /\ work[w].attempts = 0 /\ ~work[w].today
  BY DEF Init, NoWork
<1>9. Today = {} /\ Charges(spent, Works) = {}
  BY <1>8 DEF Today, Charges
<1>10. Counted /\ WithinBudget
  BY <1>8, <1>9, FS_EmptySet, StoreConstants DEF Counted, WithinBudget, BudgetRespected
<1>11. QED
  BY <1>1, <1>3, <1>4, <1>5, <1>7, <1>10 DEF IInv

LEMMA NextKeeps == IInv /\ [Next]_vars => IInv'
<1> SUFFICES ASSUME IInv, [Next]_vars PROVE IInv'
  OBVIOUS
<1>1. CASE Next
  <2>1. TypeOK' /\ Placed' /\ AttemptsBounded'
    BY TypeStep DEF IInv
  <2>2. OvertakenPlaced' /\ Granted' /\ Betrayed'
    BY <1>1, OvertakenPlacedStep, GrantedStep, BetrayedStep DEF IInv
  <2>3. ShownIsStored' /\ FewRunning'
    BY <1>1, ShownStep, FewRunningStep DEF IInv
  <2>4. Counted' /\ WithinBudget'
    BY <1>1, <2>1, BudgetStep DEF IInv, TypeOK
  <2>5. QED
    BY <2>1, <2>2, <2>3, <2>4 DEF IInv
<1>2. CASE UNCHANGED vars
  <2>1. TypeOK' /\ Placed' /\ AttemptsBounded'
    BY TypeStep DEF IInv
  <2>2. OvertakenPlaced' /\ Granted' /\ Betrayed'
    BY <1>2 DEF IInv, vars, OvertakenPlaced, Granted, Betrayed, Claiming, Target, Current, Live
  <2>3. ShownIsStored' /\ FewRunning'
    BY <1>2 DEF IInv, vars, ShownIsStored, FewRunning, SlotsRespected, Running, Live
  <2>4. Counted' /\ WithinBudget'
    <3>1. work' = work /\ spent' = spent
      BY <1>2 DEF vars
    <3>2. Today' = Today
      BY <3>1 DEF Today, Charges
    <3>3. QED
      BY <3>1, <3>2 DEF IInv, Counted, WithinBudget, BudgetRespected, Charges
  <2>5. QED
    BY <2>1, <2>2, <2>3, <2>4 DEF IInv
<1>3. QED
  BY <1>1, <1>2

(* IInv holds in every reachable state, for any number of items, versions and
   slots and any values of the caps: each theorem below follows from it. *)
THEOREM Inductive == Spec => []IInv
<1>1. Init => IInv
  BY InitHolds
<1>2. IInv /\ [Next]_vars => IInv'
  BY NextKeeps
<1>3. QED
  BY <1>1, <1>2, PTL DEF Spec

-----------------------------------------------------------------------------
(* State invariants. *)

(* Every variable keeps its type through prepare, submit, fail and the owner's
   and crawlers' writes; in particular no refund makes attempts negative. *)
THEOREM TypeCorrect == Spec => []TypeOK
<1>1. IInv => TypeOK
  BY DEF IInv
<1>2. QED
  BY <1>1, Inductive, PTL

(* No source is charged more than its attempt cap, every running row has its
   claim token and is not terminally stopped, and a row holds a result exactly
   when it is done. *)
THEOREM AttemptsCapped == Spec => []AttemptsBounded
<1>1. IInv => AttemptsBounded
  BY DEF IInv
<1>2. QED
  BY <1>1, Inductive, PTL

(* At most one slot holds the current claim of a work, however many leases
   expired and were reclaimed: tokens are never reused. *)
THEOREM OneHolder == Spec => []ClaimExclusive
<1>1. IInv => ClaimExclusive
  <2> SUFFICES ASSUME IInv, NEW c \in Clients, NEW d \in Clients,
                      client[c].phase = "holding", client[d].phase = "holding",
                      Target(c) = Target(d), Current(c), Current(d)
               PROVE  c = d
    BY DEF ClaimExclusive
  <2>1. Claiming(c) /\ Claiming(d) /\ client[c].token = client[d].token
    BY DEF Claiming, Current
  <2>2. QED
    BY <2>1 DEF IInv, Granted
<1>2. QED
  BY <1>1, Inductive, PTL

(* What a reader is shown as the poller's translation of a version is the
   result stored for that version. *)
THEOREM OnlyStoredShown == Spec => []ShownIsStored
<1>1. IInv => ShownIsStored
  BY DEF IInv
<1>2. QED
  BY <1>1, Inductive, PTL

(* Admission never holds more than max_running live leases. *)
THEOREM SlotCap == Spec => []SlotsRespected
<1>1. IInv => SlotsRespected
  BY DEF IInv, FewRunning
<1>2. QED
  BY <1>1, Inductive, PTL

(* What is claimed in a day and not refunded never exceeds the daily budget, although
   admission sums rows by their last update: every attempt of today is in a row of
   today, whatever failed, was refunded or was taken over since. *)
THEOREM BudgetKept == Spec => []BudgetRespected
<1>1. IInv => BudgetRespected
  BY DEF IInv, WithinBudget
<1>2. QED
  BY <1>1, Inductive, PTL

-----------------------------------------------------------------------------
(* What no step may do. *)

(* A stored result is immutable: no step replaces, reopens or charges it. *)
THEOREM DoneForGood == Spec => DoneImmutable
<1>1. IInv /\ [Next]_vars =>
        \A w \in Works :
          work[w].status = "done" =>
            /\ work'[w].status = "done" /\ work'[w].result = work[w].result
            /\ work'[w].attempts = work[w].attempts
  BY RowsKept DEF IInv
<1>2. QED
  BY <1>1, Inductive, PTL DEF Spec, DoneImmutable

(* A source the provider refused or the owner cancelled is never claimed again. *)
THEOREM StoppedForGood == Spec => StoppedStays
<1>1. IInv /\ [Next]_vars =>
        \A w \in Works :
          work[w].reason = "terminal" =>
            work'[w].reason = work[w].reason /\ work'[w].claims = work[w].claims
  BY RowsKept DEF IInv
<1>2. QED
  BY <1>1, Inductive, PTL DEF Spec, StoppedStays

(* What an overtaken slot's last step does to the rows. *)
PublishesNothing(c) ==
  \/ row' = row
  \/ /\ client[c].phase = "korean" /\ row[client[c].item].status = "requested"
     /\ row' = [row EXCEPT ![client[c].item].status = "failed"]

(* The claim's and prepare's timestamps are enough for _publish: a slot whose
   item was rewritten after its prepare began publishes nothing over it.  Only
   the rejection of a Korean source, which compares no time, may fail the
   request that stands there. *)
THEOREM NoLatePublication == Spec => OvertakenNeverPublishes
<1>1. ASSUME IInv, [Next]_vars, NEW c \in Clients, client[c].touched,
             client'[c].phase = "idle"
      PROVE  PublishesNothing(c)
  <2>1. TypeOK /\ Placed /\ client[c].phase \in {"korean", "admitting", "holding", "refused"}
    BY <1>1 DEF IInv, OvertakenPlaced
  <2>2. CASE UNCHANGED vars
    BY <2>2 DEF vars, PublishesNothing
  <2>3. CASE Environment
    <3>1. \/ UNCHANGED client
          \/ \E i : client' = Overtaken(i)
      BY <2>3 DEF Environment, SourceChanges, RequestTranslation, SaveManualEdit,
                  ChangeDemand, LeaseExpires, BackoffElapses, Midnight
    <3>2. QED
      BY <1>1, <2>1, <3>1, OvertakenType
  <2>4. ASSUME NEW d \in Clients, d # c, Slot(d)
        PROVE  PublishesNothing(c)
    <3>1. CASE UNCHANGED row
      BY <3>1 DEF PublishesNothing
    <3>2. CASE RejectKorean(d) \/ AdmitStored(d) \/ Submit(d)
      <4>1. \/ client' = [client EXCEPT ![d] = Idle]
            \/ client' = [Overtaken(client[d].item) EXCEPT ![d] = Idle]
        BY <3>2 DEF RejectKorean, AdmitStored, Submit, Publish, Leave
      <4>2. client'[c].phase = client[c].phase
        BY <2>1, <2>4, <4>1, OvertakenType DEF TypeOK
      <4>3. QED
        BY <1>1, <2>1, <4>2
    <3>3. QED
      BY <2>4, <3>1, <3>2
      DEF Slot, BindAlbum, PickRequested, Prepare, AdmitClaim, AdmitRefused,
          SubmitRefused, GiveUp, FailSuperseded, Fail, Crash, Leave
  <2>5. CASE Slot(c)
    <3>0. CASE RejectKorean(c)
      BY <3>0 DEF RejectKorean, Rewrite, Leave, PublishesNothing
    <3>1. CASE AdmitStored(c)
      BY <1>1, <3>1 DEF AdmitStored, MayPublish, Leave, PublishesNothing
    <3>2. CASE Submit(c)
      <4>1. Target(c) \in newer
        BY <1>1, <3>2 DEF IInv, Betrayed, Submit, Accepts
      <4>2. QED
        BY <3>2, <4>1 DEF Submit, MayPublish, Leave, PublishesNothing
    <3>3. QED
      BY <2>1, <2>5, <3>0, <3>1, <3>2
      DEF Slot, BindAlbum, PickRequested, Prepare, AdmitClaim, AdmitRefused,
          SubmitRefused, GiveUp, FailSuperseded, Fail, Crash, Leave, PublishesNothing
  <2>6. QED
    BY <1>1, <2>2, <2>3, <2>4, <2>5 DEF Next, PublishesNothing
<1>2. IInv /\ [Next]_vars =>
        \A c \in Clients : client[c].touched /\ client'[c].phase = "idle" => PublishesNothing(c)
  BY <1>1
<1>3. QED
  BY <1>2, Inductive, PTL DEF Spec, OvertakenNeverPublishes, PublishesNothing

(* Only the owner replaces her own finished translation: neither a publication
   nor a Korean rejection writes over it. *)
THEOREM OwnerKeepsHers == Spec => ManualKept
<1>1. ASSUME IInv, [Next]_vars, NEW i \in Items, ManuallyDone(i), row'[i] # row[i]
      PROVE  row'[i].status = "requested" \/ row'[i].origin = "manual"
  <2>1. TypeOK /\ Placed /\ Next /\ row[i] \in Row
    BY <1>1 DEF IInv, vars, TypeOK
  <2>2. /\ i \notin Genius /\ row[i].status = "done" /\ row[i].origin = "manual"
        /\ ~MayPublish(i, TRUE) /\ ~MayPublish(i, FALSE)
    BY <1>1 DEF ManuallyDone, MayPublish
  <2>3. RequestTranslation(i) \/ SaveManualEdit(i)
    BY <1>1, <2>1, <2>2, Writes DEF MayPublish
  <2>4. QED
    BY <2>1, <2>3 DEF RequestTranslation, SaveManualEdit, Rewrite, TypeOK, Row
<1>2. IInv /\ [Next]_vars =>
        \A i \in Items :
          ManuallyDone(i) /\ row'[i] # row[i] =>
            row'[i].status = "requested" \/ row'[i].origin = "manual"
  BY <1>1
<1>3. QED
  BY <1>2, Inductive, PTL DEF Spec, ManualKept

(* A publication is of the version that is current when it commits. *)
THEOREM PublicationsCurrent == Spec => PublishesCurrent
<1>1. ASSUME IInv, [Next]_vars, NEW i \in Items, row'[i].by # 0, row'[i] # row[i],
             row'[i].status = "done"
      PROVE  row'[i].fp = source[i]
  <2>1. TypeOK /\ Placed /\ Next /\ row[i] \in Row
    BY <1>1 DEF IInv, vars, TypeOK
  <2>2. CASE RequestTranslation(i)
    BY <1>1, <2>1, <2>2 DEF RequestTranslation, Rewrite, TypeOK, Row
  <2>3. CASE SaveManualEdit(i)
    BY <2>1, <2>3 DEF SaveManualEdit, Rewrite, TypeOK
  <2>4. CASE row'[i] = [row[i] EXCEPT !.status = "failed"]
    BY <1>1, <2>1, <2>4 DEF Row
  <2>5. ASSUME NEW c \in Clients, NEW by, AdmitStored(c) \/ Submit(c), i = client[c].item,
               row'[i] = [status |-> "done", origin |-> "poller", fp |-> client[c].fp, by |-> by]
        PROVE  row'[i].fp = source[i]
    BY <2>5 DEF AdmitStored, Submit, Accepts
  <2>6. CASE \E c \in Clients :
               /\ AdmitStored(c) /\ i = client[c].item
               /\ row'[i] = [status |-> "done", origin |-> "poller", fp |-> client[c].fp,
                             by |-> work[Target(c)].result]
    BY <2>5, <2>6
  <2>7. CASE \E c \in Clients :
               /\ Submit(c) /\ i = client[c].item
               /\ row'[i] = [status |-> "done", origin |-> "poller", fp |-> client[c].fp,
                             by |-> client[c].token]
    BY <2>5, <2>7
  <2>8. QED
    BY <1>1, <2>1, <2>2, <2>3, <2>4, <2>6, <2>7, Writes
<1>2. IInv /\ [Next]_vars =>
        \A i \in Items :
          row'[i].by # 0 /\ row'[i] # row[i] /\ row'[i].status = "done" =>
            row'[i].fp = source[i]
  BY <1>1
<1>3. QED
  BY <1>2, Inductive, PTL DEF Spec, PublishesCurrent

=============================================================================
