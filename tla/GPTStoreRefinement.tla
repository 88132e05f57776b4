------------------------- MODULE GPTStoreRefinement -------------------------
(***************************************************************************)
(* GPTStore implements ReaderView: whatever the slots, the owner and the   *)
(* crawlers interleave, a step seen through the refinement mapping is one  *)
(* of ReaderView's or changes nothing a reader sees.                       *)
(*                                                                         *)
(* Only a submitted result changes a stored translation, so every other    *)
(* step is decided by what it writes to the item's row.                    *)
(***************************************************************************)
EXTENDS GPTStoreProofs

Results == [w \in Works |-> work[w].result]

Idles == UNCHANGED <<source, row, Results>>

(* One row is written and keeps its result. *)
LEMMA OneResult ==
  ASSUME TypeOK, NEW w \in Works, NEW v, v.result = work[w].result,
         work' = [work EXCEPT ![w] = v]
  PROVE  UNCHANGED Results
  BY DEF TypeOK, Results

(* A step that is not a submitted result leaves every stored translation. *)
LEMMA ResultsKept ==
  ASSUME TypeOK, Placed, AttemptsBounded, Next, \A c \in Clients : ~Submit(c)
  PROVE  UNCHANGED Results
<1>0. \A w \in Works : work[w] \in Work /\ Consistent(work[w])
  BY DEF TypeOK, AttemptsBounded
<1>1. ASSUME UNCHANGED work PROVE UNCHANGED Results
  BY <1>1 DEF Results
<1>2. ASSUME NEW w \in Works, LeaseExpires(w) \/ BackoffElapses(w)
      PROVE  UNCHANGED Results
  <2>1. /\ [work[w] EXCEPT !.leased = FALSE].result = work[w].result
        /\ [work[w] EXCEPT !.due = TRUE].result = work[w].result
    BY <1>0 DEF Work
  <2>2. QED
    BY <1>2, <2>1, OneResult DEF LeaseExpires, BackoffElapses
<1>3. CASE Midnight
  <2>1. \A w \in Works : [work[w] EXCEPT !.today = FALSE].result = work[w].result
    BY <1>0 DEF Work
  <2>2. QED
    BY <1>3, <2>1 DEF Midnight, Results
<1>4. ASSUME NEW c \in Clients, NEW i \in Items, BindAlbum(c, i)
      PROVE  UNCHANGED Results
  <2> DEFINE w == <<i, source[i]>>
  <2>1. CASE work' = [work EXCEPT ![w] = Created(work[w])]
    <3>1. w \in Works
      BY <1>4 DEF BindAlbum, TypeOK, Works
    <3>2. QED
      BY <1>0, <2>1, <3>1, CreatedRow, OneResult
  <2>2. QED
    BY <1>1, <1>4, <2>1 DEF BindAlbum
<1>5. ASSUME NEW c \in Clients, AdmitStored(c) \/ AdmitClaim(c)
      PROVE  UNCHANGED Results
  <2>1. /\ Target(c) \in Works /\ Upserted(c) \in Work
        /\ Upserted(c).result = work[Target(c)].result
    BY <1>5, TargetIsWork, UpsertedRow DEF AdmitStored, AdmitClaim
  <2>2. Claimed(Upserted(c)).result = work[Target(c)].result
    BY <2>1, ClaimedRow
  <2>3. QED
    BY <1>5, <2>1, <2>2, OneResult DEF AdmitStored, AdmitClaim
<1>6. ASSUME NEW c \in Clients, GiveUp(c) \/ FailSuperseded(c)
      PROVE  UNCHANGED Results
  <2>1. Target(c) \in Works
    BY <1>6, TargetIsWork DEF GiveUp, FailSuperseded
  <2>2. PICK reason \in Reasons, refund \in BOOLEAN : Fail(c, reason, refund)
    BY <1>6 DEF GiveUp, FailSuperseded, Reasons
  <2>3. CASE Current(c)
    <3>1. work[Target(c)].attempts > 0
      BY <1>0, <2>1, <2>3 DEF Current, Live, Consistent
    <3>2. Released(work[Target(c)], reason, refund).result = work[Target(c)].result
      BY <1>0, <2>1, <3>1, ReleasedRow
    <3>3. QED
      BY <2>1, <2>2, <2>3, <3>2, OneResult DEF Fail
  <2>4. QED
    BY <1>1, <2>2, <2>3 DEF Fail
<1>7. QED
  BY <1>1, <1>2, <1>3, <1>4, <1>5, <1>6
  DEF Next, Environment, Slot, SourceChanges, RequestTranslation, SaveManualEdit,
      ChangeDemand, PickRequested, Prepare, RejectKorean, AdmitRefused,
      SubmitRefused, Crash

-----------------------------------------------------------------------------
(* The steps that write an item's row. *)

LEMMA InitRefines == Init => Reader!Init
<1> SUFFICES ASSUME Init PROVE Reader!Init
  OBVIOUS
<1>1. NoWork.result = 0
  BY DEF NoWork
<1>2. [w \in Works |-> work[w].result] = [w \in Items \X Fps |-> 0]
  BY <1>1 DEF Init, Works
<1>3. \A i \in Items :
        row[i] \in [status : {"absent", "requested"}, origin : {"none"}, fp : {None}, by : {0}]
  BY DEF Init, NoRow
<1>4. row \in [Items -> [status : {"absent", "requested"}, origin : {"none"},
                         fp : {None}, by : {0}]]
  BY <1>3 DEF Init
<1>5. QED
  BY <1>2, <1>4 DEF Init, Reader!Init

(* What an owner owns, the publication guard protects. *)
LEMMA GuardKeepsOwned ==
  ASSUME NEW i \in Items, NEW later, MayPublish(i, later)
  PROVE  ~Reader!Owned(i)
  BY DEF MayPublish, Reader!Owned

LEMMA OwnerRefines ==
  ASSUME TypeOK, Placed, AttemptsBounded, Next, NEW i \in Items,
         \/ \E f \in Fps \cup {None} : SourceChanges(i, f)
         \/ RequestTranslation(i) \/ SaveManualEdit(i) \/ ChangeDemand(i)
  PROVE  Reader!Next \/ Idles
<1>1. UNCHANGED Results
  BY DEF SourceChanges, RequestTranslation, SaveManualEdit, ChangeDemand, Results
<1>2. ASSUME NEW f \in Fps \cup {None}, SourceChanges(i, f)
      PROVE  Reader!Recrawl(i)
  BY <1>1, <1>2 DEF SourceChanges, Rewrite, Reader!Recrawl, TypeOK, Results
<1>3. CASE RequestTranslation(i)
  BY <1>1, <1>3 DEF RequestTranslation, Rewrite, Reader!Next, Reader!Ask, Reader!Becomes, Results
<1>4. CASE SaveManualEdit(i)
  BY <1>1, <1>4 DEF SaveManualEdit, Rewrite, Reader!Next, Reader!Write, Reader!Becomes, Results
<1>5. CASE ChangeDemand(i)
  BY <1>1, <1>5 DEF ChangeDemand, Idles
<1>6. QED
  BY <1>2, <1>3, <1>4, <1>5 DEF Reader!Next

(* A stored translation is shown, or loses to a later write of the row. *)
LEMMA AdmitStoredRefines ==
  ASSUME TypeOK, Placed, AttemptsBounded, Next, NEW c \in Clients, AdmitStored(c)
  PROVE  Reader!Next \/ Idles
<1> DEFINE w == Target(c)
<1>0. PICK i \in Items : i = client[c].item
  BY DEF AdmitStored, Placed
<1>1. w \in Works /\ source[i] \in Fps /\ w = <<i, source[i]>> /\ UNCHANGED source
  BY <1>0, TargetIsWork DEF AdmitStored, Target, Placed
<1>2. Consistent(work[w]) /\ work[w].status = "done" /\ work[w].result # 0
  BY <1>1 DEF AttemptsBounded, Consistent, AdmitStored
<1>3. UNCHANGED Results
  BY <1>1, UpsertedRow, OneResult DEF AdmitStored
<1>4. Results[w] = work[w].result
  BY <1>1 DEF Results
<1>5. CASE MayPublish(i, client[c].touched)
  <2>1. row' = [row EXCEPT ![i] = [status |-> "done", origin |-> "poller",
                                   fp |-> source[i], by |-> work[w].result]]
    BY <1>0, <1>5 DEF AdmitStored, Publish, Rewrite
  <2>2. Reader!Show(i)
    BY <1>1, <1>2, <1>3, <1>4, <1>5, <2>1, GuardKeepsOwned
    DEF Reader!Show, Reader!Current, Reader!Becomes, Reader!Translated, Results
  <2>3. QED
    BY <1>1, <2>2 DEF Reader!Next
<1>6. CASE ~MayPublish(i, client[c].touched)
  BY <1>0, <1>1, <1>3, <1>6 DEF AdmitStored, Leave, Idles
<1>7. QED
  BY <1>5, <1>6

(* A submitted result is the version's first, and shown unless overtaken. *)
LEMMA SubmitRefines ==
  ASSUME TypeOK, Placed, AttemptsBounded, Granted, Next, NEW c \in Clients, Submit(c)
  PROVE  Reader!Next
<1> DEFINE w == Target(c)
           n == client[c].token
<1>0. PICK i \in Items : i = client[c].item
  BY DEF Submit, Placed
<1>1. /\ w \in Works /\ source[i] \in Fps /\ w = <<i, source[i]>>
      /\ client[c].fp = source[i] /\ UNCHANGED source
  BY <1>0, TargetIsWork DEF Submit, Accepts, Target, Placed
<1>2. work[w] \in Work /\ Consistent(work[w]) /\ work[w].status = "running"
  BY <1>1 DEF TypeOK, AttemptsBounded, Submit, Accepts, Current, Live
<1>3. n \in Nat /\ n # 0 /\ work[w].result = 0
  BY <1>1, <1>2 DEF Consistent, Submit, Accepts, Current, Work
<1>4. work' = [work EXCEPT ![w] = Completed(work[w], n)] /\ Completed(work[w], n).result = n
  BY <1>2, <1>3, CompletedRow DEF Submit
<1>5. /\ Results[w] = 0 /\ Results' = [Results EXCEPT ![w] = n]
      /\ Results'[w] = n
  BY <1>1, <1>3, <1>4 DEF Results, TypeOK
<1>6. \/ UNCHANGED row
      \/ /\ ~Reader!Owned(i)
         /\ row' = [row EXCEPT ![i] = [status |-> "done", origin |-> "poller",
                                       fp |-> source[i], by |-> n]]
  BY <1>0, <1>1, GuardKeepsOwned DEF Submit, Publish, Rewrite, Leave
<1>7. Reader!Translate(i)
  BY <1>1, <1>3, <1>5, <1>6
  DEF Reader!Translate, Reader!Current, Reader!Becomes, Reader!Translated, Results
<1>8. QED
  BY <1>7 DEF Reader!Next

LEMMA RejectRefines ==
  ASSUME TypeOK, Placed, AttemptsBounded, Next, NEW c \in Clients, RejectKorean(c)
  PROVE  Reader!Next \/ Idles
<1>1. UNCHANGED Results /\ client[c].item \in Items
  BY DEF RejectKorean, Results, Placed
<1>2. QED
  BY <1>1 DEF RejectKorean, Rewrite, Leave, Idles, Reader!Next, Reader!Reject, Reader!Becomes,
              Results

-----------------------------------------------------------------------------
LEMMA NextRefines == IInv /\ [Next]_vars => [Reader!Next]_(Reader!vars)
<1> SUFFICES ASSUME IInv, [Next]_vars PROVE Reader!Next \/ Idles
  BY DEF Idles, Results, Reader!vars
<1>1. CASE UNCHANGED vars
  BY <1>1 DEF vars, Idles, Results
<1>2. CASE Next
  <2>1. TypeOK /\ Placed /\ AttemptsBounded /\ Granted
    BY DEF IInv
  <2>2. ASSUME UNCHANGED <<source, row>>, \A c \in Clients : ~Submit(c)
        PROVE  Idles
    BY <1>2, <2>1, <2>2, ResultsKept DEF Idles
  <2>3. CASE \E i \in Items :
               \/ \E f \in Fps \cup {None} : SourceChanges(i, f)
               \/ RequestTranslation(i) \/ SaveManualEdit(i) \/ ChangeDemand(i)
    BY <1>2, <2>1, <2>3, OwnerRefines
  <2>4. CASE \E c \in Clients : RejectKorean(c) \/ AdmitStored(c) \/ Submit(c)
    BY <1>2, <2>1, <2>4, RejectRefines, AdmitStoredRefines, SubmitRefines
  <2>5. QED
    BY <1>2, <2>2, <2>3, <2>4
    DEF Next, Environment, Slot, LeaseExpires, BackoffElapses, Midnight, BindAlbum,
        PickRequested, Prepare, AdmitClaim, AdmitRefused, SubmitRefused, GiveUp,
        FailSuperseded, Fail, Crash, Leave
<1>3. QED
  BY <1>1, <1>2

(* The store keeps its promise to the reader: prepare, submit, fail, crashes,
   expired leases and the owner's edits, in any order and number, only ever do
   what ReaderView allows. *)
THEOREM Implements == Spec => KeepsPromise
<1>1. Init => Reader!Init
  BY InitRefines
<1>2. IInv /\ [Next]_vars => [Reader!Next]_(Reader!vars)
  BY NextRefines
<1>3. QED
  BY <1>1, <1>2, Inductive, PTL DEF Spec, KeepsPromise, Reader!Spec

=============================================================================
