-------------------------- MODULE QueueScanProofs --------------------------
(***************************************************************************)
(* Proofs about QueueScan, for every set of keys and every page size.      *)
(***************************************************************************)
EXTENDS QueueScan, FiniteSetTheorems, TLAPS

(* What a page of rows leaves out comes after all of it, and a page is empty
   only when nothing follows the cursor. *)
LEMMA PageCovers ==
  ASSUME NEW R, Page(R), queue \subseteq Nat, cursor \in Nat
  PROVE  /\ \A r \in R : cursor < r
         /\ \A k \in queue : cursor < k /\ k \notin R =>
              R # {} /\ \A r \in R : r < k
<1>1. \A r \in R : r \in queue /\ cursor < r
  BY DEF Page, After
<1>2. ASSUME NEW k \in queue, cursor < k, k \notin R
      PROVE  R # {} /\ \A r \in R : r < k
  <2>1. k \in After \ R
    BY <1>2 DEF After
  <2>2. Cardinality(R) = Limit
    BY <2>1 DEF Page
  <2>3. R # {}
    BY <2>2, FS_EmptySet, ScanConstants
  <2> QED
    BY <2>1, <2>3 DEF Page
<1> QED
  BY <1>1, <1>2

LEMMA InitHolds == Init => IInv
<1> SUFFICES ASSUME Init PROVE IInv
  OBVIOUS
<1>1. TypeOK
  BY ScanConstants DEF Init, TypeOK, Nothing, Stamps
<1>2. LapCovers
  BY ScanConstants DEF Init, LapCovers
<1>3. OncePerRequest /\ AheadMarked
  BY DEF Init, OncePerRequest, AheadMarked, Nothing
<1>4. RowsAhead /\ RowPlaced
  BY DEF Init, RowsAhead, RowPlaced
<1> QED
  BY <1>1, <1>2, <1>3, <1>4 DEF IInv

LEMMA TypeStep == TypeOK /\ RowPlaced /\ [Next]_vars => TypeOK'
<1> SUFFICES ASSUME TypeOK, RowPlaced, [Next]_vars PROVE TypeOK'
  OBVIOUS
<1> USE ScanConstants DEF TypeOK, Stamps
<1>0. phase = "row" => at \in Keys
  BY DEF RowPlaced
<1>1. ASSUME NEW aside \in SUBSET Skippable, Read(aside) PROVE TypeOK'
  <2>1. StillTried \in [Lyrics -> Stamps]
    BY DEF StillTried
  <2> QED
    BY <1>1, <2>1 DEF Read
<1>2. ASSUME NEW k \in Lyrics, PickRequest(k) PROVE TypeOK'
  <2>1. Counted(k, ahead[k] + 1) \in [Lyrics -> Nat]
    BY DEF Counted
  <2> QED
    BY <1>2, <2>1 DEF PickRequest
<1>3. CASE Wrap
  BY <1>3 DEF Wrap
<1>4. CASE StartRows
  BY <1>4 DEF StartRows, scan
<1>5. CASE RowsDone
  BY <1>5 DEF RowsDone, scan
<1>6. ASSUME NEW k \in Keys, PickRow(k) PROVE TypeOK'
  BY <1>6 DEF PickRow
<1>7. ASSUME NEW outcome \in Outcomes, RequestAnswered(outcome) PROVE TypeOK'
  <2>1. Counted(at, 0) \in [Lyrics -> Nat]
    <3>1. [ahead EXCEPT ![at] = 0] \in [Lyrics -> Nat]
      OBVIOUS
    <3> QED
      BY <3>1 DEF Counted
  <2>2. [tried EXCEPT ![at] = 0] \in [Lyrics -> Stamps]
    <3>1. 0 \in Stamps
      OBVIOUS
    <3> HIDE DEF Stamps
    <3> QED
      BY <3>1
  <2> QED
    BY <1>7, <2>1, <2>2 DEF RequestAnswered, Goes, Outcomes
<1>8. ASSUME NEW outcome \in Outcomes, RowAnswered(outcome) PROVE TypeOK'
  <2>1. covered' \subseteq Keys
    BY <1>0, <1>8 DEF RowAnswered
  <2> QED
    BY <1>8, <2>1 DEF RowAnswered, Goes, Cursor, Outcomes
<1>9. ASSUME NEW k \in Lyrics, Request(k) PROVE TypeOK'
  BY <1>9 DEF Request, scan, tick
<1>10. ASSUME NEW k \in Keys, Appear(k) PROVE TypeOK'
  BY <1>10 DEF Appear, scan, tick
<1>11. ASSUME NEW k \in Keys, Disappear(k) PROVE TypeOK'
  BY <1>11 DEF Disappear, scan, tick
<1>12. CASE Crash
  BY <1>0, <1>12 DEF Crash, scan
<1>13. CASE UNCHANGED vars
  BY <1>13 DEF vars, scan, tick
<1> QED
  BY <1>1, <1>2, <1>3, <1>4, <1>5, <1>6, <1>7, <1>8, <1>9, <1>10, <1>11, <1>12, <1>13
  DEF Next, Tick, Answer, Change

-----------------------------------------------------------------------------
(* The lap: rows are taken in order, and a refused row is taken again. *)

LEMMA LapStep ==
  TypeOK /\ LapCovers /\ RowsAhead /\ RowPlaced /\ [Next]_vars
    => LapCovers' /\ RowsAhead' /\ RowPlaced'
<1> SUFFICES ASSUME TypeOK, LapCovers, RowsAhead, RowPlaced, [Next]_vars
             PROVE  LapCovers' /\ RowsAhead' /\ RowPlaced'
  OBVIOUS
<1> DEFINE Goal == LapCovers' /\ RowsAhead' /\ RowPlaced'
<1>a. cursor \in Nat /\ before \in Nat /\ queue \subseteq Nat /\ since \subseteq Nat /\ rows \subseteq Nat
  BY ScanConstants DEF TypeOK
<1>1. ASSUME NEW aside \in SUBSET Skippable, Read(aside) PROVE Goal
  <2>1. /\ Page(rows') /\ phase = "out" /\ phase' = "requests"
        /\ UNCHANGED <<queue, cursor, at, before, since, covered>>
    BY <1>1 DEF Read
  <2>2. RowsAhead'
    BY <1>a, <2>1, PageCovers DEF RowsAhead, RowPlaced
  <2> QED
    BY <2>1, <2>2 DEF LapCovers, RowPlaced
<1>2. ASSUME NEW k \in Lyrics, PickRequest(k) PROVE Goal
  BY <1>2 DEF PickRequest, LapCovers, RowsAhead, RowPlaced
<1>3. CASE Wrap
  <2>1. cursor' = 0 /\ phase' = "out" /\ since' = queue /\ UNCHANGED queue
    BY <1>3 DEF Wrap
  <2>2. LapCovers'
    <3> SUFFICES ASSUME NEW k \in since', k <= cursor' PROVE FALSE
      BY DEF LapCovers
    <3>1. k \in Keys
      BY <2>1 DEF TypeOK
    <3> QED
      BY <2>1, <3>1, ScanConstants
  <2> QED
    BY <2>1, <2>2 DEF RowsAhead, RowPlaced
<1>4. CASE StartRows
  BY <1>4 DEF StartRows, RequestsDone, scan, LapCovers, RowsAhead, RowPlaced
<1>5. CASE RowsDone
  BY <1>5 DEF RowsDone, scan, LapCovers, RowsAhead, RowPlaced
<1>6. ASSUME NEW k \in Keys, PickRow(k) PROVE Goal
  <2>1. /\ phase = "rows" /\ k \in rows /\ \A j \in rows : k <= j
        /\ rows' = rows \ {k} /\ before' = cursor /\ cursor' = k /\ at' = k
        /\ UNCHANGED <<queue, since>>
    BY <1>6 DEF PickRow
  <2>2. \/ phase' = "rows" /\ covered' = covered \cup {k}
        \/ phase' = "row" /\ covered' = covered
    BY <1>6, <2>1 DEF PickRow
  <2>3. cursor < k /\ k \in Nat
    BY <1>a, <2>1 DEF RowsAhead
  <2>4. LapCovers'
    <3> SUFFICES ASSUME NEW j \in since, j <= k
                 PROVE  j \in covered' \/ (phase' = "row" /\ at' = j)
      BY <2>1 DEF LapCovers
    <3>1. CASE j = k
      BY <2>1, <2>2, <3>1
    <3>2. CASE j <= cursor
      BY <2>1, <2>2, <3>2 DEF LapCovers
    <3>3. CASE cursor < j /\ j # k
      <4>1. j \notin rows
        BY <1>a, <2>1, <2>3, <3>3
      <4> QED
        BY <1>a, <2>1, <2>3, <3>3, <4>1 DEF RowsAhead
    <3> QED
      BY <1>a, <3>1, <3>2, <3>3
  <2>5. RowsAhead'
    <3>1. \A r \in rows' : k < r
      BY <1>a, <2>1, <2>3
    <3>2. ASSUME NEW j \in since, k < j, j \notin rows' PROVE \A r \in rows' : r < j
      <4>1. j \notin rows /\ cursor < j
        BY <1>a, <2>1, <2>3, <3>2
      <4> QED
        BY <2>1, <4>1 DEF RowsAhead
    <3> QED
      BY <2>1, <2>2, <3>1, <3>2 DEF RowsAhead
  <2>6. RowPlaced'
    BY <2>1, <2>3 DEF RowPlaced
  <2> QED
    BY <2>4, <2>5, <2>6
<1>7. ASSUME NEW outcome \in Outcomes, RequestAnswered(outcome) PROVE Goal
  BY <1>7 DEF RequestAnswered, Goes, LapCovers, RowsAhead, RowPlaced
<1>8. ASSUME NEW outcome \in Outcomes, RowAnswered(outcome) PROVE Goal
  <2>1. /\ phase = "row" /\ at = cursor /\ before < at
        /\ UNCHANGED <<queue, rows, since, at, before>>
    BY <1>8 DEF RowAnswered, RowPlaced
  <2>2. CASE outcome = "budget"
    <3>1. cursor' = before /\ covered' = covered /\ phase' = "out"
      BY <1>8, <2>2 DEF RowAnswered, Cursor, Goes
    <3>2. LapCovers'
      <4> SUFFICES ASSUME NEW k \in since, k <= before PROVE k \in covered
        BY <2>1, <3>1 DEF LapCovers
      <4>1. k <= cursor /\ k # at
        BY <1>a, <2>1
      <4> QED
        BY <4>1 DEF LapCovers
    <3> QED
      BY <2>1, <3>1, <3>2 DEF RowsAhead, RowPlaced
  <2>3. CASE outcome # "budget"
    <3>1. cursor' = cursor /\ covered' = covered \cup {at} /\ phase' \in {"rows", "out"}
      BY <1>8, <2>3 DEF RowAnswered, Cursor, Goes
    <3> QED
      BY <2>1, <3>1 DEF LapCovers, RowsAhead, RowPlaced
  <2> QED
    BY <2>2, <2>3
<1>9. ASSUME NEW k \in Lyrics, Request(k) PROVE Goal
  BY <1>9 DEF Request, scan, tick, LapCovers, RowsAhead, RowPlaced
<1>10. ASSUME NEW k \in Keys, Appear(k) PROVE Goal
  BY <1>10 DEF Appear, scan, tick, LapCovers, RowsAhead, RowPlaced
<1>11. ASSUME NEW k \in Keys, Disappear(k) PROVE Goal
  BY <1>11 DEF Disappear, scan, tick, LapCovers, RowsAhead, RowPlaced
<1>12. CASE Crash
  BY <1>12 DEF Crash, scan, LapCovers, RowsAhead, RowPlaced
<1>13. CASE UNCHANGED vars
  BY <1>13 DEF vars, scan, tick, LapCovers, RowsAhead, RowPlaced
<1> QED
  BY <1>1, <1>2, <1>3, <1>4, <1>5, <1>6, <1>7, <1>8, <1>9, <1>10, <1>11, <1>12, <1>13
  DEF Next, Tick, Answer, Change

-----------------------------------------------------------------------------
(* The priority: what was tried ahead of the backlog is on disk beforehand. *)

LEMMA PriorityStep ==
  TypeOK /\ OncePerRequest /\ AheadMarked /\ [Next]_vars
    => OncePerRequest' /\ AheadMarked'
<1> SUFFICES ASSUME TypeOK, OncePerRequest, AheadMarked, [Next]_vars
             PROVE  OncePerRequest' /\ AheadMarked'
  OBVIOUS
<1> DEFINE Goal == OncePerRequest' /\ AheadMarked'
<1> USE DEF OncePerRequest, AheadMarked
<1>a. ahead \in [Lyrics -> Nat] /\ tried \in [Lyrics -> Stamps]
  BY DEF TypeOK
<1>1. ASSUME NEW aside \in SUBSET Skippable, Read(aside) PROVE Goal
  BY <1>1 DEF Read, StillTried
<1>2. ASSUME NEW k \in Lyrics, PickRequest(k) PROVE Goal
  <2>1. /\ phase = "requests" /\ phase' = "request" /\ UNCHANGED <<asked, wanted>>
        /\ tried[k] # wanted[k] /\ tried' = [tried EXCEPT ![k] = wanted[k]]
        /\ ahead' = Counted(k, ahead[k] + 1)
    BY <1>2 DEF PickRequest, Untried
  <2>2. CASE asked[k] = wanted[k]
    <3>1. ahead[k] = 0
      BY <1>a, <2>1, <2>2
    <3>2. ahead' = [ahead EXCEPT ![k] = 1]
      BY <2>1, <2>2, <3>1 DEF Counted
    <3>3. ASSUME NEW l \in Lyrics
          PROVE  /\ ahead'[l] <= 1
                 /\ ahead'[l] = 1 => tried'[l] = asked[l]
                 /\ asked[l] # wanted[l] => ahead'[l] = 0
      <4>1. CASE l = k
        <5>1. ahead'[k] = 1
          BY <1>a, <3>2
        <5>2. tried'[k] = asked[k]
          BY <1>a, <2>1, <2>2
        <5> QED
          BY <2>2, <4>1, <5>1, <5>2
      <4>2. CASE l # k
        BY <1>a, <2>1, <3>2, <4>2
      <4> QED
        BY <4>1, <4>2
    <3> QED
      BY <2>1, <3>3
  <2>3. CASE asked[k] # wanted[k]
    <3>1. ahead' = ahead /\ ahead[k] = 0
      BY <2>1, <2>3 DEF Counted
    <3> QED
      BY <1>a, <2>1, <3>1
  <2> QED
    BY <2>2, <2>3
<1>3. CASE Wrap
  BY <1>3 DEF Wrap, RequestsDone
<1>4. CASE StartRows
  BY <1>4 DEF StartRows, RequestsDone, scan
<1>5. CASE RowsDone
  BY <1>5 DEF RowsDone, scan
<1>6. ASSUME NEW k \in Keys, PickRow(k) PROVE Goal
  BY <1>6 DEF PickRow
<1>7. ASSUME NEW outcome \in Outcomes, RequestAnswered(outcome) PROVE Goal
  <2>1. phase = "request" /\ UNCHANGED <<asked, wanted>>
    BY <1>7 DEF RequestAnswered
  <2>2. CASE outcome = "budget"
    <3>1. tried' = [tried EXCEPT ![at] = 0] /\ ahead' = Counted(at, 0)
      BY <1>7, <2>2 DEF RequestAnswered
    <3>2. ASSUME NEW k \in Lyrics
          PROVE  /\ ahead'[k] <= 1
                 /\ ahead'[k] = 1 => tried'[k] = asked[k]
                 /\ asked[k] # wanted[k] => ahead'[k] = 0
      BY <1>a, <2>1, <3>1 DEF Counted
    <3> QED
      BY <2>1, <3>2
  <2>3. CASE outcome # "budget"
    BY <1>7, <2>1, <2>3 DEF RequestAnswered
  <2> QED
    BY <2>2, <2>3
<1>8. ASSUME NEW outcome \in Outcomes, RowAnswered(outcome) PROVE Goal
  BY <1>8 DEF RowAnswered
<1>9. ASSUME NEW k \in Lyrics, Request(k) PROVE Goal
  BY <1>9, <1>a DEF Request, scan, tick, TypeOK
<1>10. ASSUME NEW k \in Keys, Appear(k) PROVE Goal
  BY <1>10 DEF Appear, scan, tick
<1>11. ASSUME NEW k \in Keys, Disappear(k) PROVE Goal
  BY <1>11 DEF Disappear, scan, tick
<1>12. CASE Crash
  BY <1>12 DEF Crash, scan
<1>13. CASE UNCHANGED vars
  BY <1>13 DEF vars, scan, tick
<1> QED
  BY <1>1, <1>2, <1>3, <1>4, <1>5, <1>6, <1>7, <1>8, <1>9, <1>10, <1>11, <1>12, <1>13
  DEF Next, Tick, Answer, Change

-----------------------------------------------------------------------------
(* Where a scan stands is kept by every step and every crash: the rows of a tick lie
   ahead of its cursor, which strengthens the lap property, and a request's
   priority is what the disk says, which strengthens the priority property. *)
THEOREM Inductive == Spec => []IInv
<1>1. IInv /\ [Next]_vars => IInv'
  BY TypeStep, LapStep, PriorityStep DEF IInv
<1> QED
  BY InitHolds, <1>1, PTL DEF Spec

(* No key that was in the queue throughout falls behind the cursor of _claim
   without its offer, for any queue and page size. *)
THEOREM NoKeySkipped == Spec => []LapCovers
<1>1. IInv => LapCovers
  BY DEF IInv
<1> QED
  BY Inductive, <1>1, PTL

(* The priority of an explicit request in _claim is good for one attempt. *)
THEOREM PriorityOnce == Spec => []OncePerRequest
<1>1. IInv => OncePerRequest
  BY DEF IInv
<1> QED
  BY Inductive, <1>1, PTL

(* scan_wrap ends a lap only when each key that stayed in the queue was offered,
   set aside by the fallback, or cut off by a crash. *)
THEOREM LapsAreComplete == Spec => LapComplete
<1>1. IInv /\ [Next]_vars => [Wrap => since \subseteq covered]_vars
  <2> SUFFICES ASSUME IInv, Wrap, NEW k \in since PROVE k \in covered
    OBVIOUS
  <2>1. phase = "requests" /\ rows = {}
    BY DEF Wrap, RequestsDone
  <2>2. ~(cursor < k)
    BY <2>1 DEF IInv, RowsAhead
  <2>3. k \in Nat /\ cursor \in Nat
    BY ScanConstants DEF IInv, TypeOK
  <2>4. k <= cursor
    BY <2>2, <2>3
  <2> QED
    BY <2>1, <2>4 DEF IInv, LapCovers
<1> QED
  BY Inductive, <1>1, PTL DEF Spec, LapComplete
=============================================================================
