---------------------------- MODULE QueueRunProofs ----------------------------
(***************************************************************************)
(* What QueueRun guarantees for any number of slots and sources.           *)
(*                                                                         *)
(* Lemmas about one slot's move, one release and the histories come first. *)
(* SlotMoves then says of every step of a slot where the slot goes and     *)
(* what it has seen of the switches on the way; the parts of the invariant *)
(* about stops, waits and the cap are proved from that.                    *)
(***************************************************************************)
EXTENDS QueueRun, FiniteSetTheorems, TLAPS

-----------------------------------------------------------------------------
(* One slot's move, one release. *)

LEMMA Places ==
  /\ Out \in Slot /\ Out.phase = "out"
  /\ Top \in Slot /\ Top.phase = "top"
  /\ [Top EXCEPT !.phase = "scan"] \in Slot /\ [Top EXCEPT !.phase = "scan"].phase = "scan"
BY DEF Out, Top, Slot, Phases

LEMMA Going ==
  ASSUME TypeOK, NEW s \in Slots, NEW p \in Phases, Go(s, p)
  PROVE  /\ slot' \in [Slots -> Slot] /\ done' \in BOOLEAN
         /\ slot'[s].phase = p /\ slot'[s].src = slot[s].src
         /\ \A t \in Slots \ {s} : slot'[t] = slot[t]
BY DEF TypeOK, Slot, Go

LEMMA TickEnding ==
  ASSUME TypeOK, NEW s \in Slots, NEW final \in BOOLEAN, TickEnds(s, final)
  PROVE  /\ slot' \in [Slots -> Slot] /\ done' \in BOOLEAN
         /\ slot'[s].phase \in {"out", "top"}
         /\ \A t \in Slots \ {s} : slot'[t] = slot[t]
BY Places DEF TypeOK, TickEnds

LEMMA ReleasedRow ==
  ASSUME NEW x \in Source, x.attempts > 0, NEW refund \in BOOLEAN, NEW cancel \in BOOLEAN
  PROVE  LET y == Released(x, refund, cancel)
         IN  y \in Source /\ y.attempts <= x.attempts /\ y.holder = None
<1> DEFINE st == IF cancel THEN "cancelled" ELSE "ready"
           at == IF refund THEN x.attempts - 1 ELSE x.attempts
           by == x.byFallback \/ (~refund /\ ~cancel /\ run = "fallback")
<1>1. st \in {"ready", "running", "done", "cancelled"} /\ at \in Nat /\ at <= x.attempts
  BY DEF Source
<1>2. by \in BOOLEAN
  BY DEF Source
<1>3. Released(x, refund, cancel) =
        [x EXCEPT !.state = st, !.holder = None, !.attempts = at, !.byFallback = by]
  BY Zenon DEF Released
<1> HIDE DEF st, at, by
<1> QED
  BY <1>1, <1>2, <1>3 DEF Source

LEMMA Releasing ==
  ASSUME TypeOK, Charged, NEW s \in Slots, slot[s].src \in Sources,
         NEW refund \in BOOLEAN, NEW cancel \in BOOLEAN, Release(s, refund, cancel)
  PROVE  src' \in [Sources -> Source] /\ Charged'
<1> DEFINE x == slot[s].src
           y == Released(src[x], refund, cancel)
<1>1. CASE ~Owns(s)
  BY <1>1 DEF Release, TypeOK, Charged
<1>2. CASE Owns(s)
  <2>1. src[x] \in Source /\ src[x].attempts > 0 /\ src[x].attempts <= MaxAttempts
    BY <1>2, RunConstants DEF Owns, TypeOK, Charged
  <2>2. y \in Source /\ y.attempts <= src[x].attempts /\ y.holder = None
    BY <2>1, ReleasedRow
  <2>3. src' = [src EXCEPT ![x] = y]
    BY <1>2 DEF Release
  <2> HIDE DEF x, y
  <2>4. x \in Sources
    BY DEF x
  <2> QED
    BY <2>1, <2>2, <2>3, <2>4, RunConstants DEF TypeOK, Charged, Source
<1> QED
  BY <1>1, <1>2

-----------------------------------------------------------------------------
(* The histories. *)

LEMMA Observing ==
  ASSUME TypeOK, Observe, NEW s, \A t \in Slots : Admits(t) => t = s
  PROVE  /\ late' \in [Slots -> Nat]
         /\ \A t \in Slots : late'[t] = IF ~Held' \/ run' = "none" THEN 0
                                        ELSE late[t] + (IF Begins(t) THEN 1 ELSE 0)
         /\ lateClaims' \in Nat
         /\ ~Held' \/ run' = "none" => lateClaims' = 0
         /\ lateClaims' > lateClaims => lateClaims' = lateClaims + 1 /\ s \in Slots /\ Admits(s)
<1>1. late \in [Slots -> Nat] /\ lateClaims \in Nat
  BY DEF TypeOK
<1>2. \A t \in Slots : late'[t] = IF ~Held' \/ run' = "none" THEN 0
                                  ELSE late[t] + (IF Begins(t) THEN 1 ELSE 0)
  BY DEF Observe
<1>3. late' \in [Slots -> Nat]
  BY <1>1 DEF Observe
<1> DEFINE A == {t \in Slots : Admits(t)}
<1>4. A = {} \/ (A = {s} /\ s \in Slots /\ Admits(s))
  OBVIOUS
<1>5. Cardinality(A) = 0 \/ (Cardinality(A) = 1 /\ s \in Slots /\ Admits(s))
  BY <1>4, FS_EmptySet, FS_Singleton
<1>6. lateClaims' = IF ~Held' \/ run' = "none" THEN 0 ELSE lateClaims + Cardinality(A)
  BY DEF Observe
<1> HIDE DEF A
<1> QED
  BY <1>1, <1>2, <1>3, <1>5, <1>6

LEMMA CountingWindows ==
  ASSUME TypeOK, Observe
  PROVE  /\ windows' \in Nat
         /\ windows' = IF hits' = 0 THEN 0
                       ELSE IF waiting /\ ~waiting' THEN windows + 1 ELSE windows
BY DEF TypeOK, Observe

-----------------------------------------------------------------------------
(* Types, the sources of the slots, and the attempts of the sources. *)

Typed == TypeOK /\ Placed /\ Charged

(* What a step of s does to the slots, in types. *)
LEMMA SlotTyped ==
  ASSUME Typed, NEW s \in Slots, slot' \in [Slots -> Slot],
         \A t \in Slots \ {s} : slot'[t] = slot[t],
         Claimed(s)' => slot'[s].src \in Sources
  PROVE  Placed'
BY DEF Typed, Placed, Claimed

LEMMA HistoryTyped ==
  ASSUME TypeOK, Observe, NEW s, \A t \in Slots : Admits(t) => t = s
  PROVE  windows' \in Nat /\ late' \in [Slots -> Nat] /\ lateClaims' \in Nat
BY Observing, CountingWindows

(* A step of one slot admits no other one. *)
LEMMA OnlyOne ==
  ASSUME NEW s \in Slots, \A t \in Slots \ {s} : slot'[t] = slot[t]
  PROVE  \A t \in Slots : Admits(t) => t = s
BY DEF Admits

(* The rest of the state that a slot's step may change, and what it may not. *)
SwitchesTyped ==
  /\ enabled' \in BOOLEAN /\ pause' \in {"none", "owner", "plan"}
  /\ waiting' \in BOOLEAN /\ hits' \in 0..MaxHits
  /\ used' \in Nat /\ skipped' \subseteq Sources
  /\ cache' \in {"paused", "clear", "stale"} /\ edits' \in 0..MaxEdits
  /\ UNCHANGED <<fallback, site, run, smoke>>

LEMMA Assembled ==
  ASSUME Typed, Observe, SwitchesTyped, NEW s \in Slots,
         slot' \in [Slots -> Slot], done' \in BOOLEAN,
         \A t \in Slots \ {s} : slot'[t] = slot[t],
         Claimed(s)' => slot'[s].src \in Sources,
         src' \in [Sources -> Source] /\ Charged'
  PROVE  Typed'
<1>1. windows' \in Nat /\ late' \in [Slots -> Nat] /\ lateClaims' \in Nat
  BY OnlyOne, HistoryTyped DEF Typed
<1>2. Placed'
  BY SlotTyped
<1> QED
  BY <1>1, <1>2 DEF Typed, TypeOK, SwitchesTyped

LEMMA SrcKept ==
  ASSUME Typed, UNCHANGED src
  PROVE  src' \in [Sources -> Source] /\ Charged'
BY DEF Typed, TypeOK, Charged

LEMMA StepTyped ==
  ASSUME Typed, NEW s \in Slots, Step(s)
  PROVE  Typed'
<1> USE DEF settings
<1> DEFINE Rest == src' \in [Sources -> Source] /\ Charged'
<1>0. /\ TypeOK /\ slot[s] \in Slot /\ MaxEdits \in Nat /\ MaxHits \in Nat
      /\ Claimed(s) => slot[s].src \in Sources
  BY RunConstants DEF Typed, TypeOK, Placed
<1>1. CASE LoopHead(s)
  <2>1. /\ slot' \in [Slots -> Slot] /\ done' \in BOOLEAN
        /\ \A t \in Slots \ {s} : slot'[t] = slot[t]
        /\ ~Claimed(s)'
    <3>1. CASE done
      BY <1>0, <1>1, <3>1, Places DEF LoopHead, TypeOK, Claimed
    <3>2. CASE ~done /\ ~enabled
      BY <1>0, <1>1, <3>2, TickEnding DEF LoopHead, Claimed
    <3>3. CASE ~done /\ enabled
      <4>1. Go(s, "scan") /\ "scan" \in Phases
        BY <1>1, <3>3 DEF LoopHead, Phases
      <4> QED
        BY <1>0, <4>1, Going DEF Claimed
    <3> QED
      BY <3>1, <3>2, <3>3
  <2>2. SwitchesTyped /\ Observe /\ Rest
    BY <1>0, <1>1, SrcKept DEF LoopHead, SwitchesTyped, TypeOK
  <2> QED
    BY <2>1, <2>2, Assembled
<1>2. CASE Scan(s)
  <2>1. /\ slot' \in [Slots -> Slot] /\ done' \in BOOLEAN
        /\ \A t \in Slots \ {s} : slot'[t] = slot[t]
        /\ ~Claimed(s)'
    <3>1. CASE Go(s, "admitting")
      BY <1>0, <3>1, Going DEF Claimed, Phases
    <3>2. CASE TickEnds(s, TRUE)
      BY <1>0, <3>2, TickEnding DEF Claimed
    <3> QED
      BY <1>2, <3>1, <3>2 DEF Scan
  <2>2. SwitchesTyped /\ Observe /\ Rest
    BY <1>0, <1>2, SrcKept DEF Scan, Clear, Blocked, SwitchesTyped, TypeOK
  <2> QED
    BY <2>1, <2>2, Assembled
<1>3. ASSUME NEW x \in Sources, Admit(s, x) PROVE Typed'
  <2>1. /\ slot' \in [Slots -> Slot] /\ done' \in BOOLEAN
        /\ \A t \in Slots \ {s} : slot'[t] = slot[t]
        /\ slot'[s].src = x
    BY <1>0, <1>3 DEF Admit, TypeOK, Slot, Phases
  <2>2. Rest
    <3>1. src[x] \in Source /\ src[x].attempts + 1 <= MaxAttempts
      BY <1>0, <1>3, RunConstants DEF Admit, Claimable, TypeOK, Source
    <3> QED
      BY <1>0, <1>3, <3>1, RunConstants DEF Admit, Typed, Charged, TypeOK, Source
  <2>3. SwitchesTyped /\ Observe
    BY <1>0, <1>3 DEF Admit, SwitchesTyped, TypeOK
  <2> QED
    BY <2>1, <2>2, <2>3, Assembled
<1>4. ASSUME NEW final \in BOOLEAN, AdmitNone(s, final) PROVE Typed'
  <2>1. /\ slot' \in [Slots -> Slot] /\ done' \in BOOLEAN
        /\ \A t \in Slots \ {s} : slot'[t] = slot[t]
        /\ ~Claimed(s)'
    BY <1>0, <1>4, TickEnding DEF AdmitNone, Claimed
  <2>2. SwitchesTyped /\ Observe /\ Rest
    BY <1>0, <1>4, SrcKept DEF AdmitNone, SwitchesTyped, TypeOK
  <2> QED
    BY <2>1, <2>2, Assembled
<1>5. CASE Check(s)
  <2>1. slot[s].src \in Sources
    BY <1>0, <1>5 DEF Check, Claimed
  <2>2. CASE Clear /\ Go(s, "checked") /\ UNCHANGED src
    <3>1. /\ slot' \in [Slots -> Slot] /\ done' \in BOOLEAN
          /\ \A t \in Slots \ {s} : slot'[t] = slot[t]
          /\ slot'[s].src \in Sources
      BY <1>0, <2>1, <2>2, Going DEF Phases
    <3>2. SwitchesTyped /\ Observe /\ Rest
      BY <1>0, <1>5, <2>2, SrcKept DEF Check, Clear, SwitchesTyped, TypeOK
    <3> QED
      BY <3>1, <3>2, Assembled
  <2>3. CASE Blocked /\ TickEnds(s, TRUE)
             /\ (UNCHANGED src \/ Release(s, pause # "owner", pause = "owner"))
    <3>1. /\ slot' \in [Slots -> Slot] /\ done' \in BOOLEAN
          /\ \A t \in Slots \ {s} : slot'[t] = slot[t]
          /\ ~Claimed(s)'
      BY <1>0, <2>3, TickEnding DEF Claimed
    <3>2. SwitchesTyped /\ Observe
      BY <1>0, <1>5, <2>3 DEF Check, Blocked, SwitchesTyped, TypeOK
    <3>3. Rest
      <4>1. (pause # "owner") \in BOOLEAN /\ (pause = "owner") \in BOOLEAN
        OBVIOUS
      <4> QED
        BY <1>0, <2>1, <2>3, <4>1, SrcKept, Releasing DEF Typed
    <3> QED
      BY <3>1, <3>2, <3>3, Assembled
  <2> QED
    BY <1>5, <2>2, <2>3 DEF Check, Raises
<1>6. CASE CheckModel(s)
  <2>1. slot[s].src \in Sources
    BY <1>0, <1>6 DEF CheckModel, Claimed
  <2>2. /\ slot' \in [Slots -> Slot] /\ done' \in BOOLEAN
        /\ \A t \in Slots \ {s} : slot'[t] = slot[t]
        /\ ~Claimed(s)'
    BY <1>0, <1>6, TickEnding DEF CheckModel, Claimed
  <2>3. SwitchesTyped /\ Observe
    BY <1>0, <1>6 DEF CheckModel, Clear, SwitchesTyped, TypeOK
  <2>4. Rest
    BY <1>0, <1>6, <2>1, Releasing DEF CheckModel, Typed
  <2> QED
    BY <2>2, <2>3, <2>4, Assembled
<1>7. CASE Begin(s)
  <2>1. /\ slot' \in [Slots -> Slot] /\ done' \in BOOLEAN
        /\ \A t \in Slots \ {s} : slot'[t] = slot[t]
        /\ slot'[s].src \in Sources
    BY <1>0, <1>7, Going DEF Begin, Phases, Claimed
  <2>2. SwitchesTyped /\ Observe /\ Rest
    BY <1>0, <1>7, SrcKept DEF Begin, SwitchesTyped, TypeOK
  <2> QED
    BY <2>1, <2>2, Assembled
<1>8. CASE LimitHit(s) \/ PlanStop(s) \/ StreamFails(s)
  <2>1. /\ slot' \in [Slots -> Slot] /\ done' \in BOOLEAN
        /\ \A t \in Slots \ {s} : slot'[t] = slot[t]
        /\ slot'[s].src \in Sources
    BY <1>0, <1>8 DEF LimitHit, PlanStop, StreamFails, TypeOK, Slot, Phases, Claimed
  <2>2. Observe /\ Rest
    BY <1>8, SrcKept DEF LimitHit, PlanStop, StreamFails
  <2>3. SwitchesTyped
    <3>1. CASE LimitHit(s)
      <4>1. hits' \in 0..MaxHits /\ waiting' \in BOOLEAN
        <5>1. hits \in Nat /\ hits <= MaxHits /\ MaxHits \in Nat
          BY <1>0 DEF TypeOK
        <5>2. waiting' \in BOOLEAN
          BY <1>0, <3>1, Zenon DEF LimitHit, TypeOK
        <5>3. (hits < MaxHits /\ hits' = hits + 1) \/ hits' = hits
          BY <3>1, Zenon DEF LimitHit
        <5>4. hits' \in 0..MaxHits
          BY <5>1, <5>3
        <5> QED
          BY <5>2, <5>4
      <4> QED
        BY <1>0, <3>1, <4>1 DEF LimitHit, SwitchesTyped, TypeOK
    <3>2. CASE PlanStop(s) \/ StreamFails(s)
      BY <1>0, <3>2 DEF PlanStop, StreamFails, SwitchesTyped, TypeOK
    <3> QED
      BY <1>8, <3>1, <3>2
  <2> QED
    BY <2>1, <2>2, <2>3, Assembled
<1>9. CASE Cleanup(s)
  <2>1. slot[s].src \in Sources /\ slot[s].refund \in BOOLEAN
    BY <1>0, <1>9 DEF Cleanup, Claimed, Slot
  <2>2. /\ slot' \in [Slots -> Slot] /\ done' \in BOOLEAN
        /\ \A t \in Slots \ {s} : slot'[t] = slot[t]
        /\ ~Claimed(s)'
    BY <1>0, <1>9, TickEnding DEF Cleanup, Claimed
  <2>3. SwitchesTyped /\ Observe
    BY <1>0, <1>9 DEF Cleanup, SwitchesTyped, TypeOK
  <2>4. Rest
    BY <1>0, <1>9, <2>1, SrcKept, Releasing DEF Cleanup, Typed
  <2> QED
    BY <2>2, <2>3, <2>4, Assembled
<1>10. CASE StreamCompletes(s)
  <2>1. (IF hits = 0 THEN "submitting" ELSE "clearing") \in Phases
    BY DEF Phases
  <2>2. /\ slot' \in [Slots -> Slot] /\ done' \in BOOLEAN
        /\ \A t \in Slots \ {s} : slot'[t] = slot[t]
        /\ slot'[s].src \in Sources
    BY <1>0, <1>10, <2>1, Going DEF StreamCompletes, Claimed
  <2>3. SwitchesTyped /\ Observe /\ Rest
    BY <1>0, <1>10, SrcKept DEF StreamCompletes, SwitchesTyped, TypeOK
  <2> QED
    BY <2>2, <2>3, Assembled
<1>11. CASE LimitCleared(s)
  <2>1. /\ slot' \in [Slots -> Slot] /\ done' \in BOOLEAN
        /\ \A t \in Slots \ {s} : slot'[t] = slot[t]
        /\ slot'[s].src \in Sources
    BY <1>0, <1>11, Going DEF LimitCleared, Claimed, Phases
  <2>2. Observe /\ Rest
    BY <1>11, SrcKept DEF LimitCleared
  <2>3. hits' \in 0..MaxHits /\ waiting' \in BOOLEAN /\ skipped' \subseteq Sources
    <3>1. hits' = hits \/ hits' = 0
      BY <1>11, Zenon DEF LimitCleared
    <3>2. skipped' \in {skipped, {}}
      BY <1>11, Zenon DEF LimitCleared
    <3>3. waiting' \in BOOLEAN
      BY <1>0, <1>11, Zenon DEF LimitCleared, TypeOK
    <3>4. hits' \in 0..MaxHits
      BY <1>0, <3>1 DEF TypeOK
    <3>5. skipped' \subseteq Sources
      BY <1>0, <3>2 DEF TypeOK
    <3> QED
      BY <3>3, <3>4, <3>5
  <2>4. SwitchesTyped
    BY <1>0, <1>11, <2>3 DEF LimitCleared, SwitchesTyped, TypeOK
  <2> QED
    BY <2>1, <2>2, <2>4, Assembled
<1>12. CASE SubmitResult(s)
  <2>1. slot[s].src \in Sources
    BY <1>0, <1>12 DEF SubmitResult, Claimed
  <2>2. /\ slot' \in [Slots -> Slot] /\ done' \in BOOLEAN
        /\ \A t \in Slots \ {s} : slot'[t] = slot[t]
        /\ ~Claimed(s)'
    BY <1>0, <1>12, TickEnding DEF SubmitResult, Claimed
  <2>3. SwitchesTyped /\ Observe
    BY <1>0, <1>12 DEF SubmitResult, SwitchesTyped, TypeOK
  <2>4. Rest
    <3>1. CASE Release(s, FALSE, FALSE)
      BY <1>0, <2>1, <3>1, Releasing DEF Typed
    <3>2. CASE src' = [src EXCEPT ![slot[s].src].state = "done", ![slot[s].src].holder = None]
      BY <1>0, <2>1, <3>2, RunConstants DEF Typed, TypeOK, Charged, Source
    <3> QED
      BY <1>12, <3>1, <3>2 DEF SubmitResult
  <2> QED
    BY <2>2, <2>3, <2>4, Assembled
<1>13. CASE FallbackCompletes(s)
  <2>1. /\ slot' \in [Slots -> Slot] /\ done' \in BOOLEAN
        /\ \A t \in Slots \ {s} : slot'[t] = slot[t]
        /\ slot'[s].src \in Sources
    BY <1>0, <1>13, Going DEF FallbackCompletes, Claimed, Phases
  <2>2. SwitchesTyped /\ Observe /\ Rest
    BY <1>0, <1>13, SrcKept DEF FallbackCompletes, Recorded, SwitchesTyped, TypeOK
  <2> QED
    BY <2>1, <2>2, Assembled
<1>14. CASE FallbackFails(s)
  <2>1. slot[s].src \in Sources
    BY <1>0, <1>14 DEF FallbackFails, Claimed
  <2>2. /\ slot' \in [Slots -> Slot] /\ done' \in BOOLEAN
        /\ \A t \in Slots \ {s} : slot'[t] = slot[t]
        /\ ~Claimed(s)'
    BY <1>0, <1>14, TickEnding DEF FallbackFails, Claimed
  <2>3. SwitchesTyped /\ Observe
    BY <1>0, <1>14, <2>1 DEF FallbackFails, Recorded, SwitchesTyped, TypeOK
  <2>4. Rest
    BY <1>0, <1>14, <2>1, SrcKept, Releasing DEF FallbackFails, Typed
  <2> QED
    BY <2>2, <2>3, <2>4, Assembled
<1>15. ASSUME NEW final \in BOOLEAN, FallbackRefused(s, final) PROVE Typed'
  <2>1. slot[s].src \in Sources
    BY <1>0, <1>15 DEF FallbackRefused, Claimed
  <2>2. /\ slot' \in [Slots -> Slot] /\ done' \in BOOLEAN
        /\ \A t \in Slots \ {s} : slot'[t] = slot[t]
        /\ ~Claimed(s)'
    BY <1>0, <1>15, TickEnding DEF FallbackRefused, Claimed
  <2>3. SwitchesTyped /\ Observe
    BY <1>0, <1>15 DEF FallbackRefused, SwitchesTyped, TypeOK
  <2>4. Rest
    BY <1>0, <1>15, <2>1, SrcKept, Releasing DEF FallbackRefused, Typed
  <2> QED
    BY <2>2, <2>3, <2>4, Assembled
<1> QED
  BY <1>1, <1>2, <1>3, <1>4, <1>5, <1>6, <1>7, <1>8, <1>9, <1>10, <1>11, <1>12, <1>13, <1>14,
     <1>15 DEF Step

-----------------------------------------------------------------------------
(* What a slot's step does, and what it has seen of the switches. *)

(* From a clear look at the switches to the call: a source claimed, held, checked. *)
Path == {"admitting", "holding", "checked", "inferring"}

(* A slot that enters the path, or goes on along it, leaves the switches alone, and
   what it leaves the path for depends on the run. *)
Forward(s) ==
  /\ slot'[s].phase \in Path => UNCHANGED <<settings, used>>
  /\ slot'[s].phase = "admitting" =>
       ~LocallyHeld /\ \A t \in Slots : slot[t].phase # "admitting"
  /\ slot'[s].phase = "holding" => slot[s].phase = "admitting"
  /\ slot'[s].phase = "checked" => slot[s].phase = "holding" /\ ~LocallyHeld
  /\ slot'[s].phase = "inferring" => slot[s].phase = "checked"
  /\ slot'[s].phase \in {"cleanup", "clearing"} => run = "gpt"

(* A wait is armed once, and a streak ends outside a wait. *)
Counts ==
  \/ UNCHANGED <<hits, waiting>>
  \/ ~waiting /\ waiting' /\ hits' = hits + 1
  \/ ~waiting /\ ~waiting' /\ hits' = 0

(* Only a call of the fallback is counted. *)
Spends(s) ==
  \/ UNCHANGED used
  \/ /\ run = "fallback" /\ slot[s].phase = "inferring"
     /\ used' \in {used, used + 1}
     /\ slot'[s].phase \notin Path

LEMMA SlotMoves ==
  ASSUME Typed, NEW s \in Slots, Step(s)
  PROVE  /\ Observe /\ UNCHANGED run
         /\ \A t \in Slots \ {s} : slot'[t] = slot[t]
         /\ slot[s].phase # "out"
         /\ Forward(s) /\ Counts /\ Spends(s)
<1> USE DEF Path
<1> DEFINE Kept == Observe /\ UNCHANGED run /\ slot[s].phase # "out"
           Others == \A t \in Slots \ {s} : slot'[t] = slot[t]
<1>0. TypeOK
  BY DEF Typed
<1>1. CASE LoopHead(s)
  <2>1. Others /\ slot'[s].phase \in {"out", "top", "scan"}
    <3>1. CASE done
      BY <1>0, <1>1, <3>1, Places DEF LoopHead, TypeOK
    <3>2. CASE ~done /\ ~enabled
      BY <1>0, <1>1, <3>2, TickEnding DEF LoopHead
    <3>3. CASE ~done /\ enabled
      BY <1>0, <1>1, <3>3, Going DEF LoopHead, Phases
    <3> QED
      BY <3>1, <3>2, <3>3
  <2>2. Kept /\ Counts /\ UNCHANGED used
    BY <1>1 DEF LoopHead, Counts, settings
  <2> QED
    BY <2>1, <2>2 DEF Forward, Spends
<1>2. CASE Scan(s)
  <2>1. Kept /\ Counts /\ UNCHANGED <<settings, used>>
    BY <1>2 DEF Scan, Counts, settings
  <2>2. CASE Clear /\ Go(s, "admitting")
    <3>1. Others /\ slot'[s].phase = "admitting" /\ ~LocallyHeld
      BY <1>0, <2>2, Going DEF Phases, Clear
    <3>2. \A t \in Slots : slot[t].phase # "admitting"
      BY <1>2 DEF Scan
    <3> QED
      BY <2>1, <3>1, <3>2 DEF Forward, Spends
  <2>3. CASE Blocked /\ TickEnds(s, TRUE)
    BY <1>0, <2>1, <2>3, TickEnding DEF Forward, Spends
  <2> QED
    BY <1>2, <2>2, <2>3 DEF Scan
<1>3. ASSUME NEW x \in Sources, Admit(s, x)
      PROVE  Kept /\ Others /\ Forward(s) /\ Counts /\ Spends(s)
  <2>1. Kept /\ Counts /\ UNCHANGED <<settings, used>> /\ slot[s].phase = "admitting"
    BY <1>3 DEF Admit, Counts, settings
  <2>2. Others /\ slot'[s].phase = "holding"
    BY <1>0, <1>3 DEF Admit, TypeOK, Slot
  <2> QED
    BY <2>1, <2>2 DEF Forward, Spends
<1>4. CASE \/ \E final \in BOOLEAN : AdmitNone(s, final)
           \/ CheckModel(s) \/ Cleanup(s) \/ SubmitResult(s)
           \/ \E final \in BOOLEAN : FallbackRefused(s, final)
  <2>1. Kept /\ Counts /\ UNCHANGED used
    BY <1>4 DEF AdmitNone, CheckModel, Cleanup, SubmitResult, FallbackRefused, Counts, settings
  <2>2. PICK final \in BOOLEAN : TickEnds(s, final)
    BY <1>4 DEF AdmitNone, CheckModel, Cleanup, SubmitResult, FallbackRefused
  <2>3. Others /\ slot'[s].phase \in {"out", "top"}
    BY <1>0, <2>2, TickEnding
  <2> QED
    BY <2>1, <2>3 DEF Forward, Spends
<1>5. CASE Check(s)
  <2>1. Kept /\ Counts /\ UNCHANGED <<settings, used>> /\ slot[s].phase = "holding"
    BY <1>5 DEF Check, Counts, settings
  <2>2. CASE Clear /\ Go(s, "checked")
    <3>1. Others /\ slot'[s].phase = "checked" /\ ~LocallyHeld
      BY <1>0, <2>2, Going DEF Phases, Clear
    <3> QED
      BY <2>1, <3>1 DEF Forward, Spends
  <2>3. CASE TickEnds(s, TRUE)
    BY <1>0, <2>1, <2>3, TickEnding DEF Forward, Spends
  <2> QED
    BY <1>5, <2>2, <2>3 DEF Check, Raises
<1>6. CASE Begin(s)
  <2>1. Kept /\ Counts /\ UNCHANGED <<settings, used>> /\ slot[s].phase = "checked"
    BY <1>6 DEF Begin, Counts, settings
  <2>2. Others /\ slot'[s].phase = "inferring"
    BY <1>0, <1>6, Going DEF Begin, Phases
  <2> QED
    BY <2>1, <2>2 DEF Forward, Spends
<1>7. CASE LimitHit(s) \/ PlanStop(s) \/ StreamFails(s)
  <2>1. Kept /\ UNCHANGED used /\ run = "gpt"
    BY <1>7 DEF LimitHit, PlanStop, StreamFails, settings
  <2>2. Others /\ slot'[s].phase = "cleanup"
    BY <1>0, <1>7 DEF LimitHit, PlanStop, StreamFails, TypeOK, Slot
  <2>3. Counts
    BY <1>7, Zenon DEF LimitHit, ArmsWait, PlanStop, StreamFails, Counts, settings
  <2> QED
    BY <2>1, <2>2, <2>3 DEF Forward, Spends
<1>8. CASE StreamCompletes(s)
  <2>1. Kept /\ Counts /\ UNCHANGED used /\ run = "gpt"
    BY <1>8 DEF StreamCompletes, Counts, settings
  <2>2. Others /\ slot'[s].phase \in {"submitting", "clearing"}
    BY <1>0, <1>8, Going DEF StreamCompletes, Phases
  <2> QED
    BY <2>1, <2>2 DEF Forward, Spends
<1>9. CASE LimitCleared(s)
  <2>1. Kept /\ UNCHANGED used
    BY <1>9 DEF LimitCleared
  <2>2. Others /\ slot'[s].phase = "submitting"
    BY <1>0, <1>9, Going DEF LimitCleared, Phases
  <2>3. Counts
    BY <1>9, Zenon DEF LimitCleared, StreakEnds, Counts
  <2> QED
    BY <2>1, <2>2, <2>3 DEF Forward, Spends
<1>10. CASE FallbackCompletes(s) \/ FallbackFails(s)
  <2>1. Kept /\ Counts /\ run = "fallback" /\ slot[s].phase = "inferring"
    BY <1>10 DEF FallbackCompletes, FallbackFails, Counts, settings
  <2>2. used' \in {used, used + 1}
    BY <1>10 DEF FallbackCompletes, FallbackFails, Recorded
  <2>3. Others /\ slot'[s].phase \in {"out", "top", "submitting"}
    <3>1. CASE FallbackCompletes(s)
      BY <1>0, <3>1, Going DEF FallbackCompletes, Phases
    <3>2. CASE FallbackFails(s)
      BY <1>0, <3>2, TickEnding DEF FallbackFails
    <3> QED
      BY <1>10, <3>1, <3>2
  <2> QED
    BY <2>1, <2>2, <2>3 DEF Forward, Spends
<1> QED
  BY <1>1, <1>2, <1>3, <1>4, <1>5, <1>6, <1>7, <1>8, <1>9, <1>10 DEF Step

-----------------------------------------------------------------------------
(* What the rest of the system does: starts and ends of a run, the owner, time. *)

Around == Start \/ StartSmoke \/ RunEnds \/ Crash \/ Owner \/ Clock

(* No slot stands further than at the head of its loop. *)
Resting == \A s \in Slots : slot[s].phase \in {"out", "top", "scan"}

LEMMA OneSlot == (CHOOSE s \in Slots : TRUE) \in Slots
BY RunConstants

(* The slots of a run that starts. *)
LEMMA Starting ==
  ASSUME Typed, SlotsOfRun, Start \/ StartSmoke
  PROVE  /\ slot' \in [Slots -> Slot] /\ Resting' /\ SlotsOfRun'
         /\ run' \in {"gpt", "fallback"}
<1> DEFINE one == CHOOSE s \in Slots : TRUE
<1>0. one \in Slots /\ slot \in [Slots -> Slot]
  BY OneSlot DEF Typed, TypeOK
<1>1. run' = Mode /\ Mode \in {"gpt", "fallback"}
  BY DEF Start, StartSmoke, Mode
<1>2. CASE Start
  <2>1. slot' = [s \in Slots |-> IF s \in Parallel(Mode) THEN Top ELSE Out]
    BY <1>2 DEF Start
  <2>2. slot' \in [Slots -> Slot] /\ Resting'
    BY <2>1, Places DEF Resting
  <2>3. run' = "fallback" => \A s \in Slots : slot'[s].phase # "out" => s = one
    BY <1>1, <2>1, Places DEF Parallel
  <2> QED
    BY <1>1, <2>2, <2>3 DEF SlotsOfRun
<1>3. CASE StartSmoke
  <2>1. slot' = [slot EXCEPT ![one] = [Top EXCEPT !.phase = "scan"]]
    BY <1>3 DEF StartSmoke
  <2>2. \A s \in Slots : slot[s].phase = "out"
    BY <1>3 DEF StartSmoke, SlotsOfRun
  <2> HIDE DEF one
  <2>3. slot' \in [Slots -> Slot] /\ Resting'
    BY <1>0, <2>1, <2>2, Places DEF Resting
  <2>4. \A s \in Slots : slot'[s].phase # "out" => s = one
    BY <1>0, <2>1, <2>2
  <2> QED
    BY <1>1, <2>3, <2>4 DEF SlotsOfRun
<1> QED
  BY <1>2, <1>3

(* A lease that ends takes the holder away. *)
LEMMA Expiring ==
  ASSUME Typed, NEW x \in Sources, LeaseExpires(x)
  PROVE  src' \in [Sources -> Source] /\ Charged'
<1>1. src' = [src EXCEPT ![x].state = "ready", ![x].holder = None]
  BY DEF LeaseExpires
<1> QED
  BY <1>1, RunConstants DEF Typed, TypeOK, Charged, Source

LEMMA AroundMoves ==
  ASSUME Typed, SlotsOfRun, Around
  PROVE  /\ Observe /\ slot' \in [Slots -> Slot]
         /\ Resting' \/ UNCHANGED <<slot, run>>
         /\ SlotsOfRun'
         /\ used' \in {used, 0}
         /\ UNCHANGED hits \/ hits' = 0
<1> USE DEF settings
<1>0. slot \in [Slots -> Slot]
  BY DEF Typed, TypeOK
<1>1. CASE Start \/ StartSmoke
  <2>1. Observe /\ used' = used /\ hits' = hits
    BY <1>1 DEF Start, StartSmoke
  <2> QED
    BY <1>1, <2>1, Starting
<1>2. CASE RunEnds
  <2>1. Observe /\ UNCHANGED <<used, hits, slot>> /\ \A s \in Slots : slot[s].phase = "out"
    BY <1>2 DEF RunEnds
  <2>2. run' = "none"
    BY <1>2 DEF RunEnds
  <2> QED
    BY <1>0, <2>1, <2>2 DEF Resting, SlotsOfRun
<1>3. CASE Crash
  <2>1. Observe /\ UNCHANGED <<used, hits>>
    BY <1>3 DEF Crash
  <2>2. run' = "none" /\ slot' = [s \in Slots |-> Out]
    BY <1>3 DEF Crash
  <2> QED
    BY <2>1, <2>2, Places DEF Resting, SlotsOfRun
<1>4. CASE Owner \/ Clock
  <2>1. Observe /\ UNCHANGED <<slot, run>>
    BY <1>4 DEF Owner, Clock, OwnerPause, OwnerSave, OwnerEnables, OwnerSwitchesFallback,
                SiteSwitches, SiteAnswerExpires, WaitElapses, NewDay, LeaseExpires
  <2>2. used' \in {used, 0} /\ (UNCHANGED hits \/ hits' = 0)
    BY <1>4 DEF Owner, Clock, OwnerPause, OwnerSave, OwnerEnables, OwnerSwitchesFallback,
                SiteSwitches, SiteAnswerExpires, WaitElapses, NewDay, LeaseExpires
  <2> QED
    BY <1>0, <2>1, <2>2 DEF SlotsOfRun
<1> QED
  BY <1>1, <1>2, <1>3, <1>4 DEF Around

(* Nothing around the slots admits or begins for them. *)
LEMMA NoneBegins ==
  ASSUME Resting' \/ UNCHANGED <<slot, run>>, NEW s \in Slots
  PROVE  ~Admits(s) /\ ~Begins(s)
BY DEF Resting, Admits, Begins

LEMMA AroundTyped ==
  ASSUME Typed, SlotsOfRun, Around
  PROVE  Typed'
<1> USE DEF settings
<1>0. TypeOK /\ MaxEdits \in Nat
  BY RunConstants DEF Typed
<1>1. windows' \in Nat /\ late' \in [Slots -> Nat] /\ lateClaims' \in Nat
  <2>1. \A t \in Slots : Admits(t) => t = None
    BY AroundMoves, NoneBegins
  <2> QED
    BY <2>1, AroundMoves, HistoryTyped DEF Typed
<1>2. slot' \in [Slots -> Slot] /\ Placed'
  BY AroundMoves DEF Resting, Placed, Typed, Claimed
<1>3. used' \in Nat
  BY <1>0, AroundMoves DEF TypeOK
<1>4. hits' \in 0..MaxHits
  BY <1>0, AroundMoves, RunConstants DEF TypeOK
<1>5. src' \in [Sources -> Source] /\ Charged'
  <2>1. CASE UNCHANGED src
    BY <2>1, SrcKept
  <2>2. ASSUME NEW x \in Sources, LeaseExpires(x) PROVE src' \in [Sources -> Source] /\ Charged'
    BY <2>2, Expiring
  <2> QED
    BY <2>1, <2>2 DEF Around, Start, StartSmoke, RunEnds, Crash, Owner, Clock, OwnerPause,
         OwnerSave, OwnerEnables, OwnerSwitchesFallback, SiteSwitches, SiteAnswerExpires,
         WaitElapses, NewDay
<1>6. edits' \in 0..MaxEdits
  <2>1. edits' = edits \/ (edits < MaxEdits /\ edits' = edits + 1)
    BY DEF Around, Start, StartSmoke, RunEnds, Crash, Owner, Clock, Edit, OwnerPause,
         OwnerSave, OwnerEnables, OwnerSwitchesFallback, SiteSwitches, SiteAnswerExpires,
         WaitElapses, NewDay, LeaseExpires
  <2> QED
    BY <1>0, <2>1 DEF TypeOK
<1>7. run' \in {"none", "gpt", "fallback"}
  BY <1>0 DEF TypeOK, Mode, Around, Start, StartSmoke, RunEnds, Crash, Owner, Clock, OwnerPause,
       OwnerSave, OwnerEnables, OwnerSwitchesFallback, SiteSwitches, SiteAnswerExpires,
       WaitElapses, NewDay, LeaseExpires
<1>8. /\ enabled' \in BOOLEAN /\ waiting' \in BOOLEAN /\ fallback' \in BOOLEAN
      /\ pause' \in {"none", "owner", "plan"} /\ skipped' \subseteq Sources
      /\ site' \in BOOLEAN /\ cache' \in {"paused", "clear", "stale"}
      /\ smoke' \in BOOLEAN /\ done' \in BOOLEAN
  <2>1. CASE Start \/ StartSmoke \/ RunEnds \/ Crash
    BY <1>0, <2>1 DEF TypeOK, Start, StartSmoke, RunEnds, Crash
  <2>2. CASE Owner
    BY <1>0, <2>2 DEF TypeOK, Owner, OwnerPause, OwnerSave, OwnerEnables,
         OwnerSwitchesFallback, SiteSwitches
  <2>3. CASE Clock
    BY <1>0, <2>3 DEF TypeOK, Clock, SiteAnswerExpires, WaitElapses, NewDay, LeaseExpires
  <2> QED
    BY <2>1, <2>2, <2>3 DEF Around
<1> QED
  BY <1>1, <1>2, <1>3, <1>4, <1>5, <1>6, <1>7, <1>8 DEF Typed, TypeOK

-----------------------------------------------------------------------------
(* The slots of a run, and the scan lock. *)

LEMMA SlotsKept ==
  ASSUME Typed, OneScan, SlotsOfRun, EndsOfGPT, Around \/ \E s \in Slots : Step(s)
  PROVE  OneScan' /\ SlotsOfRun' /\ EndsOfGPT'
<1>1. CASE Around
  BY <1>1, AroundMoves DEF Resting, OneScan, EndsOfGPT
<1>2. ASSUME NEW s \in Slots, Step(s) PROVE OneScan' /\ SlotsOfRun' /\ EndsOfGPT'
  <2>1. /\ UNCHANGED run /\ Forward(s) /\ slot[s].phase # "out"
        /\ \A t \in Slots \ {s} : slot'[t] = slot[t]
    BY <1>2, SlotMoves
  <2>2. OneScan'
    BY <2>1 DEF OneScan, Forward
  <2>3. SlotsOfRun'
    BY <2>1 DEF SlotsOfRun
  <2>4. EndsOfGPT'
    BY <2>1 DEF EndsOfGPT, Forward
  <2> QED
    BY <2>2, <2>3, <2>4
<1> QED
  BY <1>1, <1>2

-----------------------------------------------------------------------------
(* A stop catches the slots. *)

(* A switch that stops the queue is one that held() sees. *)
LEMMA HeldIsSeen ==
  ASSUME ~LocallyHeld, UNCHANGED <<settings, run>>
  PROVE  ~Held'
BY DEF LocallyHeld, Held, settings

LEMMA StepCaught ==
  ASSUME Typed, OneScan, Caught, StopBounded, NEW s \in Slots, Step(s)
  PROVE  Caught' /\ StopBounded'
<1>1. /\ Observe /\ UNCHANGED run /\ Forward(s)
      /\ \A t \in Slots \ {s} : slot'[t] = slot[t]
  BY SlotMoves
<1>2. TypeOK /\ \A t \in Slots : Admits(t) => t = s
  BY <1>1, OnlyOne DEF Typed
<1>3. /\ \A t \in Slots : late'[t] = IF ~Held' \/ run' = "none" THEN 0
                                     ELSE late[t] + (IF Begins(t) THEN 1 ELSE 0)
      /\ lateClaims' \in Nat
      /\ ~Held' \/ run' = "none" => lateClaims' = 0
      /\ lateClaims' > lateClaims => lateClaims' = lateClaims + 1 /\ Admits(s)
  BY <1>1, <1>2, Observing
<1>4. lateClaims \in Nat /\ late \in [Slots -> Nat]
  BY <1>2 DEF TypeOK
<1>5. ASSUME slot'[s].phase \in {"admitting", "checked"} PROVE ~Held'
  BY <1>1, <1>5, HeldIsSeen DEF Forward, Path
<1>6. Admits(s) => lateClaims = 0
  BY <1>4 DEF Caught, Admits
<1>7. lateClaims' <= 1
  BY <1>3, <1>4, <1>6 DEF StopBounded
<1>8. ASSUME lateClaims' > 0, NEW t \in Slots, slot'[t].phase = "admitting" PROVE FALSE
  <2>1. Held' /\ t # s
    BY <1>3, <1>5, <1>8
  <2>2. slot[t].phase = "admitting" /\ lateClaims = 0
    BY <1>1, <1>4, <1>8, <2>1 DEF Caught
  <2>3. Admits(s)
    BY <1>3, <1>8, <2>2
  <2> QED
    BY <2>1, <2>2, <2>3 DEF Admits, OneScan
<1>9. ASSUME NEW t \in Slots
      PROVE  late'[t] <= 1 /\ (late'[t] > 0 => slot'[t].phase # "checked")
  <2>1. late[t] \in Nat /\ late[t] <= 1 /\ (late[t] > 0 => slot[t].phase # "checked")
    BY <1>4 DEF StopBounded, Caught
  <2>2. CASE ~Held' \/ run' = "none"
    BY <1>3, <2>2
  <2>3. CASE Held' /\ run' # "none"
    <3>1. late'[t] = late[t] + (IF Begins(t) THEN 1 ELSE 0)
      BY <1>3, <2>3
    <3>2. CASE Begins(t)
      BY <2>1, <3>1, <3>2 DEF Begins
    <3>3. CASE ~Begins(t)
      <4>1. late'[t] = late[t]
        BY <2>1, <3>1, <3>3
      <4>2. slot'[t].phase = "checked" => t # s
        BY <1>5, <2>3
      <4> QED
        BY <1>1, <2>1, <4>1, <4>2
    <3> QED
      BY <3>2, <3>3
  <2> QED
    BY <2>2, <2>3
<1> QED
  BY <1>3, <1>4, <1>7, <1>8, <1>9 DEF Caught, StopBounded

LEMMA AroundCaught ==
  ASSUME Typed, SlotsOfRun, Caught, StopBounded, Around
  PROVE  Caught' /\ StopBounded'
<1>1. Observe /\ (Resting' \/ UNCHANGED <<slot, run>>) /\ TypeOK
  BY AroundMoves DEF Typed
<1>2. \A t \in Slots : ~Admits(t) /\ ~Begins(t)
  BY <1>1, NoneBegins
<1>3. \A t \in Slots : Admits(t) => t = None
  BY <1>2
<1>4. /\ \A t \in Slots : late'[t] = IF ~Held' \/ run' = "none" THEN 0
                                     ELSE late[t] + (IF Begins(t) THEN 1 ELSE 0)
      /\ lateClaims' \in Nat
      /\ ~Held' \/ run' = "none" => lateClaims' = 0
      /\ ~(lateClaims' > lateClaims)
  BY <1>1, <1>2, <1>3, Observing
<1>5. lateClaims \in Nat /\ late \in [Slots -> Nat]
  BY <1>1 DEF TypeOK
<1>6. \A t \in Slots : late'[t] \in {0, late[t]}
  BY <1>2, <1>4, <1>5
<1>7. lateClaims' <= lateClaims
  BY <1>4, <1>5
<1>8. ~Held' \/ run' = "none" => lateClaims' = 0 /\ \A t \in Slots : late'[t] = 0
  BY <1>4
<1>9. lateClaims' > 0 => \A t \in Slots : slot'[t].phase # "admitting"
  BY <1>1, <1>4, <1>5, <1>7 DEF Caught, Resting
<1>10. \A t \in Slots : late'[t] > 0 => slot'[t].phase # "checked"
  BY <1>1, <1>5, <1>6 DEF Caught, Resting
<1>11. StopBounded'
  BY <1>4, <1>5, <1>6, <1>7 DEF StopBounded
<1> QED
  BY <1>8, <1>9, <1>10, <1>11 DEF Caught

-----------------------------------------------------------------------------
(* Hits and waits. *)

LEMMA HitsKept ==
  ASSUME TypeOK, Typed', HitsWaited, Observe, Counts \/ (waiting /\ ~waiting' /\ UNCHANGED hits)
         \/ hits' = 0
  PROVE  HitsWaited'
<1>1. /\ windows' \in Nat /\ hits' \in Nat
      /\ windows' = IF hits' = 0 THEN 0
                    ELSE IF waiting /\ ~waiting' THEN windows + 1 ELSE windows
  BY CountingWindows DEF Typed, TypeOK
<1>2. hits \in Nat /\ windows \in Nat
  BY DEF TypeOK
<1>3. CASE hits' = 0
  BY <1>1, <1>3 DEF HitsWaited
<1>4. CASE hits' # 0 /\ UNCHANGED <<hits, waiting>>
  <2>1. hits' = hits /\ windows' = windows /\ (waiting' <=> waiting)
    BY <1>1, <1>4
  <2> QED
    BY <2>1 DEF HitsWaited
<1>5. CASE hits' # 0 /\ ~waiting /\ waiting' /\ hits' = hits + 1
  BY <1>1, <1>2, <1>5 DEF HitsWaited
<1>6. CASE hits' # 0 /\ waiting /\ ~waiting' /\ UNCHANGED hits
  BY <1>1, <1>2, <1>6 DEF HitsWaited
<1> QED
  BY <1>3, <1>4, <1>5, <1>6 DEF Counts

LEMMA AroundCounts ==
  ASSUME Around
  PROVE  Counts \/ (waiting /\ ~waiting' /\ UNCHANGED hits) \/ hits' = 0
<1>1. CASE Start \/ StartSmoke \/ RunEnds \/ Crash
  BY <1>1 DEF Start, StartSmoke, RunEnds, Crash, Counts, settings
<1>2. CASE Owner
  BY <1>2 DEF Owner, OwnerPause, OwnerSave, OwnerEnables, OwnerSwitchesFallback, SiteSwitches,
              Counts, settings
<1>3. CASE Clock
  BY <1>3 DEF Clock, SiteAnswerExpires, WaitElapses, NewDay, LeaseExpires, Counts, settings
<1> QED
  BY <1>1, <1>2, <1>3 DEF Around

-----------------------------------------------------------------------------
(* The cap. *)

LEMMA StepWithinCap ==
  ASSUME Typed, SlotsOfRun, RoomAhead, FallbackWithinCap, NEW s \in Slots, Step(s)
  PROVE  RoomAhead' /\ FallbackWithinCap'
<1>1. /\ UNCHANGED run /\ Forward(s) /\ Spends(s) /\ slot[s].phase # "out"
      /\ \A t \in Slots \ {s} : slot'[t] = slot[t]
  BY SlotMoves
<1>2. used \in Nat /\ FallbackCap \in Nat
  BY RunConstants DEF Typed, TypeOK
<1>3. run = "fallback" => \A t \in Slots \ {s} : slot[t].phase = "out"
  BY <1>1 DEF SlotsOfRun
<1>4. ASSUME run = "fallback", slot'[s].phase \in Path PROVE used' < FallbackCap
  <2>1. UNCHANGED used
    BY <1>1, <1>4 DEF Forward
  <2>2. used < FallbackCap
    <3>1. CASE ~LocallyHeld
      BY <1>2, <1>4, <3>1 DEF LocallyHeld
    <3>2. CASE slot[s].phase \in Path
      BY <1>4, <3>2 DEF RoomAhead, Path
    <3> QED
      BY <1>1, <1>4, <3>1, <3>2 DEF Forward, Path
  <2> QED
    BY <2>1, <2>2
<1>5. RoomAhead'
  BY <1>1, <1>3, <1>4 DEF RoomAhead, Path
<1>6. FallbackWithinCap'
  <2>1. CASE UNCHANGED used
    BY <2>1 DEF FallbackWithinCap
  <2>2. CASE run = "fallback" /\ slot[s].phase = "inferring" /\ used' \in {used, used + 1}
    <3>1. used < FallbackCap
      BY <2>2 DEF RoomAhead
    <3> QED
      BY <1>2, <2>2, <3>1 DEF FallbackWithinCap
  <2> QED
    BY <1>1, <2>1, <2>2 DEF Spends
<1> QED
  BY <1>5, <1>6

LEMMA AroundWithinCap ==
  ASSUME Typed, SlotsOfRun, RoomAhead, FallbackWithinCap, Around
  PROVE  RoomAhead' /\ FallbackWithinCap'
<1>1. /\ Resting' \/ UNCHANGED <<slot, run>>
      /\ used' \in {used, 0}
  BY AroundMoves
<1>2. used \in Nat /\ FallbackCap \in Nat
  BY RunConstants DEF Typed, TypeOK
<1> QED
  BY <1>1, <1>2 DEF RoomAhead, FallbackWithinCap, Resting

-----------------------------------------------------------------------------
(* The invariant. *)

LEMMA InitHolds == Init => IInv
<1> SUFFICES ASSUME Init PROVE IInv
  OBVIOUS
<1> DEFINE row == [state |-> "ready", attempts |-> 0, holder |-> None, byFallback |-> FALSE]
<1>1. /\ slot \in [Slots -> Slot] /\ \A s \in Slots : slot[s].phase = "out"
  BY Places DEF Init
<1>2. row \in Source
  BY DEF Source
<1>3. src \in [Sources -> Source] /\ Charged
  BY <1>2, RunConstants DEF Init, Charged
<1>4. TypeOK
  <2>1. /\ enabled \in BOOLEAN /\ waiting \in BOOLEAN /\ fallback \in BOOLEAN
        /\ site \in BOOLEAN /\ smoke \in BOOLEAN /\ done \in BOOLEAN
    BY DEF Init
  <2>2. hits \in 0..MaxHits /\ edits \in 0..MaxEdits
    BY RunConstants DEF Init
  <2> QED
    BY <1>1, <1>3, <2>1, <2>2 DEF Init, TypeOK
<1>5. Placed /\ OneScan /\ SlotsOfRun /\ EndsOfGPT /\ RoomAhead
  BY <1>1 DEF Placed, Claimed, OneScan, SlotsOfRun, EndsOfGPT, RoomAhead
<1>6. Caught /\ StopBounded
  BY <1>1 DEF Init, Caught, StopBounded
<1>7. HitsWaited /\ FallbackWithinCap
  BY RunConstants DEF Init, HitsWaited, FallbackWithinCap
<1> QED
  BY <1>3, <1>4, <1>5, <1>6, <1>7 DEF IInv

LEMMA Stutters == IInv /\ UNCHANGED vars => IInv'
<1> SUFFICES ASSUME IInv, UNCHANGED vars PROVE IInv'
  OBVIOUS
<1>1. (Held' <=> Held) /\ \A s \in Slots : Claimed(s)' <=> Claimed(s)
  BY DEF Held, Claimed, vars, settings, history
<1>2. TypeOK'
  <2>1. /\ enabled' \in BOOLEAN /\ waiting' \in BOOLEAN /\ fallback' \in BOOLEAN
        /\ site' \in BOOLEAN /\ smoke' \in BOOLEAN /\ done' \in BOOLEAN
    BY Zenon DEF IInv, TypeOK, vars, settings, history
  <2>2. /\ hits' = hits /\ pause' = pause /\ used' = used /\ skipped' = skipped
        /\ cache' = cache /\ run' = run /\ slot' = slot /\ src' = src /\ edits' = edits
        /\ windows' = windows /\ late' = late /\ lateClaims' = lateClaims
    BY DEF vars, settings, history
  <2> QED
    BY <2>1, <2>2 DEF IInv, TypeOK
<1>3. Placed' /\ Charged' /\ OneScan' /\ SlotsOfRun' /\ EndsOfGPT'
  BY <1>1 DEF IInv, Placed, Charged, OneScan, SlotsOfRun, EndsOfGPT, vars, settings, history
<1>4. Caught' /\ StopBounded'
  <2>1. run' = run /\ slot' = slot /\ late' = late /\ lateClaims' = lateClaims
    BY DEF vars, history
  <2> QED
    BY <1>1, <2>1 DEF IInv, Caught, StopBounded
<1>5. RoomAhead' /\ FallbackWithinCap'
  BY DEF IInv, RoomAhead, FallbackWithinCap, vars, settings, history
<1>6. HitsWaited'
  <2>1. hits' = hits /\ windows' = windows /\ (waiting' <=> waiting)
    BY DEF vars, settings, history
  <2> QED
    BY <2>1 DEF IInv, HitsWaited
<1> QED
  BY <1>2, <1>3, <1>4, <1>5, <1>6 DEF IInv

LEMMA NextKeeps == IInv /\ [Next]_vars => IInv'
<1> SUFFICES ASSUME IInv, Around \/ \E s \in Slots : Step(s) PROVE IInv'
  BY Stutters DEF Next, Around
<1>1. Typed /\ TypeOK
  BY DEF IInv, Typed
<1>2. OneScan' /\ SlotsOfRun' /\ EndsOfGPT'
  BY <1>1, SlotsKept DEF IInv
<1>3. CASE Around
  <2>1. Typed'
    BY <1>1, <1>3, AroundTyped DEF IInv
  <2>2. Caught' /\ StopBounded'
    BY <1>1, <1>3, AroundCaught DEF IInv
  <2>3. HitsWaited'
    BY <1>1, <1>3, <2>1, AroundMoves, AroundCounts, HitsKept DEF IInv
  <2>4. RoomAhead' /\ FallbackWithinCap'
    BY <1>1, <1>3, AroundWithinCap DEF IInv
  <2> QED
    BY <1>2, <2>1, <2>2, <2>3, <2>4 DEF IInv, Typed
<1>4. ASSUME NEW s \in Slots, Step(s) PROVE IInv'
  <2>1. Typed'
    BY <1>1, <1>4, StepTyped
  <2>2. Caught' /\ StopBounded'
    BY <1>1, <1>4, StepCaught DEF IInv
  <2>3. HitsWaited'
    BY <1>1, <1>4, <2>1, SlotMoves, HitsKept DEF IInv
  <2>4. RoomAhead' /\ FallbackWithinCap'
    BY <1>1, <1>4, StepWithinCap DEF IInv
  <2> QED
    BY <1>2, <2>1, <2>2, <2>3, <2>4 DEF IInv, Typed
<1> QED
  BY <1>3, <1>4

-----------------------------------------------------------------------------
(* What holds of every run of the worker. *)

(* The invariant holds, whatever the slots, the owner, the clock and a crash do:
   types, the attempt behind every claim, the scan lock, and the parts below. *)
THEOREM Inductive == Spec => []IInv
<1>1. Init => IInv
  BY InitHolds
<1>2. IInv /\ [Next]_vars => IInv'
  BY NextKeeps
<1> QED
  BY <1>1, <1>2, PTL DEF Spec

(* A stop or a limit wait that begins during a run catches its slots wherever they
   stand: one claim at most still passes the scan lock, and no slot begins a
   second inference, however many slots there are. *)
THEOREM StopCatches == Spec => []StopBounded
<1>1. IInv => StopBounded
  BY DEF IInv
<1> QED
  BY <1>1, Inductive, PTL

(* However many slots meet the plan's limit, the streak counts the waits that
   were armed and never the rejections. *)
THEOREM HitsMatchWaits == Spec => []OneHitPerWait
<1>1. IInv => OneHitPerWait
  <2>1. IInv => hits \in Nat /\ windows \in Nat /\ HitsWaited
    BY DEF IInv, TypeOK
  <2> QED
    BY <2>1 DEF HitsWaited, OneHitPerWait
<1> QED
  BY <1>1, Inductive, PTL

(* The fallback's requests of a day stay within its cap. *)
THEOREM CapKept == Spec => []FallbackWithinCap
<1>1. IInv => FallbackWithinCap
  BY DEF IInv
<1> QED
  BY <1>1, Inductive, PTL

(* Neither a success that began before the limit nor one of the fallback ends a
   limit wait: time does, or the owner's save between two runs. *)
THEOREM WaitsStand == Spec => WaitStands
<1>1. ASSUME NEW s \in Slots, Step(s), TypeOK, Placed, Charged, waiting, ~waiting' PROVE FALSE
  BY <1>1, SlotMoves, Zenon DEF Counts, Typed
<1>2. ASSUME Around, waiting, ~waiting' PROVE hits' = hits \/ run = "none"
  <2>1. CASE Start \/ StartSmoke \/ RunEnds \/ Crash
    BY <1>2, <2>1 DEF Start, StartSmoke, RunEnds, Crash, settings
  <2>2. CASE Owner
    BY <1>2, <2>2 DEF Owner, OwnerPause, OwnerSave, OwnerEnables, OwnerSwitchesFallback,
                      SiteSwitches, settings
  <2>3. CASE Clock
    BY <1>2, <2>3 DEF Clock, SiteAnswerExpires, WaitElapses, NewDay, LeaseExpires, settings
  <2> QED
    BY <1>2, <2>1, <2>2, <2>3 DEF Around
<1>3. IInv /\ [Next]_vars => [waiting /\ ~waiting' => hits' = hits \/ run = "none"]_vars
  BY <1>1, <1>2 DEF Next, Around, IInv
<1> QED
  BY <1>3, Inductive, PTL DEF Spec, WaitStands

(* A release marks its source only in the fallback, when it returns nothing. *)
LEMMA Marking ==
  ASSUME TypeOK, NEW s \in Slots, NEW refund \in BOOLEAN, NEW cancel \in BOOLEAN,
         Release(s, refund, cancel), NEW x \in Sources,
         src'[x].byFallback, ~src[x].byFallback
  PROVE  slot[s].src = x /\ src[x].holder = s /\ ~refund /\ ~cancel /\ run = "fallback"
<1>1. src \in [Sources -> Source]
  BY DEF TypeOK
<1>2. Owns(s)
  BY Zenon DEF Release
<1> DEFINE y == Released(src[slot[s].src], refund, cancel)
<1>3. src' = [src EXCEPT ![slot[s].src] = y]
  BY <1>2 DEF Release
<1> HIDE DEF y
<1>4. slot[s].src = x
  BY <1>1, <1>3, Zenon
<1>5. src'[x] = y
  BY <1>1, <1>3, <1>4
<1>6. y.byFallback = (src[x].byFallback \/ (~refund /\ ~cancel /\ run = "fallback"))
  BY <1>1, <1>4, Zenon DEF y, Released, Source
<1> QED
  BY <1>2, <1>4, <1>5, <1>6, Zenon DEF Owns

(* Who marks a source at all. *)
LEMMA Costs ==
  ASSUME IInv, [Next]_vars, NEW x \in Sources, src'[x].byFallback, ~src[x].byFallback
  PROVE  \E s \in Slots : slot[s].phase = "submitting" /\ slot[s].src = x /\ src[x].holder = s
<1>0. TypeOK /\ src \in [Sources -> Source] /\ EndsOfGPT
  BY DEF IInv, TypeOK
<1>1. ~UNCHANGED src
  OBVIOUS
<1>2. ASSUME NEW s \in Slots, Step(s)
      PROVE  slot[s].phase = "submitting" /\ slot[s].src = x /\ src[x].holder = s
  <2>1. CASE \E y \in Sources : Admit(s, y)
    BY <1>0, <2>1 DEF Admit, Source
  <2>2. CASE Check(s)
    <3>1. Release(s, pause # "owner", pause = "owner")
      BY <1>1, <2>2 DEF Check
    <3>2. (pause # "owner") \in BOOLEAN /\ (pause = "owner") \in BOOLEAN
      OBVIOUS
    <3> QED
      BY <1>0, <3>1, <3>2, Marking
  <2>3. CASE CheckModel(s)
    BY <1>0, <2>3, Marking DEF CheckModel
  <2>4. CASE Cleanup(s)
    <3>1. Release(s, slot[s].refund, FALSE) /\ slot[s].refund \in BOOLEAN /\ run = "gpt"
      BY <1>0, <1>1, <2>4 DEF Cleanup, EndsOfGPT, TypeOK, Slot
    <3> QED
      BY <1>0, <3>1, Marking
  <2>5. CASE FallbackFails(s) \/ \E final \in BOOLEAN : FallbackRefused(s, final)
    BY <1>0, <1>1, <2>5, Marking DEF FallbackFails, FallbackRefused
  <2>6. CASE SubmitResult(s)
    <3>1. CASE Release(s, FALSE, FALSE)
      BY <1>0, <2>6, <3>1, Marking DEF SubmitResult
    <3>2. CASE src' = [src EXCEPT ![slot[s].src].state = "done", ![slot[s].src].holder = None]
      BY <1>0, <3>2 DEF Source
    <3> QED
      BY <2>6, <3>1, <3>2 DEF SubmitResult
  <2>7. CASE \/ LoopHead(s) \/ Scan(s) \/ Begin(s) \/ LimitHit(s) \/ PlanStop(s)
             \/ StreamFails(s) \/ StreamCompletes(s) \/ LimitCleared(s)
             \/ FallbackCompletes(s) \/ \E final \in BOOLEAN : AdmitNone(s, final)
    BY <1>1, <2>7 DEF LoopHead, Scan, Begin, LimitHit, PlanStop, StreamFails, StreamCompletes,
                      LimitCleared, FallbackCompletes, AdmitNone
  <2> QED
    BY <1>2, <2>1, <2>2, <2>3, <2>4, <2>5, <2>6, <2>7 DEF Step
<1>3. ASSUME Around \/ UNCHANGED vars PROVE FALSE
  <2>1. CASE \E y \in Sources : LeaseExpires(y)
    BY <1>0, <2>1 DEF LeaseExpires, Source
  <2>2. CASE Start \/ StartSmoke \/ RunEnds \/ Crash \/ Owner \/ UNCHANGED vars
    BY <1>1, <2>2 DEF Start, StartSmoke, RunEnds, Crash, Owner, OwnerPause, OwnerSave,
                      OwnerEnables, OwnerSwitchesFallback, SiteSwitches, vars
  <2>3. CASE SiteAnswerExpires \/ WaitElapses \/ NewDay
    BY <1>1, <2>3 DEF SiteAnswerExpires, WaitElapses, NewDay
  <2> QED
    BY <1>3, <2>1, <2>2, <2>3 DEF Around, Clock
<1> QED
  BY <1>2, <1>3 DEF Next, Around

(* A failed run of the model, a throttle, a cooldown, a missing program, a short lease,
   a hold before the call: the release after each returns GPT its attempt, or cancels
   the source for the owner.  Only the release of a completed result that the store
   refuses does neither. *)
THEOREM AttemptsReturned == Spec => OnlyRefusalsCost
<1>1. IInv /\ [Next]_vars =>
        [\A x \in Sources :
           src'[x].byFallback /\ ~src[x].byFallback =>
             \E s \in Slots :
               slot[s].phase = "submitting" /\ slot[s].src = x /\ src[x].holder = s]_vars
  BY Costs
<1> QED
  BY <1>1, Inductive, PTL DEF Spec, OnlyRefusalsCost
=============================================================================
