--------------------------- MODULE LocalJobsProofs ---------------------------
(* Proofs about LocalJobs: the jobs are one instance of what ResearchPoller
   assumes of the others, a fallback call fits the lease of its claim, a
   claimed genre request has one poller, and one job at a time is in a call. *)
EXTENDS LocalJobs, ResearchPollerProofs

(* A poller's place and its request agree with each other and with the table. *)
AtWork(p) ==
  IF poller[p].phase \in {"off", "claim"} THEN poller[p].request = None
  ELSE poller[p].request \in Genre /\ genre[poller[p].request] = "claimed"

(* A call began with the margin left and is bounded by its own time. *)
OnTime(s) == slot[s].phase = "call" => slot[s].age + Margin <= Lease + slot[s].time

-----------------------------------------------------------------------------
(* A step of a job is one of ResearchPoller's steps, or none of its variables
   changes. *)

LEMMA JobStep ==
  ASSUME [JobsNext]_all
  PROVE  [Next]_vars
<1>1. ASSUME NEW p \in Pollers,
             GenreStart(p) \/ GenreStep(p) \/ BackfillSucceeds(p) \/ BackfillFails(p) \/ GenreDies(p)
      PROVE  [Next]_vars
  BY <1>1 DEF GenreStart, GenreStep, GenreClaim, GenreCalls, GenreAnswered, GenreEnd,
              BackfillSucceeds, BackfillFails, GenreDies, Takes, LetsGo, Dies, Next
<1>2. ASSUME NEW s \in Slots, FallbackClaim(s) \/ FallbackStep(s) \/ FallbackDies(s)
      PROVE  [Next]_vars
  BY <1>2 DEF FallbackClaim, FallbackStep, FallbackCalls, FallbackRefused, FallbackAnswered,
              FallbackDies, Takes, LetsGo, Dies, Next
<1>3. ASSUME Research PROVE [Next]_vars
  BY <1>3 DEF Research, Next
<1>4. ASSUME RequestGenre \/ JobsTick PROVE [Next]_vars
  BY <1>4 DEF RequestGenre, JobsTick, Next
<1>5. ASSUME UNCHANGED all PROVE [Next]_vars
  BY <1>5 DEF all
<1> QED
  BY <1>1, <1>2, <1>3, <1>4, <1>5 DEF JobsNext

(* The composition implements ResearchPoller: what is proved there with an
   abstract Other holds next to the real jobs. *)
THEOREM Implements == JobsSpec => Spec
<1>1. JobsInit => Init
  BY DEF JobsInit
<1> QED
  BY <1>1, JobStep, PTL DEF JobsSpec, Spec

(* With all jobs on the lock two instances are at one row only after a run of it
   spent more than the window's slack beside its call. *)
THEOREM DoubleRunsLateAmongJobs == JobsSpec => []DoubleRunsAreLate
BY Implements, DoubleRunsLate, PTL

-----------------------------------------------------------------------------
(* The steps of the genre poller. *)

(* What the invariant says of the pollers and the table. *)
GenreInv ==
  /\ genre \in [Genre -> {"none", "pending", "claimed", "finished"}]
  /\ poller \in [Pollers -> Poller]
  /\ lost \subseteq Genre
  /\ \A p \in Pollers : AtWork(p)
  /\ GenreHeld

LEMMA PollerGoes ==
  ASSUME GenreInv, NEW p \in Pollers, NEW phase,
         \/ poller[p].phase = "off" /\ phase = "claim"
         \/ poller[p].phase \notin {"off", "claim"} /\ phase \in {"backfill", "llm", "done", "fail"},
         Goes(p, phase), UNCHANGED <<genre, lost>>
  PROVE  GenreInv'
<1>1. poller[p] \in Poller
  BY DEF GenreInv
<1>2. poller' = [poller EXCEPT ![p] = [poller[p] EXCEPT !.phase = phase]]
  BY DEF Goes
<1>3. [poller[p] EXCEPT !.phase = phase] \in Poller
  BY <1>1 DEF Poller
<1>4. poller' \in [Pollers -> Poller]
  BY <1>2, <1>3 DEF GenreInv
<1>5. \A o \in Pollers : poller'[o].request = poller[o].request
  BY <1>1, <1>2 DEF GenreInv, Poller
<1>6. poller'[p].phase = phase /\ \A o \in Pollers \ {p} : poller'[o] = poller[o]
  BY <1>1, <1>2 DEF GenreInv, Poller
<1>7. \A o \in Pollers : AtWork(o)'
  BY <1>5, <1>6 DEF GenreInv, AtWork
<1> QED
  BY <1>4, <1>5, <1>7 DEF GenreInv, GenreHeld

(* A poller leaves; its request, if it had one, is written or lost. *)
LEMMA PollerLeaves ==
  ASSUME GenreInv, NEW p \in Pollers, poller' = [poller EXCEPT ![p] = Away],
         \/ /\ UNCHANGED genre
            /\ lost' = lost \cup ({poller[p].request} \ {None})
         \/ /\ poller[p].request \in Genre /\ UNCHANGED lost
            /\ \E e \in {"pending", "finished"} : genre' = [genre EXCEPT ![poller[p].request] = e]
  PROVE  GenreInv'
<1>1. Away \in Poller /\ Away.phase = "off" /\ Away.request = None
  BY DEF Away, Poller
<1>2. poller' \in [Pollers -> Poller]
  BY <1>1 DEF GenreInv
<1>3. poller'[p] = Away /\ \A o \in Pollers \ {p} : poller'[o] = poller[o]
  BY DEF GenreInv
<1>4. poller[p].request \in Genre \cup {None}
  BY DEF GenreInv, Poller
<1>5. /\ genre' \in [Genre -> {"none", "pending", "claimed", "finished"}]
      /\ lost' \subseteq Genre
  BY <1>4 DEF GenreInv
<1>6. \A o \in Pollers \ {p} : poller[o].request # None => poller[o].request # poller[p].request
  BY LocalConstants DEF GenreInv, GenreHeld, Poller, Genre
<1>7. ASSUME NEW o \in Pollers PROVE AtWork(o)'
  <2>1. CASE o = p
    BY <1>1, <1>3, <2>1 DEF AtWork
  <2>2. CASE o # p
    <3>1. AtWork(o) /\ poller'[o] = poller[o]
      BY <1>3, <2>2 DEF GenreInv
    <3>2. poller[o].request \in Genre =>
            poller[o].request # None /\ poller[o].request # poller[p].request
      BY <1>6, <2>2, LocalConstants DEF Genre
    <3>3. poller[o].request \in Genre => genre'[poller[o].request] = genre[poller[o].request]
      BY <3>2 DEF GenreInv
    <3> QED
      BY <3>1, <3>3 DEF AtWork
  <2> QED
    BY <2>1, <2>2
<1>8. ASSUME NEW q \in Genre, genre'[q] = "claimed", q \notin lost'
      PROVE  \E o \in Pollers : poller'[o].request = q
  <2>1. genre[q] = "claimed" /\ q \notin lost /\ q # poller[p].request
    BY <1>8, LocalConstants DEF GenreInv, Genre
  <2>2. PICK o \in Pollers : poller[o].request = q
    BY <2>1 DEF GenreInv, GenreHeld
  <2> QED
    BY <1>3, <2>1, <2>2
<1>9. ASSUME NEW q \in Genre, NEW o \in Pollers, NEW n \in Pollers,
             poller'[o].request = q, poller'[n].request = q
      PROVE  o = n
  <2>1. q # None
    BY LocalConstants DEF Genre
  <2>2. o # p /\ n # p
    BY <1>1, <1>3, <1>9, <2>1
  <2> QED
    BY <1>3, <1>9, <2>2 DEF GenreInv, GenreHeld
<1> QED
  BY <1>2, <1>5, <1>7, <1>8, <1>9 DEF GenreInv, GenreHeld

(* A pending request gets its one poller. *)
LEMMA PollerClaims ==
  ASSUME GenreInv, NEW p \in Pollers, poller[p].phase = "claim",
         NEW q \in Genre, genre[q] = "pending",
         genre' = [genre EXCEPT ![q] = "claimed"],
         poller' = [poller EXCEPT ![p] = [phase |-> "backfill", request |-> q]],
         UNCHANGED lost
  PROVE  GenreInv'
<1>1. [phase |-> "backfill", request |-> q] \in Poller
  BY DEF Poller
<1>2. poller' \in [Pollers -> Poller]
  BY <1>1 DEF GenreInv
<1>3. /\ poller'[p].phase = "backfill" /\ poller'[p].request = q
      /\ \A o \in Pollers \ {p} : poller'[o] = poller[o]
  BY DEF GenreInv
<1>4. /\ genre' \in [Genre -> {"none", "pending", "claimed", "finished"}]
      /\ genre'[q] = "claimed" /\ \A n \in Genre \ {q} : genre'[n] = genre[n]
  BY DEF GenreInv
<1>5. \A o \in Pollers : AtWork(o) /\ poller[o].request # q
  BY LocalConstants DEF GenreInv, AtWork, Genre
<1>6. poller[p].request = None
  BY <1>5 DEF AtWork
<1>7. ASSUME NEW o \in Pollers PROVE AtWork(o)'
  <2>1. CASE o = p
    BY <1>3, <1>4, <2>1 DEF AtWork
  <2>2. CASE o # p
    BY <1>3, <1>4, <1>5, <2>2 DEF AtWork
  <2> QED
    BY <2>1, <2>2
<1>8. ASSUME NEW n \in Genre, genre'[n] = "claimed", n \notin lost'
      PROVE  \E o \in Pollers : poller'[o].request = n
  <2>1. CASE n = q
    BY <1>3, <2>1
  <2>2. CASE n # q
    <3>1. genre[n] = "claimed" /\ n \notin lost
      BY <1>4, <1>8, <2>2
    <3>2. PICK o \in Pollers : poller[o].request = n
      BY <3>1 DEF GenreInv, GenreHeld
    <3>3. o # p
      BY <1>6, <3>2, LocalConstants DEF Genre
    <3> QED
      BY <1>3, <3>2, <3>3
  <2> QED
    BY <2>1, <2>2
<1>9. ASSUME NEW n \in Genre, NEW o \in Pollers, NEW m \in Pollers,
             poller'[o].request = n, poller'[m].request = n
      PROVE  o = m
  <2>1. CASE n = q
    BY <1>3, <1>5, <1>9, <2>1
  <2>2. CASE n # q
    BY <1>3, <1>9, <2>2 DEF GenreInv, GenreHeld
  <2> QED
    BY <2>1, <2>2
<1> QED
  BY <1>2, <1>4, <1>7, <1>8, <1>9 DEF GenreInv, GenreHeld

LEMMA GenreSame ==
  ASSUME GenreInv, UNCHANGED <<genre, poller, lost>>
  PROVE  GenreInv'
BY DEF GenreInv, AtWork, GenreHeld

LEMMA RequestStep ==
  ASSUME GenreInv, RequestGenre
  PROVE  GenreInv'
<1>1. PICK q \in Genre : genre[q] = "none" /\ genre' = [genre EXCEPT ![q] = "pending"]
  BY DEF RequestGenre
<1>2. UNCHANGED <<poller, lost>>
  BY DEF RequestGenre
<1>3. \A o \in Pollers : poller[o].request # q
  BY <1>1, LocalConstants DEF GenreInv, AtWork, Genre
<1> QED
  BY <1>1, <1>2, <1>3 DEF GenreInv, AtWork, GenreHeld

LEMMA PollerStep ==
  ASSUME GenreInv, NEW p \in Pollers,
         \/ GenreStart(p) \/ GenreStep(p) \/ BackfillSucceeds(p)
         \/ BackfillFails(p) \/ GenreDies(p)
  PROVE  GenreInv'
<1>1. CASE \/ GenreStart(p) \/ GenreCalls(p) \/ GenreAnswered(p)
           \/ BackfillSucceeds(p) \/ BackfillFails(p)
  BY <1>1, PollerGoes DEF GenreStart, GenreCalls, GenreAnswered, BackfillSucceeds, BackfillFails,
                          Takes, LetsGo
<1>2. CASE GenreClaim(p)
  <2>1. CASE \E q \in Oldest :
               /\ genre' = [genre EXCEPT ![q] = "claimed"]
               /\ poller' = [poller EXCEPT ![p] = [phase |-> "backfill", request |-> q]]
    BY <1>2, <2>1, PollerClaims DEF GenreClaim, Oldest
  <2>2. CASE poller' = [poller EXCEPT ![p] = Away] /\ UNCHANGED genre
    <3>1. poller[p].request = None
      BY <1>2 DEF GenreClaim, GenreInv, AtWork
    <3>2. lost' = lost \cup ({poller[p].request} \ {None})
      BY <1>2, <3>1 DEF GenreClaim
    <3> QED
      BY <2>2, <3>2, PollerLeaves
  <2> QED
    BY <1>2, <2>1, <2>2 DEF GenreClaim
<1>3. CASE GenreEnd(p)
  <2>1. poller[p].request \in Genre
    BY <1>3 DEF GenreEnd, GenreInv, AtWork
  <2>2. Ends(p) \in {"pending", "finished"}
    BY DEF Ends
  <2> QED
    BY <1>3, <2>1, <2>2, PollerLeaves DEF GenreEnd
<1>4. CASE GenreDies(p)
  BY <1>4, PollerLeaves DEF GenreDies
<1> QED
  BY <1>1, <1>2, <1>3, <1>4 DEF GenreStep

LEMMA GenreInductive ==
  ASSUME GenreInv, [JobsNext]_all
  PROVE  GenreInv'
<1>1. ASSUME NEW s \in Slots, FallbackClaim(s) \/ FallbackStep(s) \/ FallbackDies(s)
      PROVE  UNCHANGED <<genre, poller, lost>>
  BY <1>1 DEF FallbackClaim, FallbackStep, FallbackCalls, FallbackRefused, FallbackAnswered,
              FallbackDies
<1>2. ASSUME Research \/ JobsTick \/ UNCHANGED all PROVE UNCHANGED <<genre, poller, lost>>
  BY <1>2 DEF Research, JobsTick, all, jobs
<1> QED
  BY <1>1, <1>2, GenreSame, RequestStep, PollerStep DEF JobsNext

LEMMA GenreInitial == JobsInit => GenreInv
<1> SUFFICES ASSUME JobsInit PROVE GenreInv
  OBVIOUS
<1>1. Away \in Poller /\ Away.phase = "off" /\ Away.request = None
  BY DEF Away, Poller
<1>2. \A p \in Pollers : AtWork(p)
  BY <1>1 DEF JobsInit, AtWork
<1>3. GenreHeld
  BY <1>1, LocalConstants DEF JobsInit, GenreHeld, Genre
<1> QED
  BY <1>1, <1>2, <1>3 DEF JobsInit, GenreInv

(* A claimed genre request has one poller at it, unless that poller died. *)
THEOREM RequestsHeld == JobsSpec => []GenreHeld
<1>1. GenreInv /\ [JobsNext]_all => GenreInv'
  BY GenreInductive
<1>2. GenreInv => GenreHeld
  BY DEF GenreInv
<1> QED
  BY <1>1, <1>2, GenreInitial, PTL DEF JobsSpec

-----------------------------------------------------------------------------
(* The fallback and the lease of its claim. *)

SlotInv == slot \in [Slots -> Slot] /\ \A s \in Slots : OnTime(s)

LEMMA IdleSlot == Idle \in Slot /\ Idle.phase = "idle" /\ Idle.age = 0
BY LocalConstants DEF Idle, Slot

LEMMA OneSlot ==
  ASSUME SlotInv, NEW s \in Slots, NEW x \in Slot,
         x.phase = "call" => x.age + Margin <= Lease + x.time,
         slot' = [slot EXCEPT ![s] = x]
  PROVE  SlotInv'
BY DEF SlotInv, OnTime

LEMMA SlotStep ==
  ASSUME SlotInv, NEW s \in Slots, FallbackClaim(s) \/ FallbackStep(s) \/ FallbackDies(s)
  PROVE  SlotInv'
<1>1. slot[s] \in Slot
  BY DEF SlotInv
<1>2. CASE FallbackClaim(s)
  <2> DEFINE x == [Idle EXCEPT !.phase = "wait"]
  <2>1. x \in Slot /\ x.phase = "wait"
    BY IdleSlot DEF Slot
  <2> HIDE DEF x
  <2> QED
    BY <1>2, <2>1, OneSlot DEF FallbackClaim, x
<1>3. CASE FallbackCalls(s)
  <2> DEFINE x == [slot[s] EXCEPT !.phase = "call", !.time = 0]
  <2>1. slot[s].age \in Nat /\ slot[s].age <= Lease - Margin
    BY <1>1, <1>3, LocalConstants DEF FallbackCalls, Fits, Slot
  <2>2. x \in Slot /\ x.age = slot[s].age /\ x.time = 0
    <3>1. 0 \in 0..FallbackMax
      BY LocalConstants
    <3> QED
      BY <1>1, <3>1 DEF Slot
  <2>3. x.age + Margin <= Lease + x.time
    BY <2>1, <2>2, LocalConstants
  <2>4. slot' = [slot EXCEPT ![s] = x]
    BY <1>3 DEF FallbackCalls
  <2> HIDE DEF x
  <2> QED
    BY <2>2, <2>3, <2>4, OneSlot
<1>4. CASE FallbackRefused(s) \/ FallbackAnswered(s) \/ FallbackDies(s)
  BY <1>4, IdleSlot, OneSlot DEF FallbackRefused, FallbackAnswered, FallbackDies
<1> QED
  BY <1>2, <1>3, <1>4 DEF FallbackStep

LEMMA SlotTick ==
  ASSUME SlotInv, JobsTick
  PROVE  SlotInv'
<1>1. ASSUME NEW s \in Slots PROVE slot'[s] \in Slot /\ OnTime(s)'
  <2> DEFINE age == IF slot[s].phase = "idle" THEN slot[s].age ELSE Older(slot[s].age, Lease + 1)
             time == IF slot[s].phase = "call" THEN slot[s].time + 1 ELSE slot[s].time
  <2>1. slot[s] \in Slot /\ OnTime(s)
    BY DEF SlotInv
  <2>2. slot[s].age \in 0..(Lease + 1) /\ slot[s].time \in 0..FallbackMax
    BY <2>1 DEF Slot
  <2>3. Lease + 1 \in Nat /\ FallbackMax \in Nat /\ Lease \in Nat /\ Margin \in Nat
    BY LocalConstants
  <2>4. age \in 0..(Lease + 1) /\ age <= slot[s].age + 1
    <3>1. /\ Older(slot[s].age, Lease + 1) \in 0..(Lease + 1)
          /\ Older(slot[s].age, Lease + 1) <= slot[s].age + 1
      BY <2>2, <2>3, OlderType
    <3>2. slot[s].age \in Nat /\ slot[s].age <= slot[s].age + 1
      BY <2>2, <2>3
    <3> QED
      BY <2>2, <3>1, <3>2
  <2>5. slot[s].phase = "call" => slot[s].time < FallbackMax
    BY DEF JobsTick
  <2>6. time \in 0..FallbackMax
    BY <2>2, <2>3, <2>5
  <2>7. slot'[s] = [slot[s] EXCEPT !.age = age, !.time = time]
    BY DEF JobsTick
  <2>8. slot[s].phase = "call" => time = slot[s].time + 1
    OBVIOUS
  <2> HIDE DEF age, time
  <2>9. slot'[s] \in Slot
    BY <2>1, <2>4, <2>6, <2>7 DEF Slot
  <2>10. slot'[s].phase = slot[s].phase /\ slot'[s].age = age /\ slot'[s].time = time
    BY <2>1, <2>7 DEF Slot
  <2>11. slot[s].phase = "call" => age + Margin <= Lease + time
    BY <2>1, <2>2, <2>3, <2>4, <2>6, <2>8 DEF OnTime
  <2> QED
    BY <2>9, <2>10, <2>11 DEF OnTime
<1>2. slot' \in [Slots -> Slot]
  BY <1>1 DEF JobsTick
<1> QED
  BY <1>1, <1>2 DEF SlotInv

LEMMA SlotInductive ==
  ASSUME SlotInv, [JobsNext]_all
  PROVE  SlotInv'
<1>1. ASSUME UNCHANGED slot PROVE SlotInv'
  BY <1>1 DEF SlotInv, OnTime
<1>2. ASSUME NEW p \in Pollers,
             \/ GenreStart(p) \/ GenreStep(p) \/ BackfillSucceeds(p)
             \/ BackfillFails(p) \/ GenreDies(p)
      PROVE  UNCHANGED slot
  BY <1>2 DEF GenreStart, GenreStep, GenreClaim, GenreCalls, GenreAnswered, GenreEnd,
              BackfillSucceeds, BackfillFails, GenreDies
<1>3. ASSUME Research \/ RequestGenre \/ UNCHANGED all PROVE UNCHANGED slot
  BY <1>3 DEF Research, RequestGenre, all, jobs
<1> QED
  BY <1>1, <1>2, <1>3, SlotStep, SlotTick DEF JobsNext

LEMMA SlotInitial == JobsInit => SlotInv
BY IdleSlot DEF JobsInit, SlotInv, OnTime

(* A Claude call of the fallback is over before the lease of its claim, for any
   lease and any margin that covers the call. *)
THEOREM CallsFitLease == JobsSpec => []FallbackFitsLease
<1>1. SlotInv /\ [JobsNext]_all => SlotInv'
  BY SlotInductive
<1>2. SlotInv => FallbackFitsLease
  <2> SUFFICES ASSUME SlotInv, NEW s \in Slots, slot[s].phase = "call"
               PROVE  slot[s].age <= Lease
    BY DEF FallbackFitsLease
  <2>1. slot[s] \in Slot /\ slot[s].age + Margin <= Lease + slot[s].time
    BY DEF SlotInv, OnTime
  <2>2. slot[s].age \in Nat /\ slot[s].time \in 0..FallbackMax
    BY <2>1, LocalConstants DEF Slot
  <2> QED
    BY <2>1, <2>2, LocalConstants
<1> QED
  BY <1>1, <1>2, SlotInitial, PTL DEF JobsSpec

-----------------------------------------------------------------------------
(* The shared lock among all jobs. *)

InCall(i) == inst[i].phase = "call"

(* The lock is held by the instance in a call, or for the one job in a call. *)
Lock ==
  /\ lock \in Instances \cup {None, Other} /\ holder \in Pollers \cup Slots \cup {None}
  /\ \A i \in Instances : InCall(i) <=> lock = i
  /\ \A p \in Pollers : poller[p].phase = "llm" <=> holder = p
  /\ \A s \in Slots : slot[s].phase = "call" <=> holder = s
  /\ lock = Other <=> holder # None

(* At any time one job of the machine at most is in a Claude call, and without a
   call the lock is free: neither a failed call nor a process that dies leaves it
   taken. *)
OneCallAtATime ==
  /\ \A i, j \in Instances : InCall(i) /\ InCall(j) => i = j
  /\ \A p, o \in Pollers : poller[p].phase = "llm" /\ poller[o].phase = "llm" => p = o
  /\ \A s, t \in Slots : slot[s].phase = "call" /\ slot[t].phase = "call" => s = t
  /\ \A i \in Instances, p \in Pollers : ~(InCall(i) /\ poller[p].phase = "llm")
  /\ \A i \in Instances, s \in Slots : ~(InCall(i) /\ slot[s].phase = "call")
  /\ \A p \in Pollers, s \in Slots : ~(poller[p].phase = "llm" /\ slot[s].phase = "call")
  /\ lock # None =>
       \/ \E i \in Instances : InCall(i)
       \/ \E p \in Pollers : poller[p].phase = "llm"
       \/ \E s \in Slots : slot[s].phase = "call"

(* An instance at work: it keeps the others' places, and the lock goes with its
   call. *)
LEMMA InstanceLock ==
  ASSUME TypeOK, Lock, NEW i \in Instances,
         Start(i) \/ Step(i) \/ CallSucceeds(i) \/ CallFails(i) \/ Crash(i)
  PROVE  /\ \A j \in Instances \ {i} : inst'[j].phase = inst[j].phase
         /\ lock' \in {lock, None, i} /\ (lock = Other => UNCHANGED lock)
         /\ \A j \in Instances : InCall(j)' <=> lock' = j
<1> DEFINE Others == \A j \in Instances \ {i} : inst'[j].phase = inst[j].phase
<1>0. /\ inst \in [Instances -> Instance]
      /\ None \notin Instances /\ Other \notin Instances \cup {None}
      /\ \A j \in Instances : inst[j].phase = "call" <=> lock = j
  BY ResearchConstants DEF TypeOK, Lock, InCall
<1>1. ASSUME Others, UNCHANGED lock, inst[i].phase # "call", inst'[i].phase # "call"
      PROVE  \A j \in Instances : InCall(j)' <=> lock' = j
  BY <1>0, <1>1 DEF InCall
<1>2. ASSUME NEW p, Go(i, p) PROVE Others /\ inst'[i].phase = p
  BY <1>0, <1>2 DEF Go, Instance
<1>3. ASSUME Exit(i) PROVE Others /\ inst'[i].phase = "off"
  BY <1>0, <1>3 DEF Exit, Off
<1>4. CASE Start(i) \/ Preflight(i) \/ ClaimNone(i) \/ Read(i)
  <2>1. UNCHANGED lock /\ inst[i].phase # "call"
    BY <1>4 DEF Start, Preflight, ClaimNone, Read
  <2>2. Exit(i) \/ \E p \in {"top", "held", "lock", "fail"} : Go(i, p)
    BY <1>4 DEF Start, Preflight, ClaimNone, Read
  <2>3. Others /\ inst'[i].phase # "call"
    BY <1>2, <1>3, <2>2
  <2> QED
    BY <1>1, <2>1, <2>3
<1>5. CASE NudgeRead(i)
  <2>1. UNCHANGED lock /\ inst[i].phase # "call"
    BY <1>5 DEF NudgeRead
  <2>2. Others /\ inst'[i].phase \in {"claim", "nudge"}
    <3>1. CASE Go(i, "claim")
      BY <1>2, <3>1
    <3>2. CASE ~Go(i, "claim")
      <4> DEFINE due == {a \in Pending : file[a] >= NudgeCooldown}
                 next == IF due = {} THEN "claim" ELSE "nudge"
                 known == IF due = {} THEN inst[i].seen ELSE file
      <4>1. inst' = [inst EXCEPT ![i].phase = next, ![i].due = due, ![i].seen = known]
        BY <1>5, <3>2 DEF NudgeRead
      <4>2. next \in {"claim", "nudge"}
        OBVIOUS
      <4> HIDE DEF due, next, known
      <4> QED
        BY <1>0, <4>1, <4>2 DEF Instance
    <3> QED
      BY <3>1, <3>2
  <2> QED
    BY <1>1, <2>1, <2>2
<1>6. CASE NudgeSend(i) \/ Claim(i)
  <2>1. UNCHANGED lock /\ inst[i].phase # "call"
    BY <1>6 DEF NudgeSend, Claim
  <2>2. Others /\ inst'[i].phase \in {"claim", "read"}
    <3>1. CASE NudgeSend(i)
      BY <1>0, <3>1 DEF NudgeSend, Off
    <3>2. CASE Claim(i)
      <4>1. PICK a \in Albums :
              inst' = [inst EXCEPT ![i] = [Off EXCEPT !.phase = "read", !.album = a]]
        BY <3>2 DEF Claim, Candidates
      <4> QED
        BY <1>0, <4>1 DEF Off
    <3> QED
      BY <1>6, <3>1, <3>2
  <2> QED
    BY <1>1, <2>1, <2>2
<1>7. CASE Acquire(i)
  <2>1. CASE cooling
    BY <1>1, <1>3, <1>7, <2>1 DEF Acquire
  <2>2. CASE ~cooling
    <3>1. lock = None /\ lock' = i /\ Go(i, "call")
      BY <1>7, <2>2 DEF Acquire
    <3>2. Others /\ inst'[i].phase = "call"
      BY <1>2, <3>1
    <3> QED
      BY <1>0, <3>1, <3>2 DEF InCall
  <2> QED
    BY <2>1, <2>2
<1>8. CASE CallSucceeds(i) \/ CallFails(i)
  <2>1. inst[i].phase = "call" /\ lock' = None /\ \E p \in {"done", "fail"} : Go(i, p)
    BY <1>8 DEF CallSucceeds, CallFails
  <2>2. Others /\ inst'[i].phase # "call"
    BY <1>2, <2>1
  <2> QED
    BY <1>0, <2>1, <2>2 DEF InCall
<1>9. CASE MarkDone(i) \/ MarkFailed(i)
  <2>1. UNCHANGED lock /\ inst[i].phase # "call"
    BY <1>9 DEF MarkDone, MarkFailed
  <2>2. Others /\ inst'[i].phase # "call"
    <3>1. CASE Go(i, "fail") \/ Exit(i)
      BY <1>2, <1>3, <3>1
    <3>2. CASE MarkDone(i) /\ ~Go(i, "fail")
      <4>1. inst' = [j \in Instances |->
                       IF j = i THEN [Off EXCEPT !.phase = "top"]
                       ELSE IF Holds(j, inst[i].album) THEN [inst[j] EXCEPT !.current = FALSE]
                       ELSE inst[j]]
        BY <3>2 DEF MarkDone
      <4> QED
        BY <1>0, <4>1 DEF Off, Instance
    <3>3. CASE MarkFailed(i) /\ ~Exit(i)
      BY <1>0, <3>3 DEF MarkFailed, Off
    <3> QED
      BY <1>9, <3>1, <3>2, <3>3
  <2> QED
    BY <1>1, <2>1, <2>2
<1>10. CASE Crash(i)
  <2>1. Exit(i) /\ lock' = IF lock = i THEN None ELSE lock
    BY <1>10 DEF Crash
  <2>2. Others /\ inst'[i].phase = "off"
    BY <1>3, <2>1
  <2> QED
    BY <1>0, <2>1, <2>2 DEF InCall
<1> QED
  BY <1>4, <1>5, <1>6, <1>7, <1>8, <1>9, <1>10 DEF Step

(* The steps of ResearchPoller leave the other jobs and their share of the lock. *)
LEMMA ResearchLock ==
  ASSUME TypeOK, Lock, Research
  PROVE  Lock'
<1>0. /\ UNCHANGED <<holder, poller, slot>>
      /\ None \notin Instances /\ Other \notin Instances \cup {None}
  BY ResearchConstants DEF Research, jobs
<1>1. ASSUME NEW i \in Instances,
             Start(i) \/ Step(i) \/ CallSucceeds(i) \/ CallFails(i) \/ Crash(i)
      PROVE  Lock'
  <2>1. /\ lock' \in {lock, None, i} /\ (lock = Other => UNCHANGED lock)
        /\ \A j \in Instances : InCall(j)' <=> lock' = j
    BY <1>1, InstanceLock
  <2> QED
    BY <1>0, <2>1 DEF Lock
<1>2. CASE Owner \/ (\E a \in Albums : Collect(a)) \/ CoolsOff
  <2>1. UNCHANGED lock /\ \A j \in Instances : inst'[j].phase = inst[j].phase
    <3>1. CASE Owner
      <4>1. PICK a \in Albums : Ask(a)
        BY <3>1 DEF Owner, Enqueue, Restart, Refine
      <4> QED
        BY <4>1 DEF Ask, TypeOK, Instance
    <3>2. CASE (\E a \in Albums : Collect(a)) \/ CoolsOff
      BY <3>2 DEF Collect, CoolsOff
    <3> QED
      BY <1>2, <3>1, <3>2
  <2> QED
    BY <1>0, <2>1 DEF Lock, InCall
<1> QED
  BY <1>1, <1>2 DEF Research

(* A job takes the lock, lets it go, or dies with or without it. *)
LEMMA JobLock ==
  ASSUME Lock, NEW j \in Pollers \cup Slots, UNCHANGED inst, NEW calls, NEW called,
         calls \in BOOLEAN, called \in BOOLEAN, called <=> holder = j,
         \/ lock = None /\ lock' = Other /\ holder = None /\ holder' = j /\ calls
         \/ lock = Other /\ lock' = None /\ holder = j /\ holder' = None /\ ~calls
         \/ Dies(j) /\ ~calls
         \/ UNCHANGED <<lock, holder>> /\ (calls <=> called)
  PROVE  /\ holder' \in Pollers \cup Slots \cup {None}
         /\ lock' \in Instances \cup {None, Other}
         /\ \A i \in Instances : InCall(i)' <=> lock' = i
         /\ lock' = Other <=> holder' # None
         /\ calls <=> holder' = j
         /\ \A o \in (Pollers \cup Slots) \ {j} : holder' = o <=> holder = o
<1>0. /\ None \notin Pollers \cup Slots /\ None \notin Instances
      /\ Other \notin Instances \cup {None}
  BY ResearchConstants, LocalConstants
<1>1. \A i \in Instances : InCall(i)' <=> InCall(i)
  BY DEF InCall
<1>2. Dies(j) => /\ holder' = IF holder = j THEN None ELSE holder
                 /\ lock' = IF holder = j THEN None ELSE lock
  BY DEF Dies
<1> QED
  BY <1>0, <1>1, <1>2 DEF Lock

LEMMA PollerLock ==
  ASSUME Lock, GenreInv, NEW p \in Pollers,
         \/ GenreStart(p) \/ GenreStep(p) \/ BackfillSucceeds(p)
         \/ BackfillFails(p) \/ GenreDies(p)
  PROVE  Lock'
<1> DEFINE called == poller[p].phase = "llm"
           calls == poller'[p].phase = "llm"
           Others == \A o \in Pollers \ {p} : poller'[o] = poller[o]
<1>0. /\ poller \in [Pollers -> Poller] /\ p \notin Slots
      /\ called <=> holder = p
  BY LocalConstants DEF GenreInv, Lock
<1>1. ASSUME NEW phase, Goes(p, phase) PROVE Others /\ poller'[p].phase = phase
  BY <1>0, <1>1 DEF Goes, Poller
<1>2. ASSUME poller' = [poller EXCEPT ![p] = Away] PROVE Others /\ poller'[p].phase = "off"
  BY <1>0, <1>2 DEF Away
<1>3. UNCHANGED <<inst, slot>>
  BY DEF GenreStart, GenreStep, GenreClaim, GenreCalls, GenreAnswered, GenreEnd, BackfillSucceeds,
         BackfillFails, GenreDies, Takes, LetsGo, Dies, OtherTakes, OtherEnds, OtherDies, vars
<1>4. /\ Others
      /\ \/ lock = None /\ lock' = Other /\ holder = None /\ holder' = p /\ calls
         \/ lock = Other /\ lock' = None /\ holder = p /\ holder' = None /\ ~calls
         \/ Dies(p) /\ ~calls
         \/ UNCHANGED <<lock, holder>> /\ (calls <=> called)
  <2>1. CASE GenreStart(p) \/ BackfillSucceeds(p) \/ BackfillFails(p)
    <3>1. ~called /\ UNCHANGED <<lock, holder>> /\ \E q \in {"claim", "done", "fail"} : Goes(p, q)
      BY <2>1 DEF GenreStart, BackfillSucceeds, BackfillFails, vars
    <3> QED
      BY <1>1, <3>1
  <2>2. CASE GenreClaim(p)
    <3>1. ~called /\ UNCHANGED <<lock, holder>>
      BY <2>2 DEF GenreClaim, vars
    <3>2. Others /\ ~calls
      BY <1>0, <1>2, <2>2 DEF GenreClaim
    <3> QED
      BY <3>1, <3>2
  <2>3. CASE GenreCalls(p)
    BY <1>1, <2>3 DEF GenreCalls, Takes, OtherTakes
  <2>4. CASE GenreAnswered(p)
    BY <1>1, <2>4 DEF GenreAnswered, LetsGo, OtherEnds
  <2>5. CASE GenreEnd(p)
    BY <1>2, <2>5 DEF GenreEnd, vars
  <2>6. CASE GenreDies(p)
    BY <1>2, <2>6 DEF GenreDies
  <2> QED
    BY <2>1, <2>2, <2>3, <2>4, <2>5, <2>6 DEF GenreStep
<1> HIDE DEF called, calls
<1>5. calls \in BOOLEAN /\ called \in BOOLEAN
  BY DEF calls, called
<1>6. /\ holder' \in Pollers \cup Slots \cup {None}
      /\ lock' \in Instances \cup {None, Other}
      /\ \A i \in Instances : InCall(i)' <=> lock' = i
      /\ lock' = Other <=> holder' # None
      /\ calls <=> holder' = p
      /\ \A o \in (Pollers \cup Slots) \ {p} : holder' = o <=> holder = o
  BY <1>0, <1>3, <1>4, <1>5, JobLock
<1>7. \A o \in Pollers : poller'[o].phase = "llm" <=> holder' = o
  BY <1>4, <1>6 DEF Lock, calls
<1>8. \A s \in Slots : slot'[s].phase = "call" <=> holder' = s
  BY <1>0, <1>3, <1>6 DEF Lock
<1> QED
  BY <1>6, <1>7, <1>8 DEF Lock

LEMMA SlotLock ==
  ASSUME Lock, SlotInv, NEW s \in Slots, FallbackClaim(s) \/ FallbackStep(s) \/ FallbackDies(s)
  PROVE  Lock'
<1> DEFINE called == slot[s].phase = "call"
           calls == slot'[s].phase = "call"
           Others == \A t \in Slots \ {s} : slot'[t] = slot[t]
<1>0. /\ slot \in [Slots -> Slot] /\ s \notin Pollers
      /\ called <=> holder = s
  BY LocalConstants DEF SlotInv, Lock
<1>1. ASSUME slot' = [slot EXCEPT ![s] = Idle] PROVE Others /\ ~calls
  BY <1>0, <1>1 DEF Idle
<1>2. UNCHANGED <<inst, poller>>
  BY DEF FallbackClaim, FallbackStep, FallbackCalls, FallbackRefused, FallbackAnswered,
         FallbackDies, Takes, LetsGo, Dies, OtherTakes, OtherEnds, OtherDies, vars
<1>3. /\ Others
      /\ \/ lock = None /\ lock' = Other /\ holder = None /\ holder' = s /\ calls
         \/ lock = Other /\ lock' = None /\ holder = s /\ holder' = None /\ ~calls
         \/ Dies(s) /\ ~calls
         \/ UNCHANGED <<lock, holder>> /\ (calls <=> called)
  <2>1. CASE FallbackClaim(s)
    <3>1. ~called /\ UNCHANGED <<lock, holder>>
      BY <2>1 DEF FallbackClaim, vars
    <3>2. Others /\ ~calls
      BY <1>0, <2>1 DEF FallbackClaim, Idle
    <3> QED
      BY <3>1, <3>2
  <2>2. CASE FallbackCalls(s)
    <3>1. lock = None /\ lock' = Other /\ holder = None /\ holder' = s
      BY <2>2 DEF FallbackCalls, Takes, OtherTakes
    <3>2. Others /\ calls
      BY <1>0, <2>2 DEF FallbackCalls, Slot
    <3> QED
      BY <3>1, <3>2
  <2>3. CASE FallbackRefused(s)
    BY <1>1, <2>3 DEF FallbackRefused, vars
  <2>4. CASE FallbackAnswered(s)
    BY <1>1, <2>4 DEF FallbackAnswered, LetsGo, OtherEnds
  <2>5. CASE FallbackDies(s)
    BY <1>1, <2>5 DEF FallbackDies
  <2> QED
    BY <2>1, <2>2, <2>3, <2>4, <2>5 DEF FallbackStep
<1> HIDE DEF called, calls
<1>4. calls \in BOOLEAN /\ called \in BOOLEAN
  BY DEF calls, called
<1>5. /\ holder' \in Pollers \cup Slots \cup {None}
      /\ lock' \in Instances \cup {None, Other}
      /\ \A i \in Instances : InCall(i)' <=> lock' = i
      /\ lock' = Other <=> holder' # None
      /\ calls <=> holder' = s
      /\ \A o \in (Pollers \cup Slots) \ {s} : holder' = o <=> holder = o
  BY <1>0, <1>2, <1>3, <1>4, JobLock
<1>6. \A t \in Slots : slot'[t].phase = "call" <=> holder' = t
  BY <1>3, <1>5 DEF Lock, calls
<1>7. \A p \in Pollers : poller'[p].phase = "llm" <=> holder' = p
  BY <1>0, <1>2, <1>5 DEF Lock
<1> QED
  BY <1>5, <1>6, <1>7 DEF Lock

LEMMA PlacesKept ==
  ASSUME Lock, SlotInv, TypeOK, RequestGenre \/ JobsTick \/ UNCHANGED all
  PROVE  Lock'
<1>1. /\ UNCHANGED <<lock, holder, poller>>
      /\ \A i \in Instances : inst'[i].phase = inst[i].phase
      /\ \A s \in Slots : slot'[s].phase = slot[s].phase
  <2>1. CASE RequestGenre \/ UNCHANGED all
    BY <2>1 DEF RequestGenre, all, jobs, vars
  <2>2. CASE JobsTick
    <3>1. Tick /\ UNCHANGED <<lock, holder, poller>>
      BY <2>2 DEF JobsTick, Tick
    <3>2. \A i \in Instances : inst'[i].phase = inst[i].phase
      BY <3>1 DEF Tick, TypeOK, Instance
    <3>3. \A s \in Slots : slot'[s].phase = slot[s].phase
      BY <2>2 DEF JobsTick, SlotInv, Slot
    <3> QED
      BY <3>1, <3>2, <3>3
  <2> QED
    BY <2>1, <2>2
<1> QED
  BY <1>1 DEF Lock, InCall

(* The subscription serves one job at a time, whatever fails or dies. *)
THEOREM OneCall == JobsSpec => []OneCallAtATime
<1> DEFINE Inv == TypeOK /\ GenreInv /\ SlotInv /\ Lock
<1>1. JobsInit => Inv
  <2> SUFFICES ASSUME JobsInit PROVE Lock
    BY TypeInit, GenreInitial, SlotInitial DEF JobsInit
  <2>1. \A i \in Instances : inst[i].phase = "off" /\ lock # i
    BY ResearchConstants DEF JobsInit, Init, Off
  <2>2. /\ \A p \in Pollers : poller[p].phase = "off" /\ holder # p
        /\ \A s \in Slots : slot[s].phase = "idle" /\ holder # s
    BY LocalConstants DEF JobsInit, Away, Idle
  <2> QED
    BY <2>1, <2>2, ResearchConstants DEF Lock, InCall, JobsInit, Init
<1>2. Inv /\ [JobsNext]_all => Inv'
  <2> SUFFICES ASSUME Inv, [JobsNext]_all PROVE Inv'
    OBVIOUS
  <2>1. TypeOK' /\ GenreInv' /\ SlotInv'
    BY JobStep, TypeStep, GenreInductive, SlotInductive
  <2>2. Lock'
    BY ResearchLock, PollerLock, SlotLock, PlacesKept DEF JobsNext
  <2> QED
    BY <2>1, <2>2
<1>3. Inv => OneCallAtATime
  <2> SUFFICES ASSUME Lock PROVE OneCallAtATime
    OBVIOUS
  <2>1. /\ \A i \in Instances : InCall(i) => lock = i /\ lock # Other
        /\ \A p \in Pollers : poller[p].phase = "llm" => holder = p /\ lock = Other
        /\ \A s \in Slots : slot[s].phase = "call" => holder = s /\ lock = Other
    BY ResearchConstants, LocalConstants DEF Lock
  <2>2. \A p \in Pollers : p \notin Slots
    BY LocalConstants
  <2>3. lock # None =>
          \/ \E i \in Instances : InCall(i)
          \/ \E p \in Pollers : poller[p].phase = "llm"
          \/ \E s \in Slots : slot[s].phase = "call"
    BY DEF Lock
  <2> QED
    BY <2>1, <2>2, <2>3, Zenon DEF OneCallAtATime
<1> QED
  BY <1>1, <1>2, <1>3, PTL DEF JobsSpec

(* A cooldown costs the poller one row next to the real jobs too, and its nudge file
   knows what it knows alone. *)
THEOREM CooldownAmongJobs == JobsSpec => [](CooldownCostsOne /\ NudgesRecorded)
BY Implements, OneRowPerCooldown, NudgesKnown, PTL
=============================================================================
