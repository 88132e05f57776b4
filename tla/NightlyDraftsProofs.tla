------------------------- MODULE NightlyDraftsProofs -------------------------
(* Proofs about NightlyDrafts: for any number of runs, memos and names, every
   draft is about its own album, and a delivery that ends with exit 0 leaves no
   memo open next to a draft it was told of. *)
EXTENDS NightlyDrafts, FiniteSetTheorems, TLAPS

(* The pairs of a run bind files about their own memo; what it was told of and has
   not accounted as failed is the memo whose grow call is under way. *)
Sound(x) ==
  /\ \A p \in x.todo : p.about = p.album
  /\ x.phase = "grow" => x.at \in Albums
  /\ ~x.failed => \A i \in x.told : x.phase = "grow" /\ AlbumOf[i] = x.at

IInv == TypeOK /\ OwnDraft /\ \A r \in Runs : Sound(run[r])

-----------------------------------------------------------------------------
(* The numbers of equal bases are all different: no two memos share a slug. *)
LEMMA SlugsDiffer ==
  ASSUME NEW memos \in SUBSET Albums, NEW slug \in Slugs(memos),
         NEW a \in memos, NEW b \in memos, slug[a] = slug[b]
  PROVE  a = b
<1> DEFINE alike == {c \in memos : base[c] = base[a]}
           number == [c \in alike |-> slug[c][2]]
<1>1. IsFiniteSet(alike) /\ Cardinality(alike) \in Nat
  BY NightlyConstants, FS_Subset, FS_CardinalityType
<1>2. slug[a][1] = base[a] /\ slug[b][1] = base[b]
  BY DEF Slugs
<1>3. a \in alike /\ b \in alike
  BY <1>2
<1>4. {slug[c][2] : c \in alike} = 1..Cardinality(alike)
  BY DEF Slugs
<1>5. number \in Surjection(alike, 1..Cardinality(alike))
  BY <1>4 DEF Surjection
<1>6. Cardinality(1..Cardinality(alike)) = Cardinality(alike)
  BY <1>1, FS_Interval
<1>7. number \in Injection(alike, 1..Cardinality(alike))
  BY <1>1, <1>5, <1>6, FS_SurjSameCardinalityImpliesInj
<1>8. number[a] = number[b]
  BY <1>3
<1> HIDE DEF alike, number
<1> QED
  BY <1>3, <1>7, <1>8 DEF Injection, IsInjective

(* A name the prompt asked for is bound to its own memo or to none. *)
LEMMA BoundToOwn ==
  ASSUME TypeOK, NEW memos \in SUBSET Albums, NEW slug \in Slugs(memos),
         NEW f \in Files(slug), NEW a \in Bound(f.name, slug)
  PROVE  a \in memos /\ a = f.about
<1>1. DOMAIN slug = memos
  BY DEF Slugs
<1>2. PICK b \in memos : /\ f.about = b
                         /\ f.name \in {slug[b], Key(slug[b])}
  BY <1>1 DEF Files
<1>3. a \in memos
  BY <1>1 DEF Bound
<1>4. ASSUME NEW c \in memos PROVE slug[c][1] \in Bases
  BY DEF Slugs
<1>5. CASE f.name = slug[b]
  <2>1. b \in {c \in DOMAIN slug : slug[c] = f.name}
    BY <1>1, <1>5
  <2>2. slug[a] = slug[b]
    BY <1>5, <2>1 DEF Bound
  <2> QED
    BY <1>2, <1>3, <2>2, SlugsDiffer
<1>6. CASE f.name = Key(slug[b])
  <2>1. f.name = <<Fold[slug[b][1]], slug[b][2]>>
    BY <1>4, <1>6 DEF Key
  <2>2. f.name[1] \in Keys
    BY <1>4, <2>1, NightlyConstants
  <2>3. f.name[1] \notin Bases
    BY <2>2, NightlyConstants
  <2>4. {c \in DOMAIN slug : slug[c] = f.name} = {}
    BY <1>1, <1>4, <2>3
  <2>5. Key(f.name) = f.name
    BY <2>3 DEF Key
  <2> DEFINE folded == {c \in DOMAIN slug : Key(slug[c]) = Key(f.name)}
  <2>6. a \in folded /\ Cardinality(folded) = 1
    BY <2>4 DEF Bound
  <2>7. b \in folded
    BY <1>1, <1>6, <2>5
  <2>8. IsFiniteSet(folded)
    BY <1>1, NightlyConstants, FS_Subset
  <2>9. PICK x : folded = {x}
    BY <2>6, <2>8, FS_Singleton
  <2> HIDE DEF folded
  <2> QED
    BY <1>2, <1>3, <2>6, <2>7, <2>9
<1> QED
  BY <1>2, <1>5, <1>6

LEMMA PairingsOwn ==
  ASSUME TypeOK, NEW memos \in SUBSET Albums, NEW slug \in Slugs(memos),
         NEW files \in SUBSET Files(slug), NEW T \in Pairings(slug, files)
  PROVE  T \in SUBSET Pair /\ \A p \in T : p.about = p.album
<1> SUFFICES ASSUME NEW p \in T PROVE p \in Pair /\ p.about = p.album
  OBVIOUS
<1>1. PICK f \in files : \E a \in Bound(f.name, slug) : p = [album |-> a, about |-> f.about]
  BY DEF Pairings
<1>2. PICK a \in Bound(f.name, slug) : p = [album |-> a, about |-> f.about]
  BY <1>1
<1>3. a \in memos /\ a = f.about
  BY BoundToOwn
<1> QED
  BY <1>2, <1>3 DEF Pair

-----------------------------------------------------------------------------
(* What a step does to one run, to the items and to the drafts. *)

LEMMA OffSound == Off \in Run /\ Sound(Off)
BY DEF Off, Run, Sound

LEMMA OneRun ==
  ASSUME IInv, NEW r \in Runs, NEW x \in Run, Sound(x), run' = [run EXCEPT ![r] = x]
  PROVE  run' \in [Runs -> Run] /\ \A q \in Runs : Sound(run'[q])
BY DEF IInv, TypeOK

LEMMA ExitSound ==
  ASSUME IInv, NEW r \in Runs, Exit(r)
  PROVE  run' \in [Runs -> Run] /\ \A q \in Runs : Sound(run'[q])
BY OneRun, OffSound DEF Exit

LEMMA LessTold ==
  ASSUME NEW x \in Run, Sound(x), NEW S \in SUBSET x.told
  PROVE  [x EXCEPT !.told = S] \in Run /\ Sound([x EXCEPT !.told = S])
BY DEF Run, Sound

LEMMA SettledSound ==
  ASSUME IInv, NEW served \in BOOLEAN, NEW a \in Albums
  PROVE  /\ Settled(served, a) \in [Runs -> Run]
         /\ \A q \in Runs : Sound(Settled(served, a)[q])
<1>1. ASSUME NEW q \in Runs
      PROVE  LET x == [run[q] EXCEPT !.told = {i \in @ : ~served \/ AlbumOf[i] # a}]
             IN x \in Run /\ Sound(x)
  <2>1. run[q] \in Run /\ Sound(run[q])
    BY DEF IInv, TypeOK
  <2> QED
    BY <2>1, LessTold
<1> QED
  BY <1>1 DEF Settled

LEMMA GrownType ==
  ASSUME TypeOK, NEW a \in Albums
  PROVE  Grown(a) \in [Items -> [checked : BOOLEAN, stamped : BOOLEAN]]
BY DEF TypeOK, Grown

-----------------------------------------------------------------------------
(* Every step keeps the invariant. *)

LEMMA AnswerStep ==
  ASSUME IInv, NEW r \in Runs, Answer(r)
  PROVE  IInv'
<1>1. run[r] \in Run /\ Sound(run[r]) /\ run[r].memos \in SUBSET Albums
  BY DEF IInv, TypeOK, Run
<1>2. PICK slug \in Slugs(run[r].memos) : \E files \in SUBSET Files(slug) :
        \/ Exit(r)
        \/ \E T \in Pairings(slug, files) :
             run' = [run EXCEPT ![r].phase = "mint", ![r].memos = {}, ![r].todo = T]
  BY DEF Answer
<1>3. PICK files \in SUBSET Files(slug) :
        \/ Exit(r)
        \/ \E T \in Pairings(slug, files) :
             run' = [run EXCEPT ![r].phase = "mint", ![r].memos = {}, ![r].todo = T]
  BY <1>2
<1>4. CASE Exit(r)
  BY <1>4, ExitSound DEF Answer, IInv, TypeOK, OwnDraft
<1>5. CASE \E T \in Pairings(slug, files) :
             run' = [run EXCEPT ![r].phase = "mint", ![r].memos = {}, ![r].todo = T]
  <2>1. PICK T \in Pairings(slug, files) :
          run' = [run EXCEPT ![r].phase = "mint", ![r].memos = {}, ![r].todo = T]
    BY <1>5
  <2> DEFINE x == [run[r] EXCEPT !.phase = "mint", !.memos = {}, !.todo = T]
  <2>2. T \in SUBSET Pair /\ \A p \in T : p.about = p.album
    BY <1>1, PairingsOwn DEF IInv
  <2>3. x \in Run
    BY <1>1, <2>2 DEF Run
  <2>4. Sound(x)
    BY <1>1, <2>2 DEF Sound, Run, Answer
  <2>5. run' = [run EXCEPT ![r] = x]
    BY <2>1
  <2> HIDE DEF x
  <2> QED
    BY <2>3, <2>4, <2>5, OneRun DEF Answer, IInv, TypeOK, OwnDraft
<1> QED
  BY <1>3, <1>4, <1>5

LEMMA DraftedOwn ==
  ASSUME IInv, NEW r \in Runs, NEW p \in Pair, p \in run[r].todo, Drafted(r, p)
  PROVE  /\ draft' \in [Albums -> [by : Runs, about : Albums, open : BOOLEAN] \cup {NoDraft}]
         /\ OwnDraft'
<1>1. p.about = p.album /\ p.album \in Albums /\ p.about \in Albums
  BY DEF IInv, Sound, Pair
<1> QED
  BY <1>1 DEF IInv, TypeOK, OwnDraft, Drafted

LEMMA DeliverStep ==
  ASSUME IInv, NEW r \in Runs, Deliver(r)
  PROVE  IInv'
<1>1. run[r] \in Run /\ Sound(run[r])
  BY DEF IInv, TypeOK
<1>2. CASE Mint(r)
  <2> DEFINE x == [run[r] EXCEPT !.phase = "deliver"]
  <2>1. x \in Run /\ Sound(x)
    BY <1>1, <1>2 DEF Mint, Run, Sound
  <2>2. run' = [run EXCEPT ![r] = x]
    BY <1>2 DEF Mint
  <2> HIDE DEF x
  <2> QED
    BY <1>2, <2>1, <2>2, OneRun DEF Mint, IInv, TypeOK, OwnDraft
<1>3. CASE DeliveryFails(r)
  BY <1>3, ExitSound DEF DeliveryFails, IInv, TypeOK, OwnDraft
<1>4. CASE Finish(r)
  BY <1>4, ExitSound DEF Finish, IInv, TypeOK, OwnDraft
<1>5. ASSUME NEW served \in BOOLEAN, run[r].phase = "grow",
             item' = IF served THEN Grown(run[r].at) ELSE item,
             NEW failed \in BOOLEAN, served \/ failed, run[r].failed => failed,
             run' = [Settled(served, run[r].at) EXCEPT
                       ![r].phase = "deliver", ![r].at = None, ![r].failed = failed],
             UNCHANGED <<base, reviewed, draft>>, run[r].at \in Albums
      PROVE  IInv'
  <2> DEFINE s == Settled(served, run[r].at)
             x == [s[r] EXCEPT !.phase = "deliver", !.at = None, !.failed = failed]
  <2>1. s \in [Runs -> Run] /\ \A q \in Runs : Sound(s[q])
    BY <1>5, SettledSound
  <2>2. s[r] = [run[r] EXCEPT !.told = {i \in @ : ~served \/ AlbumOf[i] # run[r].at}]
    BY DEF Settled
  <2>3. x \in Run
    BY <2>1 DEF Run
  <2>4. ASSUME ~failed PROVE x.told = {}
    <3>1. x.told = {i \in run[r].told : ~served \/ AlbumOf[i] # run[r].at}
      BY <2>2, <1>1 DEF Run
    <3> QED
      BY <1>1, <1>5, <2>4, <3>1 DEF Sound
  <2>5. Sound(x)
    BY <2>1, <2>4 DEF Sound, Run
  <2>6. run' = [s EXCEPT ![r] = x]
    BY <1>5
  <2>7. item' \in [Items -> [checked : BOOLEAN, stamped : BOOLEAN]]
    BY <1>5, GrownType DEF IInv, TypeOK
  <2> HIDE DEF s, x
  <2>8. run' \in [Runs -> Run] /\ \A q \in Runs : Sound(run'[q])
    BY <2>1, <2>3, <2>5, <2>6
  <2> QED
    BY <1>5, <2>7, <2>8 DEF IInv, TypeOK, OwnDraft
<1>6. CASE Grow(r)
  <2>1. run[r].at \in Albums
    BY <1>1, <1>6 DEF Grow, Sound
  <2>2. run' = [Settled(TRUE, run[r].at) EXCEPT
                 ![r].phase = "deliver", ![r].at = None, ![r].failed = run[r].failed]
    BY <1>6 DEF Grow, Settled
  <2> QED
    BY <1>1, <1>5, <1>6, <2>1, <2>2 DEF Grow, Run
<1>7. CASE GrowFails(r)
  <2>1. run[r].at \in Albums
    BY <1>1, <1>7 DEF GrowFails, Sound
  <2>2. PICK served \in {FALSE, MayGrow(r)} :
          /\ item' = IF served THEN Grown(run[r].at) ELSE item
          /\ run' = [Settled(served, run[r].at) EXCEPT
                       ![r].phase = "deliver", ![r].at = None, ![r].failed = TRUE]
    BY <1>7 DEF GrowFails
  <2>3. served \in BOOLEAN
    BY DEF MayGrow
  <2> QED
    BY <1>5, <1>7, <2>1, <2>2, <2>3 DEF GrowFails
<1>8. ASSUME NEW p \in Pair, Create(r, p) PROVE IInv'
  <2> DEFINE x == [run[r] EXCEPT !.phase = "grow", !.at = p.album, !.todo = @ \ {p},
                                 !.told = @ \cup OpenAt(p.album)]
  <2>1. p.album \in Albums /\ OpenAt(p.album) \in SUBSET Items
    BY DEF Pair, OpenAt
  <2>2. x \in Run
    BY <1>1, <2>1 DEF Run
  <2>3. \A i \in OpenAt(p.album) : AlbumOf[i] = p.album
    BY DEF OpenAt
  <2>4. ~run[r].failed => run[r].told = {}
    BY <1>1, <1>8 DEF Sound, Create
  <2>5. Sound(x)
    BY <1>1, <2>1, <2>3, <2>4 DEF Sound, Run
  <2>6. run' = [run EXCEPT ![r] = x]
    BY <1>8 DEF Create
  <2> HIDE DEF x
  <2>7. OwnDraft' /\ draft' \in [Albums -> [by : Runs, about : Albums, open : BOOLEAN] \cup {NoDraft}]
    BY <1>8, DraftedOwn DEF Create
  <2> QED
    BY <1>8, <2>2, <2>5, <2>6, <2>7, OneRun DEF Create, IInv, TypeOK
<1>9. ASSUME NEW p \in Pair, NEW failed \in BOOLEAN, NEW denied \in BOOLEAN,
             NEW S \in SUBSET Items, failed \/ S \subseteq run[r].told,
             run[r].failed => failed, run[r].phase = "deliver",
             run' = [run EXCEPT ![r].todo = @ \ {p}, ![r].failed = failed,
                                ![r].denied = denied, ![r].told = S]
      PROVE  run' \in [Runs -> Run] /\ \A q \in Runs : Sound(run'[q])
  <2> DEFINE x == [run[r] EXCEPT !.todo = @ \ {p}, !.failed = failed,
                                 !.denied = denied, !.told = S]
  <2>1. x \in Run
    BY <1>1, <1>9 DEF Run
  <2>2. Sound(x)
    BY <1>1, <1>9 DEF Sound, Run
  <2>3. run' = [run EXCEPT ![r] = x]
    BY <1>9
  <2> HIDE DEF x
  <2> QED
    BY <2>1, <2>2, <2>3, OneRun
<1>10. run[r].failed \in BOOLEAN /\ run[r].denied \in BOOLEAN /\ run[r].told \in SUBSET Items
  BY <1>1 DEF Run
<1>11. ASSUME NEW p \in Pair, Stuck(r, p) PROVE IInv'
  <2> DEFINE S == run[r].told \cup OpenAt(p.album)
  <2>1. S \in SUBSET Items
    BY <1>10 DEF OpenAt
  <2>2. run' = [run EXCEPT ![r].todo = @ \ {p}, ![r].failed = TRUE,
                           ![r].denied = run[r].denied, ![r].told = S]
    BY <1>1, <1>11 DEF Stuck, Run, TypeOK
  <2> HIDE DEF S
  <2> QED
    BY <1>9, <1>10, <1>11, <2>1, <2>2 DEF Stuck, IInv, TypeOK, OwnDraft
<1>12. ASSUME NEW p \in Pair, Denied(r, p) PROVE IInv'
  <2>1. run' = [run EXCEPT ![r].todo = @ \ {p}, ![r].failed = run[r].failed,
                           ![r].denied = TRUE, ![r].told = run[r].told]
    BY <1>1, <1>12 DEF Denied, Run, TypeOK
  <2>2. run[r].phase = "deliver" /\ TRUE \in BOOLEAN /\ run[r].told \subseteq run[r].told
    BY <1>12 DEF Denied
  <2>3. run' \in [Runs -> Run] /\ \A q \in Runs : Sound(run'[q])
    BY <1>9, <1>10, <2>1, <2>2
  <2> QED
    BY <1>12, <2>3 DEF Denied, IInv, TypeOK, OwnDraft
<1>13. ASSUME NEW p \in Pair, Skipped(r, p) PROVE IInv'
  <2>1. run' = [run EXCEPT ![r].todo = @ \ {p}, ![r].failed = run[r].failed,
                           ![r].denied = run[r].denied, ![r].told = run[r].told]
    BY <1>1, <1>13 DEF Skipped, Run, TypeOK
  <2>2. run[r].phase = "deliver" /\ run[r].told \subseteq run[r].told
    BY <1>13 DEF Skipped
  <2>3. run' \in [Runs -> Run] /\ \A q \in Runs : Sound(run'[q])
    BY <1>9, <1>10, <2>1, <2>2
  <2>4. OwnDraft' /\ draft' \in [Albums -> [by : Runs, about : Albums, open : BOOLEAN] \cup {NoDraft}]
    BY <1>13, DraftedOwn DEF Skipped, IInv, TypeOK, OwnDraft
  <2> QED
    BY <1>13, <2>3, <2>4 DEF Skipped, IInv, TypeOK
<1> QED
  BY <1>2, <1>3, <1>4, <1>6, <1>7, <1>8, <1>11, <1>12, <1>13 DEF Deliver

LEMMA OwnerStep ==
  ASSUME IInv, Owner
  PROVE  IInv'
<1>1. ASSUME NEW i \in Items, Check(i) PROVE IInv'
  BY <1>1 DEF Check, IInv, TypeOK, OwnDraft
<1>2. ASSUME NEW i \in Items, Uncheck(i) PROVE IInv'
  <2>1. ASSUME NEW q \in Runs PROVE run'[q] \in Run /\ Sound(run'[q])
    <3>1. run[q] \in Run /\ Sound(run[q])
      BY DEF IInv, TypeOK
    <3>2. run'[q] = [run[q] EXCEPT !.told = run[q].told \ {i}]
      BY <1>2 DEF Uncheck
    <3> QED
      BY <3>1, <3>2, LessTold
  <2>2. run' \in [Runs -> Run]
    BY <1>2, <2>1 DEF Uncheck
  <2> QED
    BY <1>2, <2>1, <2>2 DEF Uncheck, IInv, TypeOK, OwnDraft
<1>3. ASSUME NEW a \in Albums, Publish(a) PROVE IInv'
  <2> DEFINE Post == [by : Runs, about : Albums, open : BOOLEAN] \cup {NoDraft}
             closed == [draft[a] EXCEPT !.open = FALSE]
  <2>1. draft[a] \in Post
    BY DEF IInv, TypeOK
  <2>2. closed \in Post /\ closed.about = draft[a].about /\ (closed # NoDraft => draft[a] # NoDraft)
    <3>1. CASE draft[a] = NoDraft
      <4>1. DOMAIN NoDraft = {"by", "about", "open"} /\ NoDraft.open = FALSE
        BY DEF NoDraft
      <4>2. closed = NoDraft
        BY <3>1, <4>1 DEF NoDraft
      <4> QED
        BY <3>1, <4>2
    <3>2. CASE draft[a] # NoDraft
      BY <2>1, <3>2
    <3> QED
      BY <3>1, <3>2
  <2>3. draft' = draft \/ draft' = [draft EXCEPT ![a] = closed]
    BY <1>3 DEF Publish
  <2> HIDE DEF closed, Post
  <2>4. draft' \in [Albums -> Post]
    BY <2>2, <2>3 DEF IInv, TypeOK, Post
  <2>5. OwnDraft'
    <3>1. ASSUME NEW b \in Albums, draft'[b] # NoDraft PROVE draft'[b].about = b
      BY <2>2, <2>3, <3>1 DEF IInv, TypeOK, OwnDraft
    <3> QED
      BY <3>1 DEF OwnDraft
  <2> QED
    BY <1>3, <2>4, <2>5 DEF Publish, IInv, TypeOK, Post
<1>4. ASSUME NEW a \in Albums, Discard(a) PROVE IInv'
  BY <1>4 DEF Discard, IInv, TypeOK, OwnDraft
<1>5. ASSUME NEW a \in Albums, Recover(a) PROVE IInv'
  BY <1>5, GrownType, SettledSound DEF Recover, IInv, TypeOK, OwnDraft
<1> QED
  BY <1>1, <1>2, <1>3, <1>4, <1>5 DEF Owner

LEMMA InductiveStep ==
  ASSUME IInv, [Next]_vars
  PROVE  IInv'
<1>1. ASSUME NEW r \in Runs, Start(r) PROVE IInv'
  <2> DEFINE x == [Off EXCEPT !.phase = "call", !.memos = Memos]
  <2>1. Memos \in SUBSET Albums
    BY NightlyConstants DEF Memos
  <2>2. x \in Run /\ Sound(x)
    BY <2>1, OffSound DEF Run, Sound, Off
  <2>3. run' = [run EXCEPT ![r] = x]
    BY <1>1 DEF Start
  <2> HIDE DEF x
  <2> QED
    BY <1>1, <2>2, <2>3, OneRun DEF Start, IInv, TypeOK, OwnDraft
<1>2. ASSUME NEW r \in Runs, Abort(r) PROVE IInv'
  BY <1>2, ExitSound DEF Abort, IInv, TypeOK, OwnDraft
<1>3. CASE UNCHANGED vars
  BY <1>3 DEF vars, IInv, TypeOK, OwnDraft
<1> QED
  BY <1>1, <1>2, <1>3, OwnerStep, AnswerStep, DeliverStep DEF Next

LEMMA InitialState ==
  ASSUME Init
  PROVE  IInv
BY OffSound DEF Init, IInv, TypeOK, OwnDraft, NoDraft

-----------------------------------------------------------------------------
(* The theorems. *)

(* Types, own drafts and the accounting of a delivery, together inductive. *)
THEOREM Invariant == Spec => []IInv
<1>1. Init => IInv
  BY InitialState
<1>2. IInv /\ [Next]_vars => IInv'
  BY InductiveStep
<1> QED
  BY <1>1, <1>2, PTL DEF Spec

(* A draft is about the album whose title it carries. *)
THEOREM DraftsAreOwn == Spec => []OwnDraft
<1>1. IInv => OwnDraft
  BY DEF IInv
<1> QED
  BY <1>1, Invariant, PTL

(* Exit 0 hides no memo that stays open next to a draft the run was told of. *)
THEOREM ExitIsHonest == Spec => HonestExit
<1>1. ASSUME IInv, NEW r \in Runs, Finish(r), Code(r) = 0 PROVE run[r].told = {}
  <2>1. run[r] \in Run /\ Sound(run[r])
    BY <1>1 DEF IInv, TypeOK
  <2>2. ~run[r].failed
    BY <1>1 DEF Code
  <2> QED
    BY <1>1, <2>1, <2>2 DEF Finish, Sound
<1>2. IInv /\ [Next]_vars =>
        [\A r \in Runs : Finish(r) /\ Code(r) = 0 =>
           \A i \in run[r].told : ~(Open(i) /\ draft[AlbumOf[i]] # NoDraft)]_vars
  BY <1>1
<1> QED
  BY <1>2, Invariant, PTL DEF Spec, HonestExit

=============================================================================
