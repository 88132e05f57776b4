---------------------------- MODULE NightlyDrafts ----------------------------
(***************************************************************************)
(* scripts/buckit_nightly.py: runs that turn the owner's checked memos into *)
(* draft posts through one model call, then stamp and uncheck the memos,    *)
(* night after night, next to a run started by hand and to the owner.       *)
(*                                                                         *)
(* A file is the memo it is about and its name; the name is a memo's exact  *)
(* one, or drifted in case, spaces and separators, which the fold of the    *)
(* names undoes.  The model does not write a memo under the exact name of   *)
(* another one.                                                             *)
(***************************************************************************)
EXTENDS Naturals, FiniteSets

CONSTANTS
  Runs,      \* processes: the scheduled one, one by hand
  Manual,    \* the runs that may carry --no-draft
  Items,     \* the owner's bucket items
  Albums,
  AlbumOf,   \* item -> album
  Bases,     \* what _slug makes of artists and titles
  Keys, Fold,  \* base -> what _norm_key makes of it
  None

ASSUME NightlyConstants ==
  /\ Manual \subseteq Runs /\ IsFiniteSet(Albums)
  /\ AlbumOf \in [Items -> Albums] /\ Fold \in [Bases -> Keys]
  /\ Bases \cap Keys = {} /\ None \notin Runs \cup Albums

VARIABLES
  base,     \* album -> the base of its file name, from artist and title
  item,     \* review_bucket_items: prep_tonight, and post_id set or not
  reviewed, \* albums in post_albums
  draft,    \* album -> the post with the slug of its working title
  run       \* run -> where it stands

vars == <<base, item, reviewed, draft, run>>

NoDraft == [by |-> None, about |-> None, open |-> FALSE]

Pair == [album : Albums, about : Albums]

Run ==
  [phase : {"off", "call", "mint", "deliver", "grow"},
   memos : SUBSET Albums,        \* the export
   todo : SUBSET Pair,           \* pairs of memo and file not delivered yet
   at : Albums \cup {None},      \* the memo of the grow call
   denied : BOOLEAN, failed : BOOLEAN,   \* the accounting of deliver_drafts
   told : SUBSET Items]          \* history: open when the server told of their draft

Off ==
  [phase |-> "off", memos |-> {}, todo |-> {}, at |-> None, denied |-> FALSE,
   failed |-> FALSE, told |-> {}]

TypeOK ==
  /\ base \in [Albums -> Bases]
  /\ item \in [Items -> [checked : BOOLEAN, stamped : BOOLEAN]]
  /\ reviewed \subseteq Albums
  /\ draft \in [Albums -> [by : Runs, about : Albums, open : BOOLEAN] \cup {NoDraft}]
  /\ run \in [Runs -> Run]

Init ==
  /\ base \in [Albums -> Bases]
  /\ item \in [Items -> [checked : BOOLEAN, stamped : {FALSE}]]
  /\ reviewed = {}
  /\ draft = [a \in Albums |-> NoDraft]
  /\ run = [r \in Runs |-> Off]

(* The exit status is Code's where a delivery ends. *)
Exit(r) == run' = [run EXCEPT ![r] = Off]

-----------------------------------------------------------------------------
(* The owner. *)

Check(i) ==
  /\ ~item[i].checked /\ item' = [item EXCEPT ![i].checked = TRUE]
  /\ UNCHANGED <<base, reviewed, draft, run>>

Uncheck(i) ==
  /\ item[i].checked /\ item' = [item EXCEPT ![i].checked = FALSE]
  /\ run' = [r \in Runs |-> [run[r] EXCEPT !.told = @ \ {i}]]
  /\ UNCHANGED <<base, reviewed, draft>>

(* She publishes the draft, or a review of her own. *)
Publish(a) ==
  /\ a \notin reviewed /\ reviewed' = reviewed \cup {a}
  /\ draft' \in {draft, [draft EXCEPT ![a].open = FALSE]}
  /\ UNCHANGED <<base, item, run>>

(* She deletes the draft: post_id is set null. *)
Discard(a) ==
  /\ draft[a].open
  /\ draft' = [draft EXCEPT ![a] = NoDraft]
  /\ item' = [i \in Items |-> IF AlbumOf[i] = a THEN [item[i] EXCEPT !.stamped = FALSE]
                              ELSE item[i]]
  /\ UNCHANGED <<base, reviewed, run>>

(* nightly-grow: every checked item of the album, and no stamp is overwritten. *)
Grown(a) ==
  [i \in Items |->
     IF AlbumOf[i] = a /\ item[i].checked /\ ~item[i].stamped
     THEN [checked |-> FALSE, stamped |-> TRUE] ELSE item[i]]

(* History: the items of the album were unchecked. *)
Settled(served, a) ==
  [r \in Runs |-> [run[r] EXCEPT !.told = {i \in @ : ~served \/ AlbumOf[i] # a}]]

(* The recovery the log line asks for. *)
Recover(a) ==
  /\ draft[a].open /\ item' = Grown(a)
  /\ run' = Settled(TRUE, a)
  /\ UNCHANGED <<base, reviewed, draft>>

-----------------------------------------------------------------------------
(* The export and the model's answer. *)

(* CHECKED_SQL *)
Open(i) == item[i].checked /\ ~item[i].stamped /\ AlbumOf[i] \notin reviewed

(* One memo per album, however many of its items are checked. *)
Memos == {AlbumOf[i] : i \in {i \in Items : Open(i)}}

Start(r) ==
  /\ run[r].phase = "off"
  /\ Memos # {}   \* else the summary says so, and no call is made
  /\ run' = [run EXCEPT ![r] = [Off EXCEPT !.phase = "call", !.memos = Memos]]
  /\ UNCHANGED <<base, item, reviewed, draft>>

(* Exit 1: a missing rule file, three transient failures of the model or one final
   one; or a kill. *)
Abort(r) ==
  /\ run[r].phase # "off" /\ Exit(r)
  /\ UNCHANGED <<base, item, reviewed, draft>>

(* Equal bases are numbered in the order of the export. *)
Slugs(memos) ==
  {s \in [memos -> Bases \X (1..Cardinality(memos))] :
     \A a \in memos :
       LET alike == {b \in memos : base[b] = base[a]} IN
       /\ s[a][1] = base[a]
       /\ {s[b][2] : b \in alike} = 1..Cardinality(alike)}

(* _norm_key of an exact name; a drifted name is written as its key. *)
Key(name) == IF name[1] \in Bases THEN <<Fold[name[1]], name[2]>> ELSE name

(* What the prompt asks for: a file per memo, under the proposed name. *)
Files(slug) ==
  UNION {{[name |-> n, about |-> a] : n \in {slug[a], Key(slug[a])}} : a \in DOMAIN slug}

(* Without the check of a fold that two memos share. *)
BoundToAny(name, slug) ==
  LET exact == {a \in DOMAIN slug : slug[a] = name}
  IN IF exact # {} THEN exact ELSE {a \in DOMAIN slug : Key(slug[a]) = Key(name)}   \* mutant

(* The memos a name is bound to: by its exact slug, else by a fold no two memos share. *)
Bound(name, slug) ==
  LET exact == {a \in DOMAIN slug : slug[a] = name}
      folded == {a \in DOMAIN slug : Key(slug[a]) = Key(name)}
  IN IF exact # {} THEN exact ELSE IF Cardinality(folded) = 1 THEN folded ELSE {}

(* Every file goes to at most one memo and the first of a memo wins; the others
   are orphans and stay on disk. *)
Pairings(slug, files) ==
  LET all == UNION {{[album |-> a, about |-> f.about] : a \in Bound(f.name, slug)} : f \in files}
  IN {T \in SUBSET all : \A p \in all : Cardinality({q \in T : q.album = p.album}) = 1}

(* An answer without a file is parked and the run is over with exit 0, as with
   --no-draft once the files are written. *)
Answer(r) ==
  /\ run[r].phase = "call"
  /\ \E slug \in Slugs(run[r].memos) : \E files \in SUBSET Files(slug) :
       \/ (files = {} \/ r \in Manual) /\ Exit(r)
       \/ /\ files # {}
          /\ \E T \in Pairings(slug, files) :
               run' = [run EXCEPT ![r].phase = "mint", ![r].memos = {}, ![r].todo = T]
  /\ UNCHANGED <<base, item, reviewed, draft>>

-----------------------------------------------------------------------------
(* The delivery. *)

Mint(r) ==
  /\ run[r].phase = "mint"
  /\ run' = [run EXCEPT ![r].phase = "deliver"]
  /\ UNCHANGED <<base, item, reviewed, draft>>

(* Exit 3: no token, or an exception on the way. *)
DeliveryFails(r) ==
  /\ run[r].phase \in {"mint", "deliver", "grow"} /\ Exit(r)
  /\ UNCHANGED <<base, item, reviewed, draft>>

Drafted(r, p) ==
  draft' = [draft EXCEPT ![p.album] = [by |-> r, about |-> p.about, open |-> TRUE]]

OpenAt(a) == {i \in Items : Open(i) /\ AlbumOf[i] = a}

(* POST /api/posts, answered 200. *)
Create(r, p) ==
  /\ run[r].phase = "deliver" /\ p \in run[r].todo
  /\ draft[p.album] = NoDraft
  /\ Drafted(r, p)
  /\ run' = [run EXCEPT ![r].phase = "grow", ![r].at = p.album, ![r].todo = @ \ {p},
                        ![r].told = @ \cup OpenAt(p.album)]
  /\ UNCHANGED <<base, item, reviewed>>

(* 409: the slug is taken. *)
Stuck(r, p) ==
  /\ run[r].phase = "deliver" /\ p \in run[r].todo
  /\ draft[p.album] # NoDraft
  /\ run' = [run EXCEPT ![r].todo = @ \ {p}, ![r].failed = TRUE,
                        ![r].told = @ \cup OpenAt(p.album)]
  /\ UNCHANGED <<base, item, reviewed, draft>>

(* 401 or 403. *)
Denied(r, p) ==
  /\ run[r].phase = "deliver" /\ p \in run[r].todo
  /\ run' = [run EXCEPT ![r].todo = @ \ {p}, ![r].denied = TRUE]
  /\ UNCHANGED <<base, item, reviewed, draft>>

(* A 5xx or a transport error: the request was not served, or its answer lost. *)
Skipped(r, p) ==
  /\ run[r].phase = "deliver" /\ p \in run[r].todo
  /\ run' = [run EXCEPT ![r].todo = @ \ {p}]
  /\ \/ UNCHANGED draft
     \/ draft[p.album] = NoDraft /\ Drafted(r, p)
  /\ UNCHANGED <<base, item, reviewed>>

(* nightly-grow takes the id of a post that is still a draft. *)
MayGrow(r) == draft[run[r].at].by = r /\ draft[run[r].at].open

(* Answered 200 with any number of items. *)
Grow(r) ==
  /\ run[r].phase = "grow" /\ MayGrow(r)
  /\ item' = Grown(run[r].at)
  /\ run' = [Settled(TRUE, run[r].at) EXCEPT ![r].phase = "deliver", ![r].at = None]
  /\ UNCHANGED <<base, reviewed, draft>>

(* Refused, not served, or served with the answer lost. *)
GrowFails(r) ==
  /\ run[r].phase = "grow"
  /\ \E served \in {FALSE, MayGrow(r)} :
       /\ item' = IF served THEN Grown(run[r].at) ELSE item
       /\ run' = [Settled(served, run[r].at) EXCEPT
                    ![r].phase = "deliver", ![r].at = None, ![r].failed = TRUE]
  /\ UNCHANGED <<base, reviewed, draft>>

CodeOfDenied(r) == IF run[r].denied THEN 2 ELSE 0   \* mutant

Code(r) == IF run[r].denied THEN 2 ELSE IF run[r].failed THEN 4 ELSE 0

Finish(r) ==
  /\ run[r].phase = "deliver" /\ run[r].todo = {}
  /\ Exit(r)
  /\ UNCHANGED <<base, item, reviewed, draft>>

Owner ==
  \/ \E i \in Items : Check(i) \/ Uncheck(i)
  \/ \E a \in Albums : Publish(a) \/ Discard(a) \/ Recover(a)

Deliver(r) ==
  \/ Mint(r) \/ DeliveryFails(r) \/ Grow(r) \/ GrowFails(r) \/ Finish(r)
  \/ \E p \in Pair : Create(r, p) \/ Stuck(r, p) \/ Denied(r, p) \/ Skipped(r, p)

Next ==
  \/ Owner
  \/ \E r \in Runs : Start(r) \/ Abort(r) \/ Answer(r) \/ Deliver(r)

Spec == Init /\ [][Next]_vars

-----------------------------------------------------------------------------
(* A draft is about the album whose title it carries, whatever two memos share
   in their names.  The model may spell a name its own way, as Files has it: in
   the fold of its memo, never as the exact slug of another one. *)
OwnDraft == \A a \in Albums : draft[a] # NoDraft => draft[a].about = a

(* A delivery that ends with exit 0 leaves no memo open, untouched since, whose
   draft the server told it of: the nights that would generate a memo again for
   nothing show in the status. *)
HonestExit ==
  [][\A r \in Runs : Finish(r) /\ Code(r) = 0 =>
       \A i \in run[r].told : ~(Open(i) /\ draft[AlbumOf[i]] # NoDraft)]_vars
=============================================================================
