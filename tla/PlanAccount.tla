----------------------------- MODULE PlanAccount -----------------------------
(***************************************************************************)
(* scripts/gpt_plan_auth.py with its two users: the slots of a queue run   *)
(* (gpt_plan_client.py) and the setup screens (gpt_worker_setup.py).  They *)
(* share session files, settings.json, and three locks: account.lock is    *)
(* held through a renewal, worker.lock by a run, a sign-in or a save,      *)
(* control.lock by whoever writes the settings.                            *)
(*                                                                         *)
(* A session is the number of its refresh token, in the order the provider *)
(* granted them.  The provider rotates a token when it renews it, or not.  *)
(***************************************************************************)
EXTENDS Naturals, FiniteSets

CONSTANTS
  Accounts,
  Models,
  Catalog,     \* account -> the models the provider lists for it
  Slots,       \* inference slots of one run
  Screens,     \* setup servers, each serving one request at a time
  None,        \* no account, no model, nobody
  MaxSessions, \* bound: refresh tokens the provider grants
  MaxEdits     \* bound: owner's switches, revocations and crashes

ASSUME PlanConstants ==
  /\ Catalog \in [Accounts -> SUBSET Models]
  /\ None \notin Accounts \cup Models \cup Slots \cup Screens
  /\ Slots \cap Screens = {} /\ "run" \notin Screens \cup {None}
  /\ MaxSessions \in Nat /\ MaxEdits \in Nat

VARIABLES
  settings,  \* settings.json: active, model, enabled
  record,    \* account -> its session file
  pending,   \* screen -> the sign-in it began
  account,   \* holder of account.lock
  worker,    \* holder of worker.lock: a run, a screen, or None
  proc,      \* slot or screen -> where it stands
  valid,     \* the provider: refresh tokens it accepts
  granted,   \* the provider: refresh tokens granted so far
  edits,     \* bound
  ran,       \* history: account and model of settings.json when the run started
  verified,  \* history: account and model the owner enabled
  gone       \* history: tokens revoked, or whose renewal's answer was lost

provider == <<valid, granted>>
history == <<ran, verified, gone>>
vars == <<settings, record, pending, account, worker, proc, provider, edits, history>>

Procs == Slots \cup Screens
Tokens == 1..MaxSessions

(* token is 0 when the session was never there or has been cleared. *)
Record == [token : 0..MaxSessions, fresh : BOOLEAN]   \* fresh: expires_at > now + 120

NoRecord == [token |-> 0, fresh |-> FALSE]

(* subject None: the account is whichever signs in. *)
Pending == [open : BOOLEAN, subject : Accounts \cup {None}]

NoPending == [open |-> FALSE, subject |-> None]

Proc ==
  [phase : {"idle", "renewing", "answered", "using", "stopping", "saving",
            "exchanging", "verified", "recorded"},
   key : Accounts \cup {None},
   token : 0..MaxSessions,    \* the one presented
   new : 0..MaxSessions,      \* the one received, 0 when the provider refused
   model : Models \cup {None}]

Idle == [phase |-> "idle", key |-> None, token |-> 0, new |-> 0, model |-> None]

Choice == [active : Accounts \cup {None}, model : Models \cup {None}]

Nothing == [active |-> None, model |-> None]

(* Which account and model the settings name. *)
Named == [active |-> settings.active, model |-> settings.model]

Settings ==
  [active : Accounts \cup {None}, model : Models \cup {None}, enabled : BOOLEAN]

TypeOK ==
  /\ settings \in Settings
  /\ record \in [Accounts -> Record]
  /\ pending \in [Screens -> Pending]
  /\ account \in Procs \cup {None}
  /\ worker \in {"run", None} \cup Screens
  /\ proc \in [Procs -> Proc]
  /\ valid \subseteq Tokens /\ granted \in 0..MaxSessions
  /\ edits \in 0..MaxEdits
  /\ ran \in Choice /\ verified \in Choice /\ gone \subseteq Tokens

Init ==
  /\ settings = [active |-> None, model |-> None, enabled |-> FALSE]
  /\ record = [a \in Accounts |-> NoRecord]
  /\ pending = [s \in Screens |-> NoPending]
  /\ account = None /\ worker = None
  /\ proc = [p \in Procs |-> Idle]
  /\ valid = {} /\ granted = 0
  /\ edits = 0
  /\ ran = Nothing /\ verified = Nothing /\ gone = {}

-----------------------------------------------------------------------------
(* Locks.  flock excludes threads as well as processes: each opens the file. *)

Unlocked == TRUE   \* mutant

AccountFree == account = None

AccountFreeToSave == account = None

WorkerFree == worker = None

(* A run holds worker.lock while any of its slots is at work. *)
Running(s) == worker = "run" /\ s \in Slots

Leave(p) == proc' = [proc EXCEPT ![p] = Idle]

(* PlanUnavailable or a transport error: a slot stops the worker for it, a screen
   shows a message. *)
Raised(p) ==
  proc' = [proc EXCEPT ![p] = [Idle EXCEPT !.phase = IF p \in Slots THEN "stopping" ELSE "idle"]]

-----------------------------------------------------------------------------
(* credentials *)

Calls(p) == proc[p].phase = "idle" /\ (p \in Slots => Running(p))

HasSession == settings.active # None /\ record[settings.active].token # 0

(* Under account.lock: the active account's session is missing or cleared, *)
NoSession(p) ==
  /\ Calls(p) /\ AccountFree
  /\ ~HasSession
  /\ Raised(p)
  /\ UNCHANGED <<settings, record, pending, account, worker, provider, edits, history>>

(* ... or fresh enough to be used, *)
UseSession(p) ==
  /\ Calls(p) /\ AccountFree
  /\ HasSession /\ record[settings.active].fresh
  /\ proc' = [proc EXCEPT ![p].phase = "using", ![p].key = settings.active]
  /\ UNCHANGED <<settings, record, pending, account, worker, provider, edits, history>>

(* ... or to be renewed, and the lock is kept until the answer is written. *)
Renew(p) ==
  /\ Calls(p) /\ AccountFree
  /\ HasSession /\ ~record[settings.active].fresh
  /\ account' = p
  /\ proc' = [proc EXCEPT ![p].phase = "renewing", ![p].key = settings.active,
                          ![p].token = record[settings.active].token]
  /\ UNCHANGED <<settings, record, pending, worker, provider, edits, history>>

KeepLock(p) == UNCHANGED account   \* mutant

Unlock(p) == account' = IF account = p THEN None ELSE account

Renewing(p) == proc[p].phase \in {"renewing", "answered"}

(* The answer in p's hands has spent the token in the record. *)
Replacing(p) == proc[p].phase = "answered" /\ proc[p].new \notin {0, proc[p].token}

(* The provider takes the token and grants a new one. *)
Rotate(p) ==
  /\ proc[p].phase = "renewing" /\ proc[p].token \in valid
  /\ granted < MaxSessions
  /\ granted' = granted + 1
  /\ valid' = (valid \ {proc[p].token}) \cup {granted + 1}

Rotates(p) ==
  /\ Rotate(p)
  /\ proc' = [proc EXCEPT ![p].phase = "answered", ![p].new = granted + 1]
  /\ UNCHANGED <<settings, record, pending, account, worker, edits, history>>

(* ... and its answer is lost. *)
RotatesUnheard(p) ==
  /\ Rotate(p)
  /\ gone' = gone \cup {proc[p].token}
  /\ Raised(p) /\ Unlock(p)
  /\ UNCHANGED <<settings, record, pending, worker, edits, ran, verified>>

(* A provider that does not rotate: the response names no new refresh token. *)
RenewsSame(p) ==
  /\ proc[p].phase = "renewing" /\ proc[p].token \in valid
  /\ proc' = [proc EXCEPT ![p].phase = "answered", ![p].new = proc[p].token]
  /\ UNCHANGED <<settings, record, pending, account, worker, provider, edits, history>>

(* invalid_grant and its kin. *)
Rejects(p) ==
  /\ proc[p].phase = "renewing" /\ proc[p].token \notin valid
  /\ proc' = [proc EXCEPT ![p].phase = "answered", ![p].new = 0]
  /\ UNCHANGED <<settings, record, pending, account, worker, provider, edits, history>>

(* The request did not arrive, or the provider was unavailable: the record stays. *)
NotRenewed(p) ==
  /\ proc[p].phase = "renewing"
  /\ Raised(p) /\ Unlock(p)
  /\ UNCHANGED <<settings, record, pending, worker, provider, edits, history>>

(* The answer passed its checks (scope, identity, subject) and is written. *)
StoreRenewed(p) ==
  /\ proc[p].phase = "answered" /\ proc[p].new # 0
  /\ record' = [record EXCEPT ![proc[p].key] = [token |-> proc[p].new, fresh |-> TRUE]]
  /\ proc' = [proc EXCEPT ![p] = [Idle EXCEPT !.phase = "using", !.key = proc[p].key]]
  /\ Unlock(p)
  /\ UNCHANGED <<settings, pending, worker, provider, edits, history>>

(* A check fails, or the identity keys cannot be read: the answer is dropped. *)
DropRenewed(p) ==
  /\ proc[p].phase = "answered" /\ proc[p].new # 0
  /\ gone' = gone \cup ({proc[p].token} \ {proc[p].new})
  /\ Raised(p) /\ Unlock(p)
  /\ UNCHANGED <<settings, record, pending, worker, provider, edits, ran, verified>>

(* A rejected session's tokens are removed. *)
ClearRejected(p) ==
  /\ proc[p].phase = "answered" /\ proc[p].new = 0
  /\ record' = [record EXCEPT ![proc[p].key] = NoRecord]
  /\ Raised(p) /\ Unlock(p)
  /\ UNCHANGED <<settings, pending, worker, provider, edits, history>>

-----------------------------------------------------------------------------
(* A run: gpt_queue_worker.main, its slots, and the stop of a failed call. *)

Start ==
  /\ WorkerFree
  /\ settings.model # None
  /\ \/ settings.enabled /\ UNCHANGED edits
     \/ edits < MaxEdits /\ edits' = edits + 1   \* --smoke
  /\ worker' = "run" /\ ran' = Named
  /\ UNCHANGED <<settings, record, pending, account, proc, provider, verified, gone>>

RunEnds ==
  /\ worker = "run" /\ \A s \in Slots : proc[s].phase = "idle"
  /\ worker' = None /\ ran' = Nothing
  /\ UNCHANGED <<settings, record, pending, account, proc, provider, edits, verified, gone>>

(* The stream ends, well or badly; a rejection of the plan stops the worker. *)
StreamEnds(s) ==
  /\ proc[s].phase = "using"
  /\ Leave(s) \/ Raised(s)
  /\ UNCHANGED <<settings, record, pending, account, worker, provider, edits, history>>

(* Under control.lock, which no screen keeps while a run has worker.lock. *)
StopWorker(s) ==
  /\ proc[s].phase = "stopping"
  /\ settings' = [settings EXCEPT !.enabled = FALSE]
  /\ Leave(s)
  /\ UNCHANGED <<record, pending, account, worker, provider, edits, history>>

-----------------------------------------------------------------------------
(* A setup screen. *)

(* /login: for the account that is active and has a file, or for any. *)
Login(s) ==
  /\ proc[s].phase = "idle"
  /\ account = None   \* host_id
  /\ \E new \in {settings.active, None} :   \* None with --new-account
       pending' = [pending EXCEPT ![s] = [open |-> TRUE, subject |-> new]]
  /\ UNCHANGED <<settings, record, account, worker, proc, provider, edits, history>>

(* The callback takes the pending sign-in, and worker.lock if it is free. *)
Callback(s) ==
  /\ proc[s].phase = "idle" /\ pending[s].open
  /\ pending' = [pending EXCEPT ![s] = NoPending]
  /\ IF WorkerFree
     THEN /\ worker' = s
          /\ proc' = [proc EXCEPT ![s].phase = "exchanging", ![s].key = pending[s].subject]
     ELSE UNCHANGED <<worker, proc>>
  /\ UNCHANGED <<settings, record, account, provider, edits, history>>

(* finish: the code is exchanged and the identity checked, without account.lock. *)
Exchange(s, a) ==
  /\ proc[s].phase = "exchanging"
  /\ proc[s].key \in {a, None}
  /\ granted < MaxSessions
  /\ granted' = granted + 1 /\ valid' = valid \cup {granted + 1}
  /\ proc' = [proc EXCEPT ![s].phase = "verified", ![s].key = a, ![s].new = granted + 1]
  /\ UNCHANGED <<settings, record, pending, account, worker, edits, history>>

SignInFails(s) ==
  /\ proc[s].phase = "exchanging"
  /\ Leave(s)
  /\ worker' = IF worker = s THEN None ELSE worker
  /\ UNCHANGED <<settings, record, pending, account, provider, edits, history>>

SaveSession(s) ==
  /\ proc[s].phase = "verified" /\ AccountFreeToSave
  /\ account' = s
  /\ record' = [record EXCEPT ![proc[s].key] = [token |-> proc[s].new, fresh |-> TRUE]]
  /\ proc' = [proc EXCEPT ![s].phase = "recorded"]
  /\ UNCHANGED <<settings, pending, worker, provider, edits, history>>

(* Sign-in never starts background inference by itself. *)
SignedIn(a) == [active |-> a, model |-> None, enabled |-> FALSE]

Activate(s) ==
  /\ proc[s].phase = "recorded"
  /\ settings' = SignedIn(proc[s].key)
  /\ Leave(s) /\ Unlock(s)
  /\ worker' = IF worker = s THEN None ELSE worker
  /\ UNCHANGED <<record, pending, provider, edits, history>>

(* /save: the model is one of the account's catalog, read with its credentials;
   /models only shows the catalog. *)
Choose(s) ==
  /\ proc[s].phase = "using"
  /\ \/ Leave(s)
     \/ \E m \in Catalog[proc[s].key] :
          proc' = [proc EXCEPT ![s].phase = "saving", ![s].model = m]
  /\ UNCHANGED <<settings, record, pending, account, worker, provider, edits, history>>

SaveKeepsEnabled(m) == [settings EXCEPT !.model = m]   \* mutant

Chosen(m) == [settings EXCEPT !.model = m, !.enabled = FALSE]

(* Then the locks, and the write; a run that holds worker.lock refuses it. *)
Save(s) ==
  /\ proc[s].phase = "saving" /\ WorkerFree
  /\ settings' = Chosen(proc[s].model)
  /\ Leave(s)
  /\ UNCHANGED <<record, pending, account, worker, provider, edits, history>>

SaveRefused(s) ==
  /\ proc[s].phase = "saving" /\ ~WorkerFree
  /\ Leave(s)
  /\ UNCHANGED <<settings, record, pending, account, worker, provider, edits, history>>

(* /pause needs control.lock only. *)
Pause(s) ==
  /\ proc[s].phase = "idle" /\ settings.enabled
  /\ worker \in {None, "run"}
  /\ settings' = [settings EXCEPT !.enabled = FALSE]
  /\ UNCHANGED <<record, pending, account, worker, proc, provider, edits, history>>

-----------------------------------------------------------------------------
(* The owner, the clock, the provider, and processes that die. *)

Edit == edits < MaxEdits /\ edits' = edits + 1

(* The owner checked a smoke with this account and model and edits settings.json. *)
OwnerEnables ==
  /\ Edit /\ ~settings.enabled /\ settings.model # None
  /\ settings' = [settings EXCEPT !.enabled = TRUE] /\ verified' = Named
  /\ UNCHANGED <<record, pending, account, worker, proc, provider, ran, gone>>

Expires(a) ==
  /\ record[a].fresh
  /\ record' = [record EXCEPT ![a].fresh = FALSE]
  /\ UNCHANGED <<settings, pending, account, worker, proc, provider, edits, history>>

Revokes(t) ==
  /\ Edit /\ t \in valid
  /\ valid' = valid \ {t} /\ gone' = gone \cup {t}
  /\ UNCHANGED <<settings, record, pending, account, worker, proc, granted, ran, verified>>

(* The locks of the dead are free, and an answer they had not written is lost. *)
Dies(dead) ==
  /\ Edit
  /\ proc' = [p \in Procs |-> IF p \in dead THEN Idle ELSE proc[p]]
  /\ account' = IF account \in dead THEN None ELSE account
  /\ gone' = gone \cup {t \in Tokens : \E p \in dead : Replacing(p) /\ proc[p].token = t}

RunDies ==
  /\ worker = "run" /\ worker' = None /\ ran' = Nothing
  /\ Dies(Slots)
  /\ UNCHANGED <<settings, record, pending, provider, verified>>

ScreenDies(s) ==
  /\ worker' = IF worker = s THEN None ELSE worker
  /\ pending' = [pending EXCEPT ![s] = NoPending]
  /\ Dies({s})
  /\ UNCHANGED <<settings, record, provider, ran, verified>>

-----------------------------------------------------------------------------
Session(p) ==
  \/ NoSession(p) \/ UseSession(p) \/ Renew(p)
  \/ Rotates(p) \/ RotatesUnheard(p) \/ RenewsSame(p) \/ Rejects(p) \/ NotRenewed(p)
  \/ StoreRenewed(p) \/ DropRenewed(p) \/ ClearRejected(p)

Screen(s) ==
  \/ Login(s) \/ Callback(s) \/ SignInFails(s) \/ SaveSession(s) \/ Activate(s)
  \/ \E a \in Accounts : Exchange(s, a)
  \/ Choose(s) \/ Save(s) \/ SaveRefused(s) \/ Pause(s) \/ ScreenDies(s)

Run == Start \/ RunEnds \/ RunDies \/ \E s \in Slots : StreamEnds(s) \/ StopWorker(s)

Environment ==
  \/ OwnerEnables
  \/ \E a \in Accounts : Expires(a)
  \/ \E t \in Tokens : Revokes(t)

Next ==
  \/ \E p \in Procs : Session(p)
  \/ \E s \in Screens : Screen(s)
  \/ Run \/ Environment

Spec == Init /\ [][Next]_vars

-----------------------------------------------------------------------------
(* The inductive invariant. *)

(* Who stands where holds which lock, and nobody else does. *)
LocksHeld ==
  /\ \A p \in Procs : account = p <=> Renewing(p) \/ proc[p].phase = "recorded"
  /\ \A s \in Screens :
       /\ worker = s <=> proc[s].phase \in {"exchanging", "verified", "recorded"}
       /\ proc[s].phase # "stopping"
  /\ \A s \in Slots :
       /\ proc[s].phase \in {"idle", "renewing", "answered", "using", "stopping"}
       /\ proc[s].phase # "idle" => worker = "run"

(* A renewal is of the session in the record; what a screen signed in is not there
   yet. *)
Presented ==
  /\ \A p \in Procs :
       /\ Renewing(p) => /\ proc[p].key \in Accounts
                         /\ proc[p].token # 0 /\ record[proc[p].key].token = proc[p].token
       /\ proc[p].phase \in {"using", "verified", "recorded"} => proc[p].key \in Accounts
       /\ proc[p].phase = "verified" => proc[p].new # 0
       /\ proc[p].phase = "saving" => proc[p].model \in Models
  /\ \A a \in Accounts : record[a].fresh => record[a].token # 0

(* The run's slots are at its account. *)
AtRunAccount ==
  \A s \in Slots : Renewing(s) \/ proc[s].phase = "using" => proc[s].key = ran.active

(* No token is in two places. *)
TokensDistinct ==
  /\ \A a, b \in Accounts : record[a].token = record[b].token /\ record[a].token # 0 => a = b
  /\ \A p \in Procs : proc[p].phase = "verified" \/ Replacing(p)
       => /\ \A a \in Accounts : record[a].token # proc[p].new
          /\ \A q \in Procs : proc[q].phase = "verified" \/ Replacing(q)
               => p = q \/ proc[p].new # proc[q].new

(* A token that somebody keeps is accepted, unless it is gone or being replaced. *)
TokensKnown ==
  /\ \A a \in Accounts :
       /\ record[a].token <= granted
       /\ record[a].token = 0 \/ record[a].token \in valid \cup gone
          \/ \E p \in Procs : Replacing(p) /\ proc[p].key = a
  /\ \A p \in Procs :
       /\ proc[p].token <= granted /\ proc[p].new <= granted
       /\ proc[p].phase = "verified" \/ Replacing(p) => proc[p].new \in valid \cup gone
       /\ proc[p].phase = "answered" /\ ~Replacing(p) => proc[p].token \in valid \cup gone
       /\ proc[p].phase = "answered" /\ proc[p].new = 0 => proc[p].token \in gone
  /\ \A t \in valid \cup gone : t <= granted

-----------------------------------------------------------------------------
(* Properties. *)

(* A signed-in session is thrown away only if the provider had ended it or the
   answer that replaced it was lost: never because two slots, or a slot and a
   screen, presented one refresh token. *)
SessionKept ==
  [][\A a \in Accounts : record[a].token # 0 /\ record'[a].token = 0 => record[a].token \in gone]_vars

(* The answer to a renewal replaces only the session that was renewed: not the one
   that a sign-in saved while the renewal was under way. *)
NewSessionKept ==
  [][\A p \in Procs :
       proc[p].phase = "answered" /\ record' # record
         => record[proc[p].key].token = proc[p].token]_vars

(* Account replacement is forbidden while an inference tick runs: a slot infers
   with the account, and the settings keep the model, that its run started with. *)
OneAccountPerRun ==
  /\ \A s \in Slots : proc[s].phase = "using" => proc[s].key = ran.active
  /\ worker = "run" => Named = ran

(* What is enabled is what the owner verified: neither a sign-in nor a save of
   another model starts background work. *)
EnabledAsVerified == settings.enabled => verified = Named

(* The locks, the tokens and the settings agree, in every state. *)
IInv ==
  /\ TypeOK /\ LocksHeld /\ Presented /\ AtRunAccount
  /\ TokensDistinct /\ TokensKnown
  /\ OneAccountPerRun /\ EnabledAsVerified

(* "Only live, account-provided slugs": the saved model is in the active account's
   catalog.  The catalog is read before the locks are taken. *)
ModelOfAccount ==
  settings.active # None /\ settings.model # None => settings.model \in Catalog[settings.active]

=============================================================================
