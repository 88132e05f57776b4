-------------------------- MODULE PlanAccountProofs --------------------------
(***************************************************************************)
(* PlanAccount, for every set of accounts, slots and screens: IInv is      *)
(* inductive, one lemma per action, and it carries the properties that the *)
(* runs check.                                                             *)
(***************************************************************************)
EXTENDS PlanAccount, TLAPS

(* What a slot or a screen is between two calls has the type of one. *)
LEMMA IdleTyped == Idle \in Proc
  BY PlanConstants DEF Idle, Proc

(* A call finds no session: the caller leaves or stops the worker. *)
LEMMA NoSessionKeeps ==
  ASSUME IInv, NEW p \in Procs, NoSession(p)
  PROVE  IInv'
<1>1. UNCHANGED <<settings, record, pending, account, worker, valid, granted, edits, ran,
      verified, gone>>
  BY DEF NoSession, provider, history
<1>2. proc' \in [Procs -> Proc]
  BY PlanConstants DEF IInv, TypeOK, Proc, Idle, NoSession, Raised
<1>3. TypeOK'
  BY <1>1, <1>2 DEF IInv, TypeOK
<1>4. LocksHeld'
  BY PlanConstants DEF IInv, LocksHeld, NoSession, Calls, Running, Raised, Renewing
<1>5. Presented'
  BY DEF IInv, Presented, NoSession, Raised, Renewing
<1>6. AtRunAccount'
  BY <1>1 DEF IInv, AtRunAccount, NoSession, Raised, Renewing
<1>7. TokensDistinct'
  BY DEF IInv, TokensDistinct, NoSession, Raised, Replacing
<1>8. TokensKnown'
  BY <1>1 DEF IInv, TokensKnown, NoSession, Idle, Calls, Raised, TypeOK, Replacing
<1>9. OneAccountPerRun'
  BY <1>1 DEF IInv, OneAccountPerRun, NoSession, Raised, Named
<1>10. EnabledAsVerified'
  BY <1>1, Zenon DEF IInv, EnabledAsVerified, Named
<1> QED  BY <1>3, <1>4, <1>5, <1>6, <1>7, <1>8, <1>9, <1>10 DEF IInv

(* A fresh session is used: a slot's account is its run's, by the settings. *)
LEMMA UseSessionKeeps ==
  ASSUME IInv, NEW p \in Procs, UseSession(p)
  PROVE  IInv'
<1>1. UNCHANGED <<settings, record, pending, account, worker, valid, granted, edits, ran,
      verified, gone>>
  BY PlanConstants DEF IInv, UseSession, Calls, AccountFree, Running, HasSession, provider,
     history
<1>2. proc' \in [Procs -> Proc]
  BY DEF IInv, TypeOK, Procs, Proc, UseSession
<1>3. TypeOK'
  BY <1>1, <1>2 DEF IInv, TypeOK
<1>4. LocksHeld'
  BY <1>1, <1>2 DEF IInv, LocksHeld, UseSession, Procs, Calls, Running, Renewing
<1>5. Presented'
  BY PlanConstants DEF IInv, Presented, UseSession, Calls, HasSession, TypeOK, Proc, Renewing
<1>6. AtRunAccount'
  BY <1>1 DEF IInv, AtRunAccount, UseSession, Procs, Calls, Running, TypeOK, Renewing, Named,
     OneAccountPerRun
<1>7. TokensDistinct'
  BY <1>2 DEF IInv, TokensDistinct, UseSession, Replacing
<1>8. TokensKnown'
  BY <1>1, <1>2 DEF IInv, TokensKnown, UseSession, Calls, Replacing
<1>9. OneAccountPerRun'
  BY <1>1, <1>2 DEF IInv, OneAccountPerRun, UseSession, Procs, Calls, Running, Named
<1>10. EnabledAsVerified'
  BY <1>1 DEF IInv, EnabledAsVerified, Named
<1> QED  BY <1>3, <1>4, <1>5, <1>6, <1>7, <1>8, <1>9, <1>10 DEF IInv

(* A renewal begins with account.lock and the token of the record. *)
LEMMA RenewKeeps ==
  ASSUME IInv, NEW p \in Procs, Renew(p)
  PROVE  IInv'
<1>1. UNCHANGED <<settings, record, pending, worker, valid, granted, edits, ran, verified,
      gone>>
  BY DEF Renew, provider, history
<1>2. proc' \in [Procs -> Proc]
  BY DEF IInv, TypeOK, Procs, Proc, Renew
<1>3. account' \in Procs \cup {None}
  BY DEF Renew
<1>4. TypeOK'
  BY <1>1, <1>2, <1>3 DEF IInv, TypeOK
<1>5. LocksHeld'
  BY PlanConstants, <1>2 DEF IInv, LocksHeld, Renew, Procs, Calls, AccountFree, Running,
     Renewing
<1>6. Presented'
  BY PlanConstants, <1>3 DEF IInv, Presented, Renew, HasSession, TypeOK, Proc, Renewing
<1>7. AtRunAccount'
  BY <1>1 DEF IInv, AtRunAccount, Renew, Procs, Calls, Running, TypeOK, Renewing, Named, Tokens,
     OneAccountPerRun
<1>8. TokensDistinct'
  BY <1>2 DEF IInv, TokensDistinct, Renew, Replacing
<1>9. TokensKnown'
  BY <1>1, <1>2, <1>3, SMTT(20) DEF IInv, TokensKnown, Renew, Calls, Proc, Replacing
<1>10. OneAccountPerRun'
  BY <1>1, <1>2 DEF IInv, OneAccountPerRun, Renew, Procs, Named
<1>11. EnabledAsVerified'
  BY <1>1 DEF IInv, EnabledAsVerified, Named
<1> QED  BY <1>4, <1>5, <1>6, <1>7, <1>8, <1>9, <1>10, <1>11 DEF IInv

(* A new token is in the renewer's hands and nowhere else. *)
LEMMA RotatesKeeps ==
  ASSUME IInv, NEW p \in Procs, Rotates(p)
  PROVE  IInv'
<1>1. UNCHANGED <<settings, record, pending, account, worker, edits, ran, verified, gone>>
  BY DEF Rotates, history
<1>2. proc' \in [Procs -> Proc]
  BY DEF IInv, TypeOK, Procs, Proc, Rotates
<1>3. valid' \subseteq Tokens
  BY PlanConstants DEF IInv, TypeOK, Tokens, Rotates, Rotate
<1>4. granted' \in 0..MaxSessions
  BY PlanConstants DEF IInv, TypeOK, Rotates, Rotate
<1>5. TypeOK'
  BY <1>1, <1>2, <1>3, <1>4 DEF IInv, TypeOK
<1>6. LocksHeld'
  BY <1>2 DEF IInv, LocksHeld, Rotates, Procs, Rotate, Renewing
<1>7. Presented'
  BY <1>2 DEF IInv, Presented, Rotates, Rotate, Renewing
<1>8. AtRunAccount'
  BY <1>1, <1>2 DEF IInv, AtRunAccount, Rotates, Procs, Rotate, Renewing
<1>9. TokensDistinct'
  BY DEF IInv, TokensDistinct, Rotates, TypeOK, Proc, TokensKnown
<1>10. TokensKnown'
  BY DEF IInv, TokensKnown, Rotates, TypeOK, Proc
<1>11. OneAccountPerRun'
  BY <1>1, <1>2 DEF IInv, OneAccountPerRun, Rotates, Procs, Named
<1>12. EnabledAsVerified'
  BY <1>1 DEF IInv, EnabledAsVerified, Named
<1> QED  BY <1>5, <1>6, <1>7, <1>8, <1>9, <1>10, <1>11, <1>12 DEF IInv

(* The lost answer makes the record's token one that is gone. *)
LEMMA RotatesUnheardKeeps ==
  ASSUME IInv, NEW p \in Procs, RotatesUnheard(p)
  PROVE  IInv'
<1>1. UNCHANGED <<settings, record, pending, worker, edits, ran, verified>>
  BY Zenon DEF RotatesUnheard
<1>2. proc' \in [Procs -> Proc]
  BY PlanConstants DEF IInv, TypeOK, Proc, Idle, RotatesUnheard, Raised
<1>3. account' \in Procs \cup {None}
  BY DEF IInv, TypeOK, RotatesUnheard, Unlock
<1>4. valid' \subseteq Tokens
  BY PlanConstants DEF IInv, TypeOK, Tokens, RotatesUnheard, Rotate, Raised
<1>5. granted' \in 0..MaxSessions
  BY PlanConstants DEF IInv, TypeOK, RotatesUnheard, Rotate
<1>6. gone' \subseteq Tokens
  BY DEF IInv, TypeOK, RotatesUnheard, Rotate
<1>7. TypeOK'
  BY <1>1, <1>2, <1>3, <1>4, <1>5, <1>6 DEF IInv, TypeOK
<1>8. LocksHeld'
  BY PlanConstants, <1>2 DEF IInv, LocksHeld, RotatesUnheard, Procs, Rotate, Raised, Unlock,
     Renewing
<1>9. Presented'
  BY DEF IInv, Presented, RotatesUnheard, Raised, Renewing
<1>10. AtRunAccount'
  BY DEF IInv, AtRunAccount, RotatesUnheard, Raised, Renewing
<1>11. TokensDistinct'
  BY DEF IInv, TokensDistinct, RotatesUnheard, Raised, Replacing
<1>12. TokensKnown'
  BY <1>2 DEF IInv, TokensKnown, RotatesUnheard, Idle, Rotate, Raised, TypeOK, Proc, Renewing,
     Replacing, Tokens, Presented
<1>13. OneAccountPerRun'
  BY DEF IInv, OneAccountPerRun, RotatesUnheard, Raised, Named, Replacing
<1>14. EnabledAsVerified'
  BY <1>1 DEF IInv, EnabledAsVerified, Named
<1> QED  BY <1>7, <1>8, <1>9, <1>10, <1>11, <1>12, <1>13, <1>14 DEF IInv

(* The provider keeps the token: the record stays known. *)
LEMMA RenewsSameKeeps ==
  ASSUME IInv, NEW p \in Procs, RenewsSame(p)
  PROVE  IInv'
<1>1. UNCHANGED <<settings, record, pending, account, worker, valid, granted, edits, ran,
      verified, gone>>
  BY DEF RenewsSame, provider, history
<1>2. proc' \in [Procs -> Proc]
  BY DEF IInv, TypeOK, Procs, Proc, RenewsSame
<1>3. TypeOK'
  BY <1>1, <1>2 DEF IInv, TypeOK
<1>4. LocksHeld'
  BY <1>2 DEF IInv, LocksHeld, RenewsSame, Procs, Renewing
<1>5. Presented'
  BY <1>2 DEF IInv, Presented, RenewsSame, Procs, Renewing
<1>6. AtRunAccount'
  BY <1>1, <1>2 DEF IInv, AtRunAccount, RenewsSame, Procs, Renewing
<1>7. TokensDistinct'
  BY <1>2 DEF IInv, TokensDistinct, RenewsSame, Replacing
<1>8. TokensKnown'
  BY <1>1, SMTT(20) DEF IInv, TokensKnown, RenewsSame, TypeOK, Renewing, Replacing, Presented
<1>9. OneAccountPerRun'
  BY <1>1, <1>2 DEF IInv, OneAccountPerRun, RenewsSame, Procs, Named
<1>10. EnabledAsVerified'
  BY <1>1 DEF IInv, EnabledAsVerified, Named
<1> QED  BY <1>3, <1>4, <1>5, <1>6, <1>7, <1>8, <1>9, <1>10 DEF IInv

(* A token the provider refuses is known, hence gone. *)
LEMMA RejectsKeeps ==
  ASSUME IInv, NEW p \in Procs, Rejects(p)
  PROVE  IInv'
<1>1. UNCHANGED <<settings, record, pending, account, worker, valid, granted, edits, ran,
      verified, gone>>
  BY DEF Rejects, provider, history
<1>2. proc' \in [Procs -> Proc]
  BY DEF IInv, TypeOK, Procs, Proc, Rejects
<1>3. TypeOK'
  BY <1>1, <1>2 DEF IInv, TypeOK
<1>4. LocksHeld'
  BY <1>1, <1>2 DEF IInv, LocksHeld, Rejects, Procs, Renewing
<1>5. Presented'
  BY <1>2 DEF IInv, Presented, Rejects, Renewing
<1>6. AtRunAccount'
  BY <1>1, <1>2 DEF IInv, AtRunAccount, Rejects, Procs, Renewing
<1>7. TokensDistinct'
  BY <1>2 DEF IInv, TokensDistinct, Rejects, Replacing
<1>8. TokensKnown'
  BY <1>1 DEF IInv, TokensKnown, Rejects, TypeOK, Renewing, Replacing, Tokens, LocksHeld,
     Presented
<1>9. OneAccountPerRun'
  BY <1>1, <1>2 DEF IInv, OneAccountPerRun, Rejects, Procs, Named
<1>10. EnabledAsVerified'
  BY <1>1 DEF IInv, EnabledAsVerified, Named
<1> QED  BY <1>3, <1>4, <1>5, <1>6, <1>7, <1>8, <1>9, <1>10 DEF IInv

(* A renewal that never reached the provider leaves everything as it was. *)
LEMMA NotRenewedKeeps ==
  ASSUME IInv, NEW p \in Procs, NotRenewed(p)
  PROVE  IInv'
<1>1. UNCHANGED <<settings, record, pending, worker, valid, granted, edits, ran, verified,
      gone>>
  BY DEF NotRenewed, provider, history
<1>2. proc' \in [Procs -> Proc]
  BY PlanConstants DEF IInv, TypeOK, Proc, Idle, NotRenewed, Raised
<1>3. account' \in Procs \cup {None}
  BY DEF IInv, TypeOK, NotRenewed, Unlock
<1>4. TypeOK'
  BY <1>1, <1>2, <1>3 DEF IInv, TypeOK
<1>5. LocksHeld'
  BY PlanConstants, <1>2 DEF IInv, LocksHeld, NotRenewed, Procs, Raised, Unlock, Renewing
<1>6. Presented'
  BY DEF IInv, Presented, NotRenewed, Raised, Renewing
<1>7. AtRunAccount'
  BY <1>1 DEF IInv, AtRunAccount, NotRenewed, Raised, Renewing
<1>8. TokensDistinct'
  BY DEF IInv, TokensDistinct, NotRenewed, Raised, Replacing
<1>9. TokensKnown'
  BY <1>1 DEF IInv, TokensKnown, NotRenewed, Idle, Raised, TypeOK, Replacing
<1>10. OneAccountPerRun'
  BY <1>1 DEF IInv, OneAccountPerRun, NotRenewed, Raised, Named
<1>11. EnabledAsVerified'
  BY <1>1 DEF IInv, EnabledAsVerified, Named
<1> QED  BY <1>4, <1>5, <1>6, <1>7, <1>8, <1>9, <1>10, <1>11 DEF IInv

(* The new token replaces the one it was granted for. *)
LEMMA StoreRenewedKeeps ==
  ASSUME IInv, NEW p \in Procs, StoreRenewed(p)
  PROVE  IInv'
<1>1. UNCHANGED <<settings, pending, worker, valid, granted, edits, ran, verified, gone>>
  BY DEF StoreRenewed, provider, history
<1>2. record' \in [Accounts -> Record]
  BY DEF IInv, TypeOK, Record, StoreRenewed, Unlock, Presented, Renewing, Proc, Record
<1>3. proc' \in [Procs -> Proc]
  <2>1. proc[p].key \in Accounts
    BY DEF IInv, StoreRenewed, Presented, Renewing
  <2>2. proc' = [proc EXCEPT ![p] = [Idle EXCEPT !.phase = "using", !.key = proc[p].key]]
    BY DEF StoreRenewed
  <2>3. [Idle EXCEPT !.phase = "using", !.key = proc[p].key] \in Proc
    BY <2>1, IdleTyped DEF Proc
  <2> QED  BY <2>2, <2>3 DEF IInv, TypeOK
<1>4. account' \in Procs \cup {None}
  BY DEF IInv, TypeOK, StoreRenewed, Unlock
<1>5. TypeOK'
  BY <1>1, <1>2, <1>3, <1>4 DEF IInv, TypeOK
<1>6. LocksHeld'
  BY PlanConstants, <1>3 DEF IInv, LocksHeld, StoreRenewed, Procs, Unlock, Renewing
<1>7. Presented'
  BY SMTT(20) DEF IInv, Presented, StoreRenewed, TypeOK, Renewing, LocksHeld
<1>8. AtRunAccount'
  BY <1>1 DEF IInv, AtRunAccount, StoreRenewed, Renewing
<1>9. TokensDistinct'
  BY DEF IInv, TokensDistinct, StoreRenewed, Procs, TypeOK, Proc, Renewing, Replacing, Presented
<1>10. TokensKnown'
  BY <1>1 DEF IInv, TokensKnown, StoreRenewed, Idle, TypeOK, Replacing
<1>11. OneAccountPerRun'
  BY <1>1 DEF IInv, OneAccountPerRun, StoreRenewed, Renewing, Named, AtRunAccount
<1>12. EnabledAsVerified'
  BY PlanConstants, <1>1 DEF IInv, EnabledAsVerified, Named, Replacing
<1> QED  BY <1>5, <1>6, <1>7, <1>8, <1>9, <1>10, <1>11, <1>12 DEF IInv

(* The dropped answer makes the record's token one that is gone. *)
LEMMA DropRenewedKeeps ==
  ASSUME IInv, NEW p \in Procs, DropRenewed(p)
  PROVE  IInv'
<1>1. UNCHANGED <<settings, record, pending, worker, valid, granted, edits, ran, verified>>
  BY DEF DropRenewed, Unlock, provider
<1>2. proc' \in [Procs -> Proc]
  BY PlanConstants DEF IInv, TypeOK, Proc, Idle, DropRenewed, Raised
<1>3. account' \in Procs \cup {None}
  BY DEF IInv, TypeOK, DropRenewed, Unlock
<1>4. gone' \subseteq Tokens
  BY DEF IInv, TypeOK, Tokens, Proc, DropRenewed, Raised, Presented, Renewing, Proc
<1>5. TypeOK'
  BY <1>1, <1>2, <1>3, <1>4 DEF IInv, TypeOK
<1>6. LocksHeld'
  BY PlanConstants, <1>2 DEF IInv, LocksHeld, DropRenewed, Procs, Raised, Unlock, Renewing
<1>7. Presented'
  BY DEF IInv, Presented, DropRenewed, Raised, Renewing
<1>8. AtRunAccount'
  BY DEF IInv, AtRunAccount, DropRenewed, Raised, Renewing
<1>9. TokensDistinct'
  BY DEF IInv, TokensDistinct, DropRenewed, Raised, Unlock, Replacing
<1>10. TokensKnown'
  BY <1>1 DEF IInv, TokensKnown, DropRenewed, Idle, Raised, TypeOK, Renewing, Replacing,
     Presented
<1>11. OneAccountPerRun'
  BY DEF IInv, OneAccountPerRun, DropRenewed, Raised, Named
<1>12. EnabledAsVerified'
  BY <1>1 DEF IInv, EnabledAsVerified, Named
<1> QED  BY <1>5, <1>6, <1>7, <1>8, <1>9, <1>10, <1>11, <1>12 DEF IInv

(* The record is cleared by the holder of its token. *)
LEMMA ClearRejectedKeeps ==
  ASSUME IInv, NEW p \in Procs, ClearRejected(p)
  PROVE  IInv'
<1>1. UNCHANGED <<settings, pending, worker, valid, granted, edits, ran, verified, gone>>
  BY DEF ClearRejected, provider, history
<1>2. record' \in [Accounts -> Record]
  BY DEF IInv, TypeOK, Record, NoRecord, ClearRejected, Presented, Renewing, Proc, Record
<1>3. proc' \in [Procs -> Proc]
  BY DEF IInv, TypeOK, Proc, Idle, ClearRejected, Raised
<1>4. account' \in Procs \cup {None}
  BY DEF IInv, TypeOK, ClearRejected, Unlock
<1>5. TypeOK'
  BY <1>1, <1>2, <1>3, <1>4 DEF IInv, TypeOK
<1>6. LocksHeld'
  BY PlanConstants, <1>3 DEF IInv, LocksHeld, ClearRejected, Procs, Raised, Unlock, Renewing
<1>7. Presented'
  BY DEF IInv, Presented, ClearRejected, Raised, TypeOK, Renewing, NoRecord, LocksHeld
<1>8. AtRunAccount'
  BY <1>1 DEF IInv, AtRunAccount, ClearRejected, Raised, Renewing
<1>9. TokensDistinct'
  BY DEF IInv, TokensDistinct, ClearRejected, Raised, Replacing, NoRecord, Presented
<1>10. TokensKnown'
  BY <1>1 DEF IInv, TokensKnown, ClearRejected, Idle, Raised, Replacing, NoRecord
<1>11. OneAccountPerRun'
  BY <1>1, <1>3, Zenon DEF IInv, OneAccountPerRun, ClearRejected, Procs, Idle, Raised, Named
<1>12. EnabledAsVerified'
  BY <1>1, Zenon DEF IInv, EnabledAsVerified, Named
<1> QED  BY <1>5, <1>6, <1>7, <1>8, <1>9, <1>10, <1>11, <1>12 DEF IInv

(* A sign-in begins: only the pending slot of the screen changes. *)
LEMMA LoginKeeps ==
  ASSUME IInv, NEW p \in Screens, Login(p)
  PROVE  IInv'
<1>1. UNCHANGED <<settings, record, account, worker, proc, valid, granted, edits, ran, verified,
      gone>>
  BY DEF Login, provider, history
<1>2. pending' \in [Screens -> Pending]
  BY DEF IInv, TypeOK, Pending, Settings, Login
<1>3. TypeOK'
  BY <1>1, <1>2 DEF IInv, TypeOK
<1>4. LocksHeld' /\ Presented' /\ AtRunAccount' /\ TokensDistinct' /\ TokensKnown' /\
        OneAccountPerRun' /\ EnabledAsVerified'
  BY <1>1 DEF IInv, LocksHeld, Presented, AtRunAccount, TokensDistinct, TokensKnown,
     OneAccountPerRun, EnabledAsVerified, Named, Renewing, Replacing
<1> QED  BY <1>3, <1>4 DEF IInv

(* The screen takes worker.lock, or its sign-in is over. *)
LEMMA CallbackKeeps ==
  ASSUME IInv, NEW p \in Screens, Callback(p)
  PROVE  IInv'
<1>1. UNCHANGED <<settings, record, account, valid, granted, edits, ran, verified, gone>>
  BY Zenon DEF Callback, provider, history
<1>2. pending' \in [Screens -> Pending]
  BY DEF IInv, TypeOK, Pending, NoPending, Callback
<1>3. worker' \in {"run", None} \cup Screens
  BY DEF IInv, TypeOK, Callback
<1>4. proc' \in [Procs -> Proc]
  BY SMTT(20) DEF IInv, TypeOK, Proc, Callback
<1>5. TypeOK'
  BY <1>1, <1>2, <1>3, <1>4 DEF IInv, TypeOK
<1>6. LocksHeld'
  BY PlanConstants DEF IInv, LocksHeld, Callback, Procs, WorkerFree, TypeOK, Proc, Renewing
<1>7. Presented'
  BY PlanConstants DEF IInv, Presented, Callback, TypeOK, Proc, Renewing
<1>8. AtRunAccount'
  BY PlanConstants, <1>1, <1>4 DEF IInv, AtRunAccount, Callback, Procs, Renewing, Nothing
<1>9. TokensDistinct'
  BY <1>4 DEF IInv, TokensDistinct, Callback, WorkerFree, Proc, Replacing
<1>10. TokensKnown'
  BY <1>1, <1>2, <1>4 DEF IInv, TokensKnown, Callback, WorkerFree, Proc, Replacing
<1>11. OneAccountPerRun'
  BY PlanConstants, <1>1, <1>4 DEF IInv, OneAccountPerRun, Callback, Procs, Named
<1>12. EnabledAsVerified'
  BY <1>1 DEF IInv, EnabledAsVerified, Named
<1> QED  BY <1>5, <1>6, <1>7, <1>8, <1>9, <1>10, <1>11, <1>12 DEF IInv

(* A sign-in's token is new: larger than every other. *)
LEMMA ExchangeKeeps ==
  ASSUME IInv, NEW p \in Screens, NEW a \in Accounts, Exchange(p, a)
  PROVE  IInv'
<1>1. UNCHANGED <<settings, record, pending, account, worker, edits, ran, verified, gone>>
  BY DEF Exchange, history
<1>2. granted' \in 0..MaxSessions
  BY PlanConstants DEF IInv, TypeOK, Exchange
<1>3. valid' \subseteq Tokens
  BY PlanConstants DEF IInv, TypeOK, Tokens, Exchange
<1>4. proc' \in [Procs -> Proc]
  <2>1. proc[p] \in Proc /\ granted + 1 \in 0..MaxSessions
    BY PlanConstants DEF IInv, TypeOK, Exchange, Procs
  <2>2. [proc[p] EXCEPT !.phase = "verified", !.key = a, !.new = granted + 1] \in Proc
    BY <2>1 DEF Proc
  <2>3. proc' = [proc EXCEPT ![p] =
                   [proc[p] EXCEPT !.phase = "verified", !.key = a, !.new = granted + 1]]
    BY DEF IInv, Exchange, TypeOK, Procs
  <2> QED  BY <2>2, <2>3 DEF IInv, TypeOK, Procs
<1>5. TypeOK'
  BY <1>1, <1>2, <1>3, <1>4 DEF IInv, TypeOK
<1>6. LocksHeld'
  BY <1>4 DEF IInv, LocksHeld, Exchange, Procs, Idle, Renewing
<1>7. Presented'
  BY DEF IInv, Presented, Exchange, TypeOK, Renewing
<1>8. AtRunAccount'
  BY <1>1, <1>4 DEF IInv, AtRunAccount, Exchange, Procs, Renewing
<1>9. TokensDistinct'
  BY DEF IInv, TokensDistinct, Exchange, Procs, TypeOK, Proc, Presented, TokensKnown
<1>10. TokensKnown'
  BY DEF IInv, TokensKnown, Exchange, Procs, TypeOK, Proc
<1>11. OneAccountPerRun'
  BY <1>1, <1>4 DEF IInv, OneAccountPerRun, Exchange, Procs, Named
<1>12. EnabledAsVerified'
  BY <1>1 DEF IInv, EnabledAsVerified, Named
<1> QED  BY <1>5, <1>6, <1>7, <1>8, <1>9, <1>10, <1>11, <1>12 DEF IInv

(* The screen gives worker.lock back. *)
LEMMA SignInFailsKeeps ==
  ASSUME IInv, NEW p \in Screens, SignInFails(p)
  PROVE  IInv'
<1>1. UNCHANGED <<settings, record, pending, account, valid, granted, edits, ran, verified,
      gone>>
  BY DEF SignInFails, provider, history
<1>2. proc' \in [Procs -> Proc]
  BY PlanConstants DEF IInv, TypeOK, Procs, Proc, Idle, SignInFails, Leave
<1>3. worker' \in {"run", None} \cup Screens
  BY DEF IInv, TypeOK, SignInFails
<1>4. TypeOK'
  BY <1>1, <1>2, <1>3 DEF IInv, TypeOK
<1>5. LocksHeld'
  BY PlanConstants DEF IInv, LocksHeld, SignInFails, Procs, Idle, Leave, TypeOK, Renewing
<1>6. Presented'
  BY DEF IInv, Presented, SignInFails, Idle, Leave, Renewing
<1>7. AtRunAccount'
  BY <1>1 DEF IInv, AtRunAccount, SignInFails, Idle, Leave, Renewing
<1>8. TokensDistinct'
  BY DEF IInv, TokensDistinct, SignInFails, Idle, Leave, Replacing
<1>9. TokensKnown'
  BY <1>1 DEF IInv, TokensKnown, SignInFails, Idle, Leave, TypeOK, Replacing
<1>10. OneAccountPerRun'
  BY PlanConstants, <1>1 DEF IInv, OneAccountPerRun, SignInFails, Leave, Named
<1>11. EnabledAsVerified'
  BY <1>1 DEF IInv, EnabledAsVerified, Named
<1> QED  BY <1>4, <1>5, <1>6, <1>7, <1>8, <1>9, <1>10, <1>11 DEF IInv

(* The screen's token enters the record, under account.lock. *)
LEMMA SaveSessionKeeps ==
  ASSUME IInv, NEW p \in Screens, SaveSession(p)
  PROVE  IInv'
<1>1. UNCHANGED <<settings, pending, worker, valid, granted, edits, ran, verified, gone>>
  BY DEF SaveSession, provider, history
<1>2. account' \in Procs \cup {None}
  BY DEF Procs, SaveSession
<1>3. record' \in [Accounts -> Record]
  BY DEF IInv, TypeOK, Record, SaveSession, Procs, Presented, Proc, Record
<1>4. proc' \in [Procs -> Proc]
  BY DEF IInv, TypeOK, Procs, Proc, SaveSession
<1>5. TypeOK'
  BY <1>1, <1>2, <1>3, <1>4 DEF IInv, TypeOK
<1>6. LocksHeld'
  BY PlanConstants, <1>4 DEF IInv, LocksHeld, SaveSession, Procs, AccountFreeToSave, Renewing
<1>7. Presented'
  BY PlanConstants DEF IInv, Presented, SaveSession, Procs, AccountFreeToSave, Renewing,
     LocksHeld
<1>8. AtRunAccount'
  BY <1>1 DEF IInv, AtRunAccount, SaveSession, Renewing
<1>9. TokensDistinct'
  BY <1>4 DEF IInv, TokensDistinct, SaveSession, Replacing
<1>10. TokensKnown'
  BY <1>1 DEF IInv, TokensKnown, SaveSession, Procs, Replacing
<1>11. OneAccountPerRun'
  BY <1>1 DEF IInv, OneAccountPerRun, SaveSession, Named
<1>12. EnabledAsVerified'
  BY <1>1 DEF IInv, EnabledAsVerified, Named
<1> QED  BY <1>5, <1>6, <1>7, <1>8, <1>9, <1>10, <1>11, <1>12 DEF IInv

(* The account changes while no run is there, and nothing is enabled. *)
LEMMA ActivateKeeps ==
  ASSUME IInv, NEW p \in Screens, Activate(p)
  PROVE  IInv'
<1>1. UNCHANGED <<record, pending, valid, granted, edits, ran, verified, gone>>
  BY DEF Activate, provider, history
<1>2. settings' \in Settings
  BY DEF IInv, Settings, Activate, SignedIn, Procs, Presented
<1>3. proc' \in [Procs -> Proc]
  BY PlanConstants DEF IInv, TypeOK, Procs, Proc, Idle, Activate, Leave
<1>4. account' \in Procs \cup {None}
  BY DEF IInv, TypeOK, Activate, Unlock
<1>5. worker' \in {"run", None} \cup Screens
  BY DEF IInv, TypeOK, Activate
<1>6. TypeOK'
  BY <1>1, <1>2, <1>3, <1>4, <1>5 DEF IInv, TypeOK
<1>7. LocksHeld'
  BY PlanConstants, <1>3 DEF IInv, LocksHeld, Activate, Procs, Idle, Leave, Unlock, Renewing,
     Replacing
<1>8. Presented'
  BY <1>1 DEF IInv, Presented, Activate, Idle, Leave, Renewing
<1>9. AtRunAccount'
  BY <1>1 DEF IInv, AtRunAccount, Activate, Idle, Leave, Renewing
<1>10. TokensDistinct'
  BY DEF IInv, TokensDistinct, Activate, Idle, Leave, Renewing, Replacing
<1>11. TokensKnown'
  BY <1>1 DEF IInv, TokensKnown, Activate, Idle, Leave, TypeOK, Renewing, Replacing
<1>12. OneAccountPerRun'
  BY PlanConstants DEF IInv, OneAccountPerRun, Activate, Leave, LocksHeld
<1>13. EnabledAsVerified'
  BY DEF EnabledAsVerified, Activate, SignedIn
<1> QED  BY <1>6, <1>7, <1>8, <1>9, <1>10, <1>11, <1>12, <1>13 DEF IInv

(* The chosen model is in the catalog. *)
LEMMA ChooseKeeps ==
  ASSUME IInv, NEW p \in Screens, Choose(p)
  PROVE  IInv'
<1>1. UNCHANGED <<settings, record, pending, account, worker, valid, granted, edits, ran,
      verified, gone>>
  BY DEF Choose, provider, history
<1>2. proc' \in [Procs -> Proc]
  BY PlanConstants DEF IInv, TypeOK, Proc, Idle, Choose, Leave, Proc, Idle
<1>3. TypeOK'
  BY <1>1, <1>2 DEF IInv, TypeOK
<1>4. LocksHeld'
  BY PlanConstants, SMTT(20) DEF IInv, LocksHeld, Choose, Procs, Idle, Leave, TypeOK, Proc,
     Renewing
<1>5. Presented'
  BY PlanConstants DEF IInv, Presented, Choose, Procs, Idle, Leave, TypeOK, Proc, Renewing
<1>6. AtRunAccount'
  BY PlanConstants, <1>1, <1>2 DEF IInv, AtRunAccount, Choose, Procs, Leave, Renewing
<1>7. TokensDistinct'
  BY <1>2 DEF IInv, TokensDistinct, Choose, Idle, Leave, Proc, Replacing
<1>8. TokensKnown'
  BY PlanConstants, <1>1, <1>2 DEF IInv, TokensKnown, Choose, Procs, Idle, Leave, TypeOK, Proc,
     Replacing
<1>9. OneAccountPerRun'
  BY PlanConstants, <1>1, <1>2 DEF IInv, OneAccountPerRun, Choose, Procs, Leave, Named
<1>10. EnabledAsVerified'
  BY <1>1 DEF IInv, EnabledAsVerified, Named
<1> QED  BY <1>3, <1>4, <1>5, <1>6, <1>7, <1>8, <1>9, <1>10 DEF IInv

(* A save that meets a run changes nothing. *)
LEMMA SaveRefusedKeeps ==
  ASSUME IInv, NEW p \in Screens, SaveRefused(p)
  PROVE  IInv'
<1>1. UNCHANGED <<settings, record, pending, account, worker, valid, granted, edits, ran,
      verified, gone>>
  BY DEF SaveRefused, provider, history
<1>2. proc' \in [Procs -> Proc]
  BY PlanConstants DEF IInv, TypeOK, Procs, Proc, Idle, SaveRefused, Leave, WorkerFree
<1>3. TypeOK'
  BY <1>1, <1>2 DEF IInv, TypeOK
<1>4. LocksHeld'
  BY <1>1 DEF IInv, LocksHeld, SaveRefused, Idle, Leave, Renewing
<1>5. Presented'
  BY <1>1 DEF IInv, Presented, SaveRefused, Idle, Leave, Renewing
<1>6. AtRunAccount'
  BY <1>1 DEF IInv, AtRunAccount, SaveRefused, Idle, Leave, Renewing
<1>7. TokensDistinct'
  BY DEF IInv, TokensDistinct, SaveRefused, Idle, Leave, Replacing
<1>8. TokensKnown'
  BY <1>1 DEF IInv, TokensKnown, SaveRefused, Idle, Leave, TypeOK, Replacing
<1>9. OneAccountPerRun'
  BY <1>1 DEF IInv, OneAccountPerRun, SaveRefused, Idle, Leave, Named
<1>10. EnabledAsVerified'
  BY <1>1 DEF IInv, EnabledAsVerified, Named
<1> QED  BY <1>3, <1>4, <1>5, <1>6, <1>7, <1>8, <1>9, <1>10 DEF IInv

(* The model changes while no run is there, and nothing is enabled. *)
LEMMA SaveKeeps ==
  ASSUME IInv, NEW p \in Screens, Save(p)
  PROVE  IInv'
<1>1. UNCHANGED <<record, pending, account, worker, valid, granted, edits, ran, verified, gone>>
  BY DEF Save, provider, history
<1>2. settings' \in Settings
  <2>1. proc[p].model \in Models \cup {None}
    BY DEF IInv, Save, Presented, Procs
  <2>2. settings' = [settings EXCEPT !.model = proc[p].model, !.enabled = FALSE]
    BY DEF Save, Chosen
  <2>3. settings \in Settings
    BY DEF IInv, TypeOK
  <2> QED  BY <2>1, <2>2, <2>3 DEF Settings
<1>3. proc' \in [Procs -> Proc]
  BY PlanConstants DEF IInv, TypeOK, Procs, Proc, Idle, Save, Leave
<1>4. TypeOK'
  BY <1>1, <1>2, <1>3 DEF IInv, TypeOK
<1>5. LocksHeld'
  BY DEF IInv, LocksHeld, Save, Idle, Leave, Renewing
<1>6. Presented'
  BY DEF IInv, Presented, Save, Idle, Leave, Renewing
<1>7. AtRunAccount'
  BY <1>1 DEF IInv, AtRunAccount, Save, Idle, Leave, Renewing
<1>8. TokensDistinct'
  BY DEF IInv, TokensDistinct, Save, Idle, Leave, Replacing
<1>9. TokensKnown'
  BY <1>1 DEF IInv, TokensKnown, Save, Idle, Leave, TypeOK, Replacing
<1>10. OneAccountPerRun'
  BY PlanConstants, <1>1 DEF IInv, OneAccountPerRun, Save, Leave, WorkerFree
<1>11. EnabledAsVerified'
  BY DEF EnabledAsVerified, Save, Chosen, WorkerFree
<1> QED  BY <1>4, <1>5, <1>6, <1>7, <1>8, <1>9, <1>10, <1>11 DEF IInv

(* The stop changes only the switch. *)
LEMMA PauseKeeps ==
  ASSUME IInv, NEW p \in Screens, Pause(p)
  PROVE  IInv'
<1>1. UNCHANGED <<record, pending, account, worker, proc, valid, granted, edits, ran, verified,
      gone>>
  BY DEF Pause, provider, history
<1>2. settings' \in Settings
  BY Zenon DEF IInv, TypeOK, Settings, Pause
<1>3. TypeOK'
  BY <1>1, <1>2 DEF IInv, TypeOK
<1>4. OneAccountPerRun'
  BY <1>1 DEF IInv, OneAccountPerRun, Pause, Named
<1>5. EnabledAsVerified'
  BY DEF EnabledAsVerified, Pause
<1>6. LocksHeld' /\ Presented' /\ AtRunAccount' /\ TokensDistinct' /\ TokensKnown'
  BY <1>1 DEF IInv, LocksHeld, Presented, AtRunAccount, TokensDistinct, TokensKnown, Renewing,
     Replacing
<1> QED  BY <1>3, <1>4, <1>5, <1>6 DEF IInv

(* The locks of a dead screen are free, and what it held is gone. *)
LEMMA ScreenDiesKeeps ==
  ASSUME IInv, NEW p \in Screens, ScreenDies(p)
  PROVE  IInv'
<1>1. UNCHANGED <<settings, record, valid, granted, ran, verified>>
  BY DEF ScreenDies, provider
<1>2. worker' \in {"run", None} \cup Screens
  BY DEF IInv, TypeOK, ScreenDies
<1>3. pending' \in [Screens -> Pending]
  BY DEF IInv, TypeOK, Pending, NoPending, ScreenDies
<1>4. edits' \in 0..MaxEdits
  BY PlanConstants DEF IInv, TypeOK, ScreenDies, Dies, Edit
<1>5. proc' \in [Procs -> Proc]
  BY PlanConstants DEF IInv, TypeOK, Proc, Idle, ScreenDies, Dies
<1>6. account' \in Procs \cup {None}
  BY DEF IInv, TypeOK, ScreenDies, Dies
<1>7. gone' \subseteq Tokens
  BY DEF IInv, TypeOK, ScreenDies, Dies
<1>8. TypeOK'
  BY <1>1, <1>2, <1>3, <1>4, <1>5, <1>6, <1>7 DEF IInv, TypeOK
<1>9. LocksHeld'
  BY PlanConstants DEF IInv, LocksHeld, ScreenDies, Procs, Idle, Dies, Renewing
<1>10. Presented'
  BY DEF IInv, Presented, ScreenDies, Idle, Dies, Renewing
<1>11. AtRunAccount'
  BY DEF IInv, AtRunAccount, ScreenDies, Procs, Idle, Dies, Renewing
<1>12. TokensDistinct'
  BY <1>1 DEF IInv, TokensDistinct, ScreenDies, Idle, Dies, Replacing
<1>13. TokensKnown'
  <2>1. /\ record' = record /\ valid' = valid /\ granted' = granted
        /\ gone' = gone \cup {t \in Tokens : \E q \in {p} : Replacing(q) /\ proc[q].token = t}
    BY DEF ScreenDies, Dies, provider
  <2>2. \A q \in Procs : proc'[q] = IF q \in {p} THEN Idle ELSE proc[q]
    BY DEF ScreenDies, Dies
  <2>3. \A q \in Procs : (Replacing(q)' <=> Replacing(q) /\ q \notin {p})
    BY <2>2 DEF Replacing, Idle
  <2>4. \A q \in {p} : Replacing(q) => q \in Procs /\ record[proc[q].key].token \in gone'
    <3> SUFFICES ASSUME NEW q \in {p}, Replacing(q)
                 PROVE  q \in Procs /\ record[proc[q].key].token \in gone'
      OBVIOUS
    <3>1. q \in Procs
      BY DEF Procs
    <3>2. record[proc[q].key].token = proc[q].token /\ proc[q].token # 0
      BY <3>1 DEF IInv, Presented, Replacing, Renewing
    <3>3. proc[q].token \in Tokens
      BY <3>1, <3>2, PlanConstants DEF IInv, TypeOK, Proc, Tokens
    <3> QED  BY <2>1, <3>1, <3>2, <3>3
  <2>5. ASSUME NEW a \in Accounts
        PROVE  /\ record[a].token <= granted
               /\ record[a].token = 0 \/ record[a].token \in valid \cup gone'
                  \/ \E q \in Procs : Replacing(q)' /\ proc'[q].key = a
    BY <2>1, <2>2, <2>3, <2>4 DEF IInv, TokensKnown
  <2>6. ASSUME NEW q \in Procs
        PROVE  /\ proc'[q].token <= granted /\ proc'[q].new <= granted
               /\ proc'[q].phase = "verified" \/ Replacing(q)' => proc'[q].new \in valid \cup gone'
               /\ proc'[q].phase = "answered" /\ ~Replacing(q)'
                    => proc'[q].token \in valid \cup gone'
               /\ proc'[q].phase = "answered" /\ proc'[q].new = 0 => proc'[q].token \in gone'
    <3>1. CASE q \in {p}
      BY <2>2, <3>1, PlanConstants DEF IInv, TypeOK, Idle, Replacing
    <3>2. CASE q \notin {p}
      BY <2>1, <2>2, <2>3, <3>2 DEF IInv, TokensKnown
    <3> QED  BY <3>1, <3>2
  <2>7. \A t \in valid \cup gone' : t <= granted
    <3>1. \A q \in {p} : q \in Procs
      BY DEF Procs
    <3> QED  BY <2>1, <3>1 DEF IInv, TokensKnown
  <2> QED  BY <2>1, <2>5, <2>6, <2>7 DEF TokensKnown
<1>14. OneAccountPerRun'
  BY PlanConstants, <1>1 DEF IInv, OneAccountPerRun, ScreenDies, Procs, Dies, Named, NoRecord
<1>15. EnabledAsVerified'
  BY <1>1 DEF IInv, EnabledAsVerified, Named
<1> QED  BY <1>8, <1>9, <1>10, <1>11, <1>12, <1>13, <1>14, <1>15 DEF IInv

(* A run starts with the settings' account and model. *)
LEMMA StartKeeps ==
  ASSUME IInv, Start
  PROVE  IInv'
<1>1. UNCHANGED <<settings, record, pending, account, proc, valid, granted, verified, gone>>
  BY DEF Start, provider
<1>2. edits' \in 0..MaxEdits
  BY PlanConstants DEF IInv, TypeOK, Start
<1>3. worker' \in {"run", None} \cup Screens
  BY DEF Start
<1>4. ran' \in Choice
  BY DEF IInv, TypeOK, Choice, Named, Settings, Start
<1>5. TypeOK'
  BY <1>1, <1>2, <1>3, <1>4 DEF IInv, TypeOK
<1>6. LocksHeld'
  BY PlanConstants DEF IInv, LocksHeld, Start, WorkerFree, Renewing
<1>7. AtRunAccount'
  BY PlanConstants DEF IInv, AtRunAccount, Start, WorkerFree, Renewing, LocksHeld
<1>8. OneAccountPerRun'
  BY DEF IInv, OneAccountPerRun, Start, Record, Named, LocksHeld
<1>9. Presented' /\ TokensDistinct' /\ TokensKnown' /\ EnabledAsVerified'
  BY <1>1 DEF IInv, Presented, TokensDistinct, TokensKnown, EnabledAsVerified, Named, Renewing,
     Replacing
<1> QED  BY <1>5, <1>6, <1>7, <1>8, <1>9 DEF IInv

(* A run ends with all its slots idle. *)
LEMMA RunEndsKeeps ==
  ASSUME IInv, RunEnds
  PROVE  IInv'
<1>1. UNCHANGED <<settings, record, pending, account, proc, valid, granted, edits, verified,
      gone>>
  BY DEF RunEnds, provider
<1>2. worker' \in {"run", None} \cup Screens
  BY DEF RunEnds
<1>3. ran' \in Choice
  BY DEF Choice, Nothing, RunEnds
<1>4. TypeOK'
  BY <1>1, <1>2, <1>3 DEF IInv, TypeOK
<1>5. LocksHeld'
  BY PlanConstants DEF IInv, LocksHeld, RunEnds, Renewing
<1>6. AtRunAccount'
  BY DEF AtRunAccount, RunEnds, Renewing
<1>7. OneAccountPerRun'
  BY PlanConstants DEF OneAccountPerRun, RunEnds
<1>8. Presented' /\ TokensDistinct' /\ TokensKnown' /\ EnabledAsVerified'
  BY <1>1 DEF IInv, Presented, TokensDistinct, TokensKnown, EnabledAsVerified, Named, Renewing,
     Replacing
<1> QED  BY <1>4, <1>5, <1>6, <1>7, <1>8 DEF IInv

(* The locks of a dead run are free, and what its slots held is gone. *)
LEMMA RunDiesKeeps ==
  ASSUME IInv, RunDies
  PROVE  IInv'
<1>1. UNCHANGED <<settings, record, pending, valid, granted, verified>>
  BY DEF RunDies, provider
<1>2. worker' \in {"run", None} \cup Screens
  BY DEF RunDies
<1>3. ran' \in Choice
  BY DEF Choice, Nothing, RunDies
<1>4. edits' \in 0..MaxEdits
  BY PlanConstants DEF IInv, TypeOK, RunDies, Dies, Edit
<1>5. proc' \in [Procs -> Proc]
  BY PlanConstants DEF IInv, TypeOK, Proc, Idle, RunDies, Dies
<1>6. account' \in Procs \cup {None}
  BY DEF IInv, TypeOK, RunDies, Dies
<1>7. gone' \subseteq Tokens
  BY DEF IInv, TypeOK, RunDies, Dies
<1>8. TypeOK'
  BY <1>1, <1>2, <1>3, <1>4, <1>5, <1>6, <1>7 DEF IInv, TypeOK
<1>9. LocksHeld'
  BY PlanConstants, <1>1 DEF IInv, LocksHeld, RunDies, Procs, Idle, Dies, Renewing
<1>10. Presented'
  BY DEF IInv, Presented, RunDies, Idle, Dies, Renewing
<1>11. AtRunAccount'
  BY DEF AtRunAccount, RunDies, Procs, Idle, Dies, Renewing
<1>12. TokensDistinct'
  BY DEF IInv, TokensDistinct, RunDies, Idle, Dies, Replacing
<1>13. TokensKnown'
  <2>1. /\ record' = record /\ valid' = valid /\ granted' = granted
        /\ gone' = gone \cup {t \in Tokens : \E q \in Slots : Replacing(q) /\ proc[q].token = t}
    BY DEF RunDies, Dies, provider
  <2>2. \A q \in Procs : proc'[q] = IF q \in Slots THEN Idle ELSE proc[q]
    BY DEF RunDies, Dies
  <2>3. \A q \in Procs : (Replacing(q)' <=> Replacing(q) /\ q \notin Slots)
    BY <2>2 DEF Replacing, Idle
  <2>4. \A q \in Slots : Replacing(q) => q \in Procs /\ record[proc[q].key].token \in gone'
    <3> SUFFICES ASSUME NEW q \in Slots, Replacing(q)
                 PROVE  q \in Procs /\ record[proc[q].key].token \in gone'
      OBVIOUS
    <3>1. q \in Procs
      BY DEF Procs
    <3>2. record[proc[q].key].token = proc[q].token /\ proc[q].token # 0
      BY <3>1 DEF IInv, Presented, Replacing, Renewing
    <3>3. proc[q].token \in Tokens
      BY <3>1, <3>2, PlanConstants DEF IInv, TypeOK, Proc, Tokens
    <3> QED  BY <2>1, <3>1, <3>2, <3>3
  <2>5. ASSUME NEW a \in Accounts
        PROVE  /\ record[a].token <= granted
               /\ record[a].token = 0 \/ record[a].token \in valid \cup gone'
                  \/ \E q \in Procs : Replacing(q)' /\ proc'[q].key = a
    BY <2>1, <2>2, <2>3, <2>4 DEF IInv, TokensKnown
  <2>6. ASSUME NEW q \in Procs
        PROVE  /\ proc'[q].token <= granted /\ proc'[q].new <= granted
               /\ proc'[q].phase = "verified" \/ Replacing(q)' => proc'[q].new \in valid \cup gone'
               /\ proc'[q].phase = "answered" /\ ~Replacing(q)'
                    => proc'[q].token \in valid \cup gone'
               /\ proc'[q].phase = "answered" /\ proc'[q].new = 0 => proc'[q].token \in gone'
    <3>1. CASE q \in Slots
      BY <2>2, <3>1, PlanConstants DEF IInv, TypeOK, Idle, Replacing
    <3>2. CASE q \notin Slots
      BY <2>1, <2>2, <2>3, <3>2 DEF IInv, TokensKnown
    <3> QED  BY <3>1, <3>2
  <2>7. \A t \in valid \cup gone' : t <= granted
    <3>1. \A q \in Slots : q \in Procs
      BY DEF Procs
    <3> QED  BY <2>1, <3>1 DEF IInv, TokensKnown
  <2> QED  BY <2>1, <2>5, <2>6, <2>7 DEF TokensKnown
<1>14. OneAccountPerRun'
  BY PlanConstants DEF OneAccountPerRun, RunDies, Procs, Idle, Dies
<1>15. EnabledAsVerified'
  BY <1>1 DEF IInv, EnabledAsVerified, Named
<1> QED  BY <1>8, <1>9, <1>10, <1>11, <1>12, <1>13, <1>14, <1>15 DEF IInv

(* A stream ends: its slot leaves or stops the worker. *)
LEMMA StreamEndsKeeps ==
  ASSUME IInv, NEW p \in Slots, StreamEnds(p)
  PROVE  IInv'
<1>1. UNCHANGED <<settings, record, pending, account, worker, valid, granted, edits, ran,
      verified, gone>>
  BY DEF StreamEnds, provider, history
<1>2. proc' \in [Procs -> Proc]
  BY PlanConstants DEF IInv, TypeOK, Proc, Idle, StreamEnds, Leave, Raised
<1>3. TypeOK'
  BY <1>1, <1>2 DEF IInv, TypeOK
<1>4. LocksHeld'
  BY PlanConstants, <1>2 DEF IInv, LocksHeld, StreamEnds, Procs, Idle, Leave, Raised, Renewing
<1>5. Presented'
  BY <1>2 DEF IInv, Presented, StreamEnds, Idle, Leave, Raised, Renewing
<1>6. AtRunAccount'
  BY <1>1, <1>2 DEF IInv, AtRunAccount, StreamEnds, Procs, Idle, Leave, Raised, Renewing
<1>7. TokensDistinct'
  BY <1>2 DEF IInv, TokensDistinct, StreamEnds, Idle, Leave, Raised, Replacing
<1>8. TokensKnown'
  BY <1>1 DEF IInv, TokensKnown, StreamEnds, Idle, Leave, Raised, TypeOK, Replacing
<1>9. OneAccountPerRun'
  BY <1>1, <1>2 DEF IInv, OneAccountPerRun, StreamEnds, Procs, Idle, Leave, Raised, Named
<1>10. EnabledAsVerified'
  BY <1>1 DEF IInv, EnabledAsVerified, Named
<1> QED  BY <1>3, <1>4, <1>5, <1>6, <1>7, <1>8, <1>9, <1>10 DEF IInv

(* The stop of a failed call changes only the switch. *)
LEMMA StopWorkerKeeps ==
  ASSUME IInv, NEW p \in Slots, StopWorker(p)
  PROVE  IInv'
<1>1. UNCHANGED <<record, pending, account, worker, valid, granted, edits, ran, verified, gone>>
  BY DEF StopWorker, provider, history
<1>2. settings' \in Settings
  BY Zenon DEF IInv, TypeOK, Settings, StopWorker
<1>3. proc' \in [Procs -> Proc]
  BY PlanConstants DEF IInv, TypeOK, Procs, Proc, Idle, StopWorker, Leave
<1>4. TypeOK'
  BY <1>1, <1>2, <1>3 DEF IInv, TypeOK
<1>5. LocksHeld'
  BY DEF IInv, LocksHeld, StopWorker, Idle, Leave, Renewing
<1>6. Presented'
  BY DEF IInv, Presented, StopWorker, Idle, Leave, Renewing
<1>7. AtRunAccount'
  BY <1>1 DEF IInv, AtRunAccount, StopWorker, Idle, Leave, Renewing
<1>8. TokensDistinct'
  BY DEF IInv, TokensDistinct, StopWorker, Idle, Leave, Replacing
<1>9. TokensKnown'
  BY <1>1 DEF IInv, TokensKnown, StopWorker, Idle, Leave, TypeOK, Replacing
<1>10. OneAccountPerRun'
  BY <1>1 DEF IInv, OneAccountPerRun, StopWorker, Idle, Leave, Named
<1>11. EnabledAsVerified'
  BY DEF EnabledAsVerified, StopWorker
<1> QED  BY <1>4, <1>5, <1>6, <1>7, <1>8, <1>9, <1>10, <1>11 DEF IInv

(* The owner enables what the settings name. *)
LEMMA OwnerEnablesKeeps ==
  ASSUME IInv, OwnerEnables
  PROVE  IInv'
<1>1. UNCHANGED <<record, pending, account, worker, proc, valid, granted, ran, gone>>
  BY DEF OwnerEnables, provider
<1>2. edits' \in 0..MaxEdits
  BY PlanConstants DEF IInv, TypeOK, OwnerEnables, Edit
<1>3. settings' \in Settings
  BY Zenon DEF IInv, TypeOK, Settings, OwnerEnables
<1>4. verified' \in Choice
  BY DEF IInv, TypeOK, Choice, Named, Settings, OwnerEnables
<1>5. TypeOK'
  BY <1>1, <1>2, <1>3, <1>4 DEF IInv, TypeOK
<1>6. OneAccountPerRun'
  BY DEF IInv, OneAccountPerRun, OwnerEnables, Named
<1>7. EnabledAsVerified'
  BY DEF EnabledAsVerified, OwnerEnables, Named
<1>8. LocksHeld' /\ Presented' /\ AtRunAccount' /\ TokensDistinct' /\ TokensKnown'
  BY <1>1 DEF IInv, LocksHeld, Presented, AtRunAccount, TokensDistinct, TokensKnown, Renewing,
     Replacing
<1> QED  BY <1>5, <1>6, <1>7, <1>8 DEF IInv

(* A session that is no longer fresh keeps its token. *)
LEMMA ExpiresKeeps ==
  ASSUME IInv, NEW a \in Accounts, Expires(a)
  PROVE  IInv'
<1>1. UNCHANGED <<settings, pending, account, worker, proc, valid, granted, edits, ran,
      verified, gone>>
  BY DEF Expires, provider, history
<1>2. record' \in [Accounts -> Record]
  BY PlanConstants, Zenon DEF IInv, TypeOK, Record, Expires
<1>3. TypeOK'
  BY <1>1, <1>2 DEF IInv, TypeOK
<1>4. Presented'
  BY DEF IInv, Presented, Expires, Renewing
<1>5. TokensDistinct'
  BY DEF IInv, TokensDistinct, Expires, Replacing
<1>6. TokensKnown'
  BY <1>1 DEF IInv, TokensKnown, Expires, Replacing
<1>7. LocksHeld' /\ AtRunAccount' /\ OneAccountPerRun' /\ EnabledAsVerified'
  BY <1>1 DEF IInv, LocksHeld, AtRunAccount, OneAccountPerRun, EnabledAsVerified, Named,
     Renewing
<1> QED  BY <1>3, <1>4, <1>5, <1>6, <1>7 DEF IInv

(* A revoked token is gone. *)
LEMMA RevokesKeeps ==
  ASSUME IInv, NEW t \in Tokens, Revokes(t)
  PROVE  IInv'
<1>1. UNCHANGED <<settings, record, pending, account, worker, proc, granted, ran, verified>>
  BY DEF Revokes
<1>2. edits' \in 0..MaxEdits
  BY PlanConstants DEF IInv, TypeOK, Revokes, Edit
<1>3. valid' \subseteq Tokens
  BY DEF IInv, TypeOK, Revokes
<1>4. gone' \subseteq Tokens
  BY DEF IInv, TypeOK, Revokes
<1>5. TypeOK'
  BY <1>1, <1>2, <1>3, <1>4 DEF IInv, TypeOK
<1>6. TokensKnown'
  BY DEF IInv, TokensKnown, Revokes, Replacing
<1>7. LocksHeld' /\ Presented' /\ AtRunAccount' /\ TokensDistinct' /\ OneAccountPerRun' /\
        EnabledAsVerified'
  BY <1>1 DEF IInv, LocksHeld, Presented, AtRunAccount, TokensDistinct, OneAccountPerRun,
     EnabledAsVerified, Named, Renewing, Replacing
<1> QED  BY <1>5, <1>6, <1>7 DEF IInv

(* The invariant holds at the start, when nobody holds a lock or a token. *)
LEMMA InitKeeps == Init => IInv
<1> SUFFICES ASSUME Init PROVE IInv
  OBVIOUS
<1>1. TypeOK
  BY PlanConstants, IdleTyped
     DEF Init, TypeOK, Settings, Record, NoRecord, Pending, NoPending, Choice, Nothing
<1>2. LocksHeld
  BY PlanConstants DEF Init, LocksHeld, Renewing, Idle, Procs
<1>3. Presented /\ AtRunAccount /\ OneAccountPerRun /\ EnabledAsVerified
  BY PlanConstants DEF Init, Presented, AtRunAccount, OneAccountPerRun, EnabledAsVerified, Renewing,
     Idle, NoRecord, Procs
<1>4. TokensDistinct /\ TokensKnown
  BY DEF Init, TokensDistinct, TokensKnown, Replacing, Idle, NoRecord, Procs
<1> QED  BY <1>1, <1>2, <1>3, <1>4 DEF IInv

(* A step that changes nothing. *)
LEMMA StutterKeeps == IInv /\ UNCHANGED vars => IInv'
  BY DEF vars, provider, history, IInv, TypeOK, LocksHeld, Presented, AtRunAccount, TokensDistinct,
     TokensKnown, OneAccountPerRun, EnabledAsVerified, Renewing, Replacing, Named

(* Every step of every slot, screen, run and of the environment. *)
LEMMA NextKeeps == IInv /\ [Next]_vars => IInv'
<1> SUFFICES ASSUME IInv, [Next]_vars PROVE IInv'
  OBVIOUS
<1>1. ASSUME NEW p \in Procs, Session(p) PROVE IInv'
  BY <1>1, NoSessionKeeps, UseSessionKeeps, RenewKeeps, RotatesKeeps, RotatesUnheardKeeps,
     RenewsSameKeeps, RejectsKeeps, NotRenewedKeeps, StoreRenewedKeeps, DropRenewedKeeps,
     ClearRejectedKeeps DEF Session
<1>2. ASSUME NEW s \in Screens, Screen(s) PROVE IInv'
  BY <1>2, LoginKeeps, CallbackKeeps, ExchangeKeeps, SignInFailsKeeps, SaveSessionKeeps,
     ActivateKeeps, ChooseKeeps, SaveRefusedKeeps, SaveKeeps, PauseKeeps, ScreenDiesKeeps DEF
     Screen
<1>3. CASE Run
  BY <1>3, StartKeeps, RunEndsKeeps, RunDiesKeeps, StreamEndsKeeps, StopWorkerKeeps DEF Run
<1>4. CASE Environment
  BY <1>4, OwnerEnablesKeeps, ExpiresKeeps, RevokesKeeps DEF Environment
<1>5. CASE UNCHANGED vars
  BY <1>5, StutterKeeps
<1> QED  BY <1>1, <1>2, <1>3, <1>4, <1>5 DEF Next

(* The locks, the tokens and the settings agree in every reachable state. *)
THEOREM Invariant == Spec => []IInv
<1> QED  BY InitKeeps, NextKeeps, PTL DEF Spec

(* Account replacement is forbidden while an inference tick runs: the slots of a run
   infer with the account and the model it started with. *)
THEOREM RunKeepsAccount == Spec => []OneAccountPerRun
<1>1. IInv => OneAccountPerRun
  BY DEF IInv
<1> QED  BY <1>1, Invariant, PTL

(* Neither a sign-in nor a save starts background work. *)
THEOREM NothingStartsUnverified == Spec => []EnabledAsVerified
<1>1. IInv => EnabledAsVerified
  BY DEF IInv
<1> QED  BY <1>1, Invariant, PTL

(* A renewal's answer replaces only the session that was renewed. *)
THEOREM NewestSessionKept == Spec => NewSessionKept
<1>1. IInv => \A p \in Procs :
        proc[p].phase = "answered" /\ record' # record
          => record[proc[p].key].token = proc[p].token
  BY DEF IInv, Presented, Renewing
<1> QED  BY <1>1, Invariant, PTL DEF NewSessionKept

(* A session is thrown away only when its token is gone. *)
THEOREM SessionsKept == Spec => SessionKept
<1>1. IInv /\ [Next]_vars =>
        \A a \in Accounts :
          record[a].token # 0 /\ record'[a].token = 0 => record[a].token \in gone
  <2> DEFINE Kept == \A a \in Accounts :
               record[a].token # 0 /\ record'[a].token = 0 => record[a].token \in gone
  <2> SUFFICES ASSUME IInv, [Next]_vars PROVE Kept
    OBVIOUS
  <2>1. CASE UNCHANGED record
    BY <2>1
  <2>2. ASSUME NEW p \in Procs, StoreRenewed(p) PROVE Kept
    BY <2>2 DEF IInv, TypeOK, StoreRenewed, Record
  <2>3. ASSUME NEW p \in Procs, ClearRejected(p) PROVE Kept
    BY <2>3 DEF IInv, TypeOK, ClearRejected, Presented, TokensKnown, Renewing, Record
  <2>4. ASSUME NEW s \in Screens, SaveSession(s) PROVE Kept
    BY <2>4 DEF IInv, TypeOK, SaveSession, Presented, Procs, Record
  <2>5. ASSUME NEW b \in Accounts, Expires(b) PROVE Kept
    BY <2>5 DEF IInv, TypeOK, Expires, Record
  <2>6. ASSUME NEW p \in Procs, Session(p) PROVE Kept
    <3>1. CASE StoreRenewed(p) \/ ClearRejected(p)
      BY <2>2, <2>3, <3>1
    <3>2. CASE ~(StoreRenewed(p) \/ ClearRejected(p))
      BY <2>1, <2>6, <3>2 DEF Session, NoSession, UseSession, Renew, Rotates, RotatesUnheard,
         RenewsSame, Rejects, NotRenewed, DropRenewed
    <3> QED  BY <3>1, <3>2
  <2>7. ASSUME NEW s \in Screens, Screen(s) PROVE Kept
    <3>1. CASE SaveSession(s)
      BY <2>4, <3>1
    <3>2. CASE ~SaveSession(s)
      BY <2>1, <2>7, <3>2 DEF Screen, Login, Callback, Exchange, SignInFails, Activate, Choose,
         SaveRefused, Save, Pause, ScreenDies
    <3> QED  BY <3>1, <3>2
  <2>8. CASE Run
    BY <2>1, <2>8 DEF Run, Start, RunEnds, RunDies, StreamEnds, StopWorker
  <2>9. CASE Environment
    BY <2>1, <2>5, <2>9 DEF Environment, OwnerEnables, Revokes
  <2>10. CASE UNCHANGED vars
    BY <2>1, <2>10 DEF vars
  <2> QED  BY <2>6, <2>7, <2>8, <2>9, <2>10 DEF Next
<1> QED  BY <1>1, Invariant, PTL DEF Spec, SessionKept

=============================================================================
