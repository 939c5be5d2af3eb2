-------------------------- MODULE TransfersProofs --------------------------
(***************************************************************************)
(* Proofs about Transfers, for every set of transfers, accounts and        *)
(* workers, every amount and every order of the accounts' ids, with        *)
(* crashes or without.                                                     *)
(*                                                                         *)
(* The argument has three parts.  Intents: until its id is handed out an   *)
(* intent has one worker, its creator (CreatorsAreAlone), and confirmations*)
(* only ever see it after that (ConfirmersAreLate), so nothing makes an    *)
(* intent live again that was executed.  Locks: a worker holds locks only  *)
(* while it confirms, on accounts of its transfer, and while it waits for  *)
(* the second it holds exactly the one that comes first (LocksAreHeldIn-   *)
(* Order); two that wait for each other would each hold the account that   *)
(* comes first for both.  Re-checks: with both locks held, what the re-    *)
(* check saw of the accounts is true until the commit (RechecksHold).      *)
(***************************************************************************)
EXTENDS Transfers, LedgerProofs

-----------------------------------------------------------------------------
(* The inductive invariant                                                 *)

Creating   == {"code_new", "mail_new", "discard"}
Confirming == {"verify", "lock", "lock_more", "recheck", "move"}
Locked     == {"recheck", "move"}

\* The intent of a creator is known to nobody else.
CreatorsAreAlone ==
    \A k \in Workers : pc[k] \in Creating =>
        /\ intent[job[k]] = "saved"
        /\ \A j \in Workers : j # k /\ pc[j] \in Creating => job[j] # job[k]

\* Who confirms an intent has been told of it.
ConfirmersAreLate ==
    \A k \in Workers : pc[k] \in Confirming => intent[job[k]] \notin {"none", "saved"}

\* Whoever holds a lock confirms a transfer of that account, and who waits for
\* the second account holds the first, and no other.
LocksAreHeldInOrder ==
    \A k \in Workers :
        /\ \A a \in Accounts : accountLock[a] = k =>
              /\ pc[k] \in {"lock_more"} \cup Locked
              /\ a \in AccountsOf(job[k])
              /\ pc[k] = "lock_more" => a = FirstToLock(job[k])
        /\ pc[k] = "lock_more" => accountLock[FirstToLock(job[k])] = k
        /\ pc[k] \in Locked => \A a \in AccountsOf(job[k]) : accountLock[a] = k

IInv ==
    /\ TypeOK
    /\ CreatorsAreAlone
    /\ ConfirmersAreLate
    /\ LocksAreHeldInOrder
    /\ ExecutedIsGone

-----------------------------------------------------------------------------
(* The accounts of a transfer                                              *)

\* The order of ids has a least account among the one or two of a transfer.
LEMMA FirstFacts ==
    ASSUME NEW t \in Transfers
    PROVE  /\ AccountsOf(t) \subseteq Accounts
           /\ FirstToLock(t) \in AccountsOf(t)
           /\ \A b \in AccountsOf(t) : Rank[FirstToLock(t)] <= Rank[b]
           /\ \A a, b \in AccountsOf(t) \ {FirstToLock(t)} : a = b
<1>1. /\ AccountsOf(t) \subseteq {FromOf[t], ToOf[t]}
      /\ FromOf[t] \in AccountsOf(t)
      /\ AccountsOf(t) \subseteq Accounts
  BY TransferAssumption, NoOneAssumption DEF AccountsOf
<1>2. \A a \in Accounts : Rank[a] \in Nat
  BY TransferAssumption
<1>3. \E a \in AccountsOf(t) : \A b \in AccountsOf(t) : Rank[a] <= Rank[b]
  <2>1. CASE ToOf[t] \in AccountsOf(t) /\ Rank[ToOf[t]] <= Rank[FromOf[t]]
    BY <1>1, <1>2, <2>1
  <2>2. CASE ToOf[t] \notin AccountsOf(t) \/ Rank[FromOf[t]] <= Rank[ToOf[t]]
    BY <1>1, <1>2, <2>2
  <2> QED
    BY <1>1, <1>2, <2>1, <2>2
<1>4. /\ FirstToLock(t) \in AccountsOf(t)
      /\ \A b \in AccountsOf(t) : Rank[FirstToLock(t)] <= Rank[b]
  BY <1>3 DEF FirstToLock
<1> QED
  BY <1>1, <1>4

-----------------------------------------------------------------------------
(* The initial states                                                      *)

LEMMA InitInvariant == Init => IInv
<1> SUFFICES ASSUME Init PROVE IInv
  OBVIOUS
<1> USE DEF Init, AccountInit
<1>1. TypeOK
  <2>1. ledger \subseteq EntriesOf(Accounts \cup (Transfers \X Nat), Accounts)
    BY OpeningAssumption DEF OpeningLedger, Entry, EntriesOf, EntryStatus
  <2> QED
    BY <2>1 DEF TypeOK, AccountTypeOK, Labels
<1>2. CreatorsAreAlone /\ ConfirmersAreLate /\ ExecutedIsGone
  BY DEF CreatorsAreAlone, ConfirmersAreLate, ExecutedIsGone, Creating, Confirming
<1>3. LocksAreHeldInOrder
  BY NoOneAssumption DEF LocksAreHeldInOrder, Locked
<1> QED
  BY <1>1, <1>2, <1>3 DEF IInv

-----------------------------------------------------------------------------
(* The parts that a step does not disturb                                  *)

\* Locks are about labels, jobs and locks only.
LEMMA LocksUndisturbed ==
    ASSUME LocksAreHeldInOrder, UNCHANGED accountLock,
           \A k \in Workers : \/ pc'[k] = pc[k] /\ job'[k] = job[k]
                              \/ /\ pc[k] \notin {"lock_more"} \cup Locked
                                 /\ pc'[k] \notin {"lock_more"} \cup Locked
    PROVE  LocksAreHeldInOrder'
<1> SUFFICES ASSUME NEW k \in Workers
             PROVE  /\ \A a \in Accounts : accountLock'[a] = k =>
                          /\ pc'[k] \in {"lock_more"} \cup Locked
                          /\ a \in AccountsOf(job'[k])
                          /\ pc'[k] = "lock_more" => a = FirstToLock(job'[k])
                    /\ pc'[k] = "lock_more" => accountLock'[FirstToLock(job'[k])] = k
                    /\ pc'[k] \in Locked => \A a \in AccountsOf(job'[k]) : accountLock'[a] = k
  BY DEF LocksAreHeldInOrder, AccountsOf, FirstToLock, Locked
<1>1. CASE pc'[k] = pc[k] /\ job'[k] = job[k]
  BY <1>1 DEF LocksAreHeldInOrder
<1>2. CASE /\ pc[k] \notin {"lock_more"} \cup Locked
           /\ pc'[k] \notin {"lock_more"} \cup Locked
  BY <1>2 DEF LocksAreHeldInOrder
<1> QED
  BY <1>1, <1>2

\* A worker that is done has no part in what is said about intents.
LEMMA IntentsUndisturbed ==
    ASSUME CreatorsAreAlone, ConfirmersAreLate, ExecutedIsGone, UNCHANGED <<intent, executed>>,
           \A k \in Workers : pc'[k] = "idle" \/ (pc'[k] = pc[k] /\ job'[k] = job[k])
    PROVE  CreatorsAreAlone' /\ ConfirmersAreLate' /\ ExecutedIsGone'
BY DEF CreatorsAreAlone, ConfirmersAreLate, ExecutedIsGone, Creating, Confirming
-----------------------------------------------------------------------------
(* The step lemmas: initiating, and mailing codes                          *)

LEMMA InitiateCreatesInvariant ==
    ASSUME IInv, NEW k \in Workers, NEW t \in Transfers, InitiateCreates(k, t)
    PROVE  IInv'
<1> USE DEF IInv, InitiateCreates, Goto, accountVars
<1>1. TypeOK'
  BY DEF TypeOK, AccountTypeOK, Labels
<1>2. CreatorsAreAlone'
  BY DEF CreatorsAreAlone, Creating, TypeOK
<1>3. ConfirmersAreLate'
  BY DEF ConfirmersAreLate, Confirming, TypeOK
<1>4. LocksAreHeldInOrder'
  BY LocksUndisturbed DEF TypeOK, Locked
<1>5. ExecutedIsGone'
  BY DEF ExecutedIsGone, TypeOK
<1> QED
  BY <1>1, <1>2, <1>3, <1>4, <1>5

LEMMA CodeIsSavedInvariant ==
    ASSUME IInv, NEW k \in Workers, CodeIsSaved(k)
    PROVE  IInv'
<1> USE DEF IInv, Goto, SetCode, accountVars
<1>1. /\ \/ pc[k] = "code_new" /\ pc' = [pc EXCEPT ![k] = "mail_new"]
         \/ pc[k] = "code" /\ pc' = [pc EXCEPT ![k] = "mail"]
      /\ device' = [device EXCEPT ![job[k]] = k]
      /\ UNCHANGED <<accountVars, intent, executed, job>>
  BY DEF CodeIsSaved
<1>2. TypeOK'
  BY <1>1 DEF TypeOK, AccountTypeOK, Labels
<1>3. CreatorsAreAlone'
  BY <1>1 DEF CreatorsAreAlone, Creating, TypeOK
<1>4. ConfirmersAreLate'
  BY <1>1 DEF ConfirmersAreLate, Confirming, TypeOK
<1>5. LocksAreHeldInOrder'
  BY <1>1, LocksUndisturbed DEF TypeOK, Locked
<1>6. ExecutedIsGone'
  BY <1>1 DEF ExecutedIsGone
<1> QED
  BY <1>2, <1>3, <1>4, <1>5, <1>6

\* The end of a resend, and of an initiation that was not discarded yet: its
\* intent was saved and not executed, so it may become live.
LEMMA CodeIsMailedInvariant ==
    ASSUME IInv, NEW k \in Workers, CodeIsMailed(k)
    PROVE  IInv'
<1> USE DEF IInv, Respond, SetCode, accountVars
<1>1. PICK t \in Transfers : t = job[k]
  BY DEF CodeIsMailed, TypeOK
<1>2. /\ pc[k] \in {"mail", "mail_new"}
      /\ device' = [device EXCEPT ![t] = "mailed"] \/ UNCHANGED device
      /\ Respond(k)
      /\ UNCHANGED <<accountVars, executed>>
  BY <1>1 DEF CodeIsMailed
<1>3. TypeOK'
  <2>1. intent' \in [Transfers -> {"none", "saved", "live", "expired", "deleted"}]
    BY DEF CodeIsMailed, TypeOK
  <2> QED
    BY <1>2, <2>1 DEF TypeOK, AccountTypeOK, Labels
<1>4. LocksAreHeldInOrder'
  BY <1>2, LocksUndisturbed DEF TypeOK, Locked
<1>5. CASE pc[k] = "mail"
  <2>1. UNCHANGED intent
    BY <1>5 DEF CodeIsMailed
  <2> QED
    BY <1>2, <1>3, <1>4, <2>1, IntentsUndisturbed DEF TypeOK
<1>6. CASE pc[k] = "mail_new"
  <2>1. /\ intent[t] = "saved"
        /\ intent' = [intent EXCEPT ![t] = "live"]
        /\ \A j \in Workers : j # k /\ pc[j] \in Creating => job[j] # t
    BY <1>1, <1>6 DEF CodeIsMailed, CreatorsAreAlone, Creating
  <2>2. CreatorsAreAlone' /\ ConfirmersAreLate'
    BY <1>2, <2>1 DEF CreatorsAreAlone, ConfirmersAreLate, Creating, Confirming, TypeOK
  <2>3. ExecutedIsGone'
    BY <1>2, <2>1 DEF ExecutedIsGone, TypeOK
  <2> QED
    BY <1>3, <1>4, <2>2, <2>3
<1> QED
  BY <1>2, <1>5, <1>6

LEMMA CodeIsTakenBackInvariant ==
    ASSUME IInv, NEW k \in Workers, CodeIsTakenBack(k)
    PROVE  IInv'
<1> USE DEF IInv, Goto, Respond, SetCode, accountVars
<1>1. /\ \/ pc[k] = "mail_new" /\ pc' = [pc EXCEPT ![k] = "discard"] /\ UNCHANGED job
         \/ pc[k] = "mail" /\ Respond(k)
      /\ device' = [device EXCEPT ![job[k]] = "none"]
      /\ UNCHANGED <<accountVars, intent, executed>>
  BY DEF CodeIsTakenBack
<1>2. TypeOK'
  BY <1>1 DEF TypeOK, AccountTypeOK, Labels
<1>3. CreatorsAreAlone'
  BY <1>1 DEF CreatorsAreAlone, Creating, TypeOK
<1>4. ConfirmersAreLate'
  BY <1>1 DEF ConfirmersAreLate, Confirming, TypeOK
<1>5. LocksAreHeldInOrder'
  BY <1>1, LocksUndisturbed DEF TypeOK, Locked
<1>6. ExecutedIsGone'
  BY <1>1 DEF ExecutedIsGone
<1> QED
  BY <1>2, <1>3, <1>4, <1>5, <1>6

LEMMA InitiateDiscardsInvariant ==
    ASSUME IInv, NEW k \in Workers, InitiateDiscards(k)
    PROVE  IInv'
<1> USE DEF IInv, Respond, accountVars
<1>1. PICK t \in Transfers : t = job[k]
  BY DEF InitiateDiscards, TypeOK
<1>2. /\ pc[k] = "discard"
      /\ intent' = [intent EXCEPT ![t] = "deleted"]
      /\ Respond(k)
      /\ UNCHANGED <<accountVars, device, executed>>
      /\ \A j \in Workers : j # k /\ pc[j] \in Creating => job[j] # t
  BY <1>1 DEF InitiateDiscards, CreatorsAreAlone, Creating
<1>3. TypeOK'
  BY <1>2 DEF TypeOK, AccountTypeOK, Labels
<1>4. CreatorsAreAlone' /\ ConfirmersAreLate'
  BY <1>2 DEF CreatorsAreAlone, ConfirmersAreLate, Creating, Confirming, TypeOK
<1>5. LocksAreHeldInOrder'
  BY <1>2, LocksUndisturbed DEF TypeOK, Locked
<1>6. ExecutedIsGone'
  BY <1>2 DEF ExecutedIsGone, TypeOK
<1> QED
  BY <1>3, <1>4, <1>5, <1>6

\* A resend or a confirmation begins: the intent is live.
LEMMA LiveBeginInvariant ==
    ASSUME IInv, NEW k \in Workers, NEW t \in Transfers,
           ResendBegin(k, t) \/ ConfirmBegin(k, t)
    PROVE  IInv'
<1> USE DEF IInv, Goto, accountVars
<1>1. PICK label \in {"code", "verify"} :
         /\ pc[k] = "idle" /\ intent[t] = "live"
         /\ pc' = [pc EXCEPT ![k] = label]
         /\ job' = [job EXCEPT ![k] = t]
         /\ UNCHANGED <<accountVars, intent, device, executed>>
  BY DEF ResendBegin, ConfirmBegin
<1>2. TypeOK'
  BY <1>1 DEF TypeOK, AccountTypeOK, Labels
<1>3. CreatorsAreAlone'
  BY <1>1 DEF CreatorsAreAlone, Creating, TypeOK
<1>4. ConfirmersAreLate'
  BY <1>1 DEF ConfirmersAreLate, Confirming, TypeOK
<1>5. LocksAreHeldInOrder'
  BY <1>1, LocksUndisturbed DEF TypeOK, Locked
<1>6. ExecutedIsGone'
  BY <1>1 DEF ExecutedIsGone
<1> QED
  BY <1>2, <1>3, <1>4, <1>5, <1>6

-----------------------------------------------------------------------------
(* The step lemmas: confirming                                             *)

LEMMA ConfirmVerifiesInvariant ==
    ASSUME IInv, NEW k \in Workers, ConfirmVerifies(k)
    PROVE  IInv'
<1> USE DEF IInv, ConfirmVerifies, Goto, SetCode, accountVars
<1>1. TypeOK'
  BY DEF TypeOK, AccountTypeOK, Labels
<1>2. CreatorsAreAlone'
  BY DEF CreatorsAreAlone, Creating, TypeOK
<1>3. ConfirmersAreLate'
  BY DEF ConfirmersAreLate, Confirming, TypeOK
<1>4. LocksAreHeldInOrder'
  BY LocksUndisturbed DEF TypeOK, Locked
<1>5. ExecutedIsGone'
  BY DEF ExecutedIsGone
<1> QED
  BY <1>1, <1>2, <1>3, <1>4, <1>5

\* The first lock: on the account that comes first.
LEMMA ConfirmLocksInvariant ==
    ASSUME IInv, NEW k \in Workers, ConfirmLocks(k)
    PROVE  IInv'
<1> USE DEF IInv
<1>1. PICK t \in Transfers : t = job[k]
  BY DEF ConfirmLocks, TypeOK
<1>2. PICK f \in Accounts : f = FirstToLock(t)
  BY FirstFacts
<1>3. /\ pc[k] = "lock"
      /\ accountLock[f] = NoOne
      /\ accountLock' = [accountLock EXCEPT ![f] = k]
      /\ \/ pc' = [pc EXCEPT ![k] = "lock_more"]
         \/ pc' = [pc EXCEPT ![k] = "recheck"] /\ AccountsOf(t) = {f}
      /\ UNCHANGED <<accountStatus, ledger, canTransact, intent, device, executed, job>>
  BY <1>1, <1>2 DEF ConfirmLocks, LockAccount, Unlocked, Goto
<1>4. f \in AccountsOf(t)
  BY <1>2, FirstFacts
<1>5. TypeOK'
  BY <1>3 DEF TypeOK, AccountTypeOK, Labels
<1>6. CreatorsAreAlone' /\ ConfirmersAreLate' /\ ExecutedIsGone'
  BY <1>3 DEF CreatorsAreAlone, ConfirmersAreLate, ExecutedIsGone, Creating, Confirming, TypeOK
<1>7. LocksAreHeldInOrder'
  <2> SUFFICES ASSUME NEW j \in Workers
               PROVE  /\ \A a \in Accounts : accountLock'[a] = j =>
                            /\ pc'[j] \in {"lock_more"} \cup Locked
                            /\ a \in AccountsOf(job'[j])
                            /\ pc'[j] = "lock_more" => a = FirstToLock(job'[j])
                      /\ pc'[j] = "lock_more" => accountLock'[FirstToLock(job'[j])] = j
                      /\ pc'[j] \in Locked => \A a \in AccountsOf(job'[j]) : accountLock'[a] = j
    BY DEF LocksAreHeldInOrder, Locked, AccountsOf, FirstToLock
  <2>1. CASE j = k
    BY <1>1, <1>2, <1>3, <1>4, <2>1 DEF LocksAreHeldInOrder, Locked, TypeOK, AccountTypeOK
  <2>2. CASE j # k
    <3>1. /\ pc'[j] = pc[j] /\ job'[j] = job[j]
          /\ \A a \in Accounts : accountLock'[a] = j <=> accountLock[a] = j
      BY <1>3, <2>2, NoOneAssumption DEF TypeOK, AccountTypeOK
    <3>2. pc[j] \in {"lock_more"} \cup Locked =>
              FirstToLock(job[j]) \in Accounts /\ AccountsOf(job[j]) \subseteq Accounts
      BY FirstFacts DEF TypeOK, Locked
    <3> QED
      BY <3>1, <3>2 DEF LocksAreHeldInOrder, Locked
  <2> QED
    BY <2>1, <2>2
<1> QED
  BY <1>5, <1>6, <1>7

\* The second lock, and with it all of them.
LEMMA ConfirmLocksMoreInvariant ==
    ASSUME IInv, NEW k \in Workers, ConfirmLocksMore(k)
    PROVE  IInv'
<1> USE DEF IInv
<1>1. PICK t \in Transfers : t = job[k]
  BY DEF ConfirmLocksMore, TypeOK
<1>2. PICK f \in AccountsOf(t) : f = FirstToLock(t)
  BY FirstFacts
<1>3. PICK b \in AccountsOf(t) \ {f} :
         /\ pc[k] = "lock_more"
         /\ accountLock[b] = NoOne
         /\ accountLock' = [accountLock EXCEPT ![b] = k]
         /\ pc' = [pc EXCEPT ![k] = "recheck"]
         /\ UNCHANGED <<accountStatus, ledger, canTransact, intent, device, executed, job>>
  BY <1>1, <1>2 DEF ConfirmLocksMore, LockAccount, Unlocked, Goto
<1>4. /\ b \in Accounts /\ f \in Accounts
      /\ AccountsOf(t) = {f, b}
  BY <1>2, <1>3, FirstFacts
<1>5. TypeOK'
  BY <1>3, <1>4 DEF TypeOK, AccountTypeOK, Labels
<1>6. CreatorsAreAlone' /\ ConfirmersAreLate' /\ ExecutedIsGone'
  BY <1>3 DEF CreatorsAreAlone, ConfirmersAreLate, ExecutedIsGone, Creating, Confirming, TypeOK
<1>7. LocksAreHeldInOrder'
  <2> SUFFICES ASSUME NEW j \in Workers
               PROVE  /\ \A a \in Accounts : accountLock'[a] = j =>
                            /\ pc'[j] \in {"lock_more"} \cup Locked
                            /\ a \in AccountsOf(job'[j])
                            /\ pc'[j] = "lock_more" => a = FirstToLock(job'[j])
                      /\ pc'[j] = "lock_more" => accountLock'[FirstToLock(job'[j])] = j
                      /\ pc'[j] \in Locked => \A a \in AccountsOf(job'[j]) : accountLock'[a] = j
    BY DEF LocksAreHeldInOrder, Locked, AccountsOf, FirstToLock
  <2>1. CASE j = k
    <3>1. accountLock[f] = k
      BY <1>1, <1>2, <1>3 DEF LocksAreHeldInOrder, Locked
    <3>2. accountLock'[f] = k /\ accountLock'[b] = k
      BY <1>3, <1>4, <3>1 DEF TypeOK, AccountTypeOK
    <3>3. \A a \in Accounts : accountLock'[a] = k => a \in {f, b}
      BY <1>1, <1>2, <1>3, <1>4 DEF LocksAreHeldInOrder, Locked, TypeOK, AccountTypeOK
    <3>4. pc'[k] = "recheck" /\ job'[k] = t
      BY <1>1, <1>3 DEF TypeOK
    <3> QED
      BY <1>4, <2>1, <3>2, <3>3, <3>4 DEF Locked
  <2>2. CASE j # k
    <3>1. /\ pc'[j] = pc[j] /\ job'[j] = job[j]
          /\ \A a \in Accounts : accountLock'[a] = j <=> accountLock[a] = j
      BY <1>3, <1>4, <2>2, NoOneAssumption DEF TypeOK, AccountTypeOK
    <3>2. pc[j] \in {"lock_more"} \cup Locked =>
              FirstToLock(job[j]) \in Accounts /\ AccountsOf(job[j]) \subseteq Accounts
      BY FirstFacts DEF TypeOK, Locked
    <3> QED
      BY <3>1, <3>2 DEF LocksAreHeldInOrder, Locked
  <2> QED
    BY <2>1, <2>2
<1> QED
  BY <1>5, <1>6, <1>7

\* The end of a transaction frees the locks of its worker, and no others.
LEMMA LocksReleased ==
    ASSUME TypeOK, LocksAreHeldInOrder, NEW k \in Workers, ReleaseAccountLocks(k), Respond(k)
    PROVE  /\ LocksAreHeldInOrder'
           /\ accountLock' \in [Accounts -> Workers \cup {NoOne}]
<1>1. accountLock' \in [Accounts -> Workers \cup {NoOne}]
  BY DEF ReleaseAccountLocks, TypeOK, AccountTypeOK
<1>2. \A a \in Accounts, j \in Workers :
         accountLock'[a] = j <=> accountLock[a] = j /\ j # k
  BY NoOneAssumption DEF ReleaseAccountLocks, TypeOK, AccountTypeOK
<1>3. \A j \in Workers : j # k => pc'[j] = pc[j] /\ job'[j] = job[j]
  BY DEF Respond, TypeOK
<1>4. pc'[k] = "idle"
  BY DEF Respond, TypeOK
<1>5. LocksAreHeldInOrder'
  <2> SUFFICES ASSUME NEW j \in Workers
               PROVE  /\ \A a \in Accounts : accountLock'[a] = j =>
                            /\ pc'[j] \in {"lock_more"} \cup Locked
                            /\ a \in AccountsOf(job'[j])
                            /\ pc'[j] = "lock_more" => a = FirstToLock(job'[j])
                      /\ pc'[j] = "lock_more" => accountLock'[FirstToLock(job'[j])] = j
                      /\ pc'[j] \in Locked => \A a \in AccountsOf(job'[j]) : accountLock'[a] = j
    BY DEF LocksAreHeldInOrder, Locked, AccountsOf, FirstToLock
  <2>1. CASE j = k
    BY <1>2, <1>4, <2>1 DEF Locked
  <2>2. CASE j # k
    <3>1. pc[j] \in {"lock_more"} \cup Locked =>
              FirstToLock(job[j]) \in Accounts /\ AccountsOf(job[j]) \subseteq Accounts
      BY FirstFacts DEF TypeOK, Locked
    <3> QED
      BY <1>2, <1>3, <2>2, <3>1 DEF LocksAreHeldInOrder, Locked
  <2> QED
    BY <2>1, <2>2
<1> QED
  BY <1>1, <1>5

\* The re-check changes nothing, and its worker keeps its locks.
LEMMA ConfirmRechecksInvariant ==
    ASSUME IInv, NEW k \in Workers, ConfirmRechecks(k)
    PROVE  IInv'
<1> USE DEF IInv, ConfirmRechecks, Goto, accountVars
<1>1. TypeOK'
  BY DEF TypeOK, AccountTypeOK, Labels
<1>2. CreatorsAreAlone'
  BY DEF CreatorsAreAlone, Creating, TypeOK
<1>3. ConfirmersAreLate'
  BY DEF ConfirmersAreLate, Confirming, TypeOK
<1>4. LocksAreHeldInOrder'
  <2>1. \A j \in Workers :
           /\ job'[j] = job[j] /\ pc'[j] = "lock_more" <=> pc[j] = "lock_more"
           /\ pc'[j] \in Locked <=> pc[j] \in Locked
    BY DEF TypeOK, Locked
  <2> QED
    BY <2>1 DEF LocksAreHeldInOrder, AccountsOf, FirstToLock
<1>5. ExecutedIsGone'
  BY DEF ExecutedIsGone
<1> QED
  BY <1>1, <1>2, <1>3, <1>4, <1>5

\* The commit.  No creator is left who could make the intent live again.
LEMMA ConfirmMovesInvariant ==
    ASSUME IInv, NEW k \in Workers, ConfirmMoves(k)
    PROVE  IInv'
<1> USE DEF IInv
<1>1. PICK t \in Transfers : t = job[k]
  BY DEF ConfirmMoves, TypeOK
<1>2. /\ pc[k] = "move"
      /\ ledger' = ledger \cup Legs(t, executed[t])
      /\ executed' = [executed EXCEPT ![t] = @ + 1]
      /\ intent' = [intent EXCEPT ![t] = "deleted"]
      /\ ReleaseAccountLocks(k)
      /\ Respond(k)
      /\ UNCHANGED <<accountStatus, canTransact, device>>
  BY <1>1 DEF ConfirmMoves, DeletesIntent
<1>3. intent[t] \notin {"none", "saved"}
  BY <1>1, <1>2 DEF ConfirmersAreLate, Confirming
<1>4. TypeOK'
  <2>1. executed[t] \in Nat
    BY DEF TypeOK
  <2>2. Legs(t, executed[t]) \subseteq EntriesOf(Accounts \cup (Transfers \X Nat), Accounts)
    BY <2>1, TransferAssumption DEF Legs, Entry, EntriesOf, EntryStatus
  <2>3. AccountTypeOK'
    BY <1>2, LocksReleased DEF TypeOK, AccountTypeOK
  <2>4. ledger' \subseteq EntriesOf(Accounts \cup (Transfers \X Nat), Accounts)
    BY <1>2, <2>2 DEF TypeOK
  <2>5. /\ intent' \in [Transfers -> {"none", "saved", "live", "expired", "deleted"}]
        /\ executed' \in [Transfers -> Nat]
    BY <1>2, <2>1 DEF TypeOK
  <2>6. /\ pc' \in [Workers -> Labels]
        /\ job' \in [Workers -> Transfers \cup {NoOne}]
        /\ \A j \in Workers : pc'[j] # "idle" => job'[j] \in Transfers
    BY <1>2 DEF TypeOK, Respond, Labels
  <2> QED
    BY <1>2, <2>3, <2>4, <2>5, <2>6 DEF TypeOK
<1>5. CreatorsAreAlone' /\ ConfirmersAreLate'
  BY <1>2, <1>3 DEF CreatorsAreAlone, ConfirmersAreLate, Creating, Confirming, Respond, TypeOK
<1>6. LocksAreHeldInOrder'
  BY <1>2, LocksReleased
<1>7. ExecutedIsGone'
  BY <1>2 DEF ExecutedIsGone, TypeOK
<1> QED
  BY <1>4, <1>5, <1>6, <1>7

\* The transaction is rolled back, by a re-check or by the worker's death.
LEMMA GivesUpInvariant ==
    ASSUME IInv, NEW k \in Workers, ConfirmRefuses(k) \/ Crash(k)
    PROVE  IInv'
<1> USE DEF IInv
<1>1. /\ ReleaseAccountLocks(k)
      /\ Respond(k)
      /\ UNCHANGED <<accountStatus, ledger, canTransact, intent, device, executed>>
  BY DEF ConfirmRefuses, Crash
<1>2. TypeOK'
  <2>1. AccountTypeOK'
    BY <1>1, LocksReleased DEF TypeOK, AccountTypeOK
  <2>2. /\ pc' \in [Workers -> Labels]
        /\ job' \in [Workers -> Transfers \cup {NoOne}]
        /\ \A j \in Workers : pc'[j] # "idle" => job'[j] \in Transfers
    BY <1>1 DEF TypeOK, Respond, Labels
  <2> QED
    BY <1>1, <2>1, <2>2 DEF TypeOK
<1>3. CreatorsAreAlone' /\ ConfirmersAreLate' /\ ExecutedIsGone'
  BY <1>1, IntentsUndisturbed DEF Respond, TypeOK
<1>4. LocksAreHeldInOrder'
  BY <1>1, LocksReleased
<1> QED
  BY <1>2, <1>3, <1>4

-----------------------------------------------------------------------------
(* The step lemmas: the rest                                               *)

LEMMA ExpiryInvariant ==
    ASSUME IInv, NEW t \in Transfers, IntentExpires(t) \/ CodeExpires(t)
    PROVE  IInv'
<1> USE DEF IInv, IntentExpires, CodeExpires, SetCode, accountVars
<1>1. TypeOK'
  BY DEF TypeOK, AccountTypeOK
<1>2. CreatorsAreAlone' /\ ConfirmersAreLate' /\ ExecutedIsGone'
  BY DEF CreatorsAreAlone, ConfirmersAreLate, ExecutedIsGone, Creating, Confirming, TypeOK
<1>3. LocksAreHeldInOrder'
  BY LocksUndisturbed
<1> QED
  BY <1>1, <1>2, <1>3

LEMMA OtherRequestInvariant ==
    ASSUME IInv, NEW a \in Accounts, OtherRequest(a)
    PROVE  IInv'
<1> USE DEF IInv, OtherRequest
<1>1. AccountTypeOK' /\ UNCHANGED <<ledger, accountLock>>
  BY DEF AccountRequest, FreezeAccount, UnfreezeAccount, GateChanges, AccountTypeOK, TypeOK
<1>2. TypeOK'
  BY <1>1 DEF TypeOK
<1>3. CreatorsAreAlone' /\ ConfirmersAreLate' /\ ExecutedIsGone'
  BY IntentsUndisturbed
<1>4. LocksAreHeldInOrder'
  BY <1>1, LocksUndisturbed
<1> QED
  BY <1>2, <1>3, <1>4

LEMMA StutterInvariant == IInv /\ UNCHANGED vars => IInv'
<1> SUFFICES ASSUME IInv, UNCHANGED vars PROVE IInv'
  OBVIOUS
<1> USE DEF IInv, vars, accountVars
<1>1. TypeOK'
  BY DEF TypeOK, AccountTypeOK
<1>2. CreatorsAreAlone' /\ ConfirmersAreLate' /\ ExecutedIsGone'
  BY IntentsUndisturbed
<1>3. LocksAreHeldInOrder'
  BY LocksUndisturbed
<1> QED
  BY <1>1, <1>2, <1>3

LEMMA NextInvariant == IInv /\ [Next]_vars => IInv'
<1> SUFFICES ASSUME IInv, [Next]_vars PROVE IInv'
  OBVIOUS
<1>1. CASE \E k \in Workers : WorkerStep(k) \/ Crash(k)
  BY <1>1, CodeIsSavedInvariant, CodeIsMailedInvariant, CodeIsTakenBackInvariant,
     InitiateDiscardsInvariant, ConfirmVerifiesInvariant, ConfirmLocksInvariant,
     ConfirmLocksMoreInvariant, ConfirmRechecksInvariant, ConfirmMovesInvariant,
     GivesUpInvariant DEF WorkerStep
<1>2. CASE \E k \in Workers, t \in Transfers :
              InitiateCreates(k, t) \/ ResendBegin(k, t) \/ ConfirmBegin(k, t)
  BY <1>2, InitiateCreatesInvariant, LiveBeginInvariant
<1>3. CASE \E t \in Transfers : IntentExpires(t) \/ CodeExpires(t)
  BY <1>3, ExpiryInvariant
<1>4. CASE \E a \in Accounts : OtherRequest(a)
  BY <1>4, OtherRequestInvariant
<1>5. CASE UNCHANGED vars
  BY <1>5, StutterInvariant
<1> QED
  BY <1>1, <1>2, <1>3, <1>4, <1>5 DEF Next

-----------------------------------------------------------------------------
(* Theorems                                                                *)

\* The strengthening is an invariant of the specification.
THEOREM Inductive == Spec => []IInv
<1>1. Init => IInv
  BY InitInvariant
<1>2. IInv /\ [Next]_vars => IInv'
  BY NextInvariant
<1> QED
  BY <1>1, <1>2, PTL DEF Spec

\* Every variable keeps its type.
THEOREM TypeCorrect == Spec => []TypeOK
<1>1. IInv => TypeOK
  BY DEF IInv
<1> QED
  BY <1>1, Inductive, PTL

\* An intent that moved money is deleted for good: no request finds it again,
\* however confirmations, resends, expiries and crashes interleave.
THEOREM ExecutedIntentsAreGone == Spec => []ExecutedIsGone
<1>1. IInv => ExecutedIsGone
  BY DEF IInv
<1> QED
  BY <1>1, Inductive, PTL

\* Two workers that wait for each other would each hold the first account of
\* both transfers, which is one account: they would be one worker.
LEMMA LocksMakeNoCircle == IInv => NoCircularWait
<1> SUFFICES ASSUME IInv,
                    NEW j \in Workers, NEW k \in Workers, j # k,
                    pc[j] = "lock_more", pc[k] = "lock_more",
                    NEW a \in AccountsOf(job[j]), accountLock[a] = k,
                    NEW b \in AccountsOf(job[k]), accountLock[b] = j
             PROVE  FALSE
  BY DEF NoCircularWait
<1>1. job[j] \in Transfers /\ job[k] \in Transfers
  BY DEF IInv, TypeOK
<1>2. a \in Accounts /\ b \in Accounts
  BY <1>1, FirstFacts
<1>3. a = FirstToLock(job[k]) /\ b = FirstToLock(job[j])
  BY <1>2 DEF IInv, LocksAreHeldInOrder
<1>4. Rank[a] <= Rank[b] /\ Rank[b] <= Rank[a]
  BY <1>1, <1>3, FirstFacts
<1>5. Rank[a] \in Nat /\ Rank[b] \in Nat
  BY <1>2, TransferAssumption
<1>6. a = b
  BY <1>2, <1>4, <1>5, TransferAssumption
<1> QED
  BY <1>6

\* order_by("id") keeps confirmations from waiting for each other's locks,
\* whoever pays whom.
THEOREM NobodyWaitsInACircle == Spec => []NoCircularWait
<1> QED
  BY LocksMakeNoCircle, Inductive, PTL

\* Two confirmations from their re-checks on have no account in common: what
\* each reads of its accounts stays until it commits.
MoversAreApart ==
    \A j, k \in Workers : pc[j] \in Locked /\ pc[k] \in Locked /\ j # k =>
        AccountsOf(job[j]) \cap AccountsOf(job[k]) = {}

LEMMA LocksKeepApart == IInv => MoversAreApart
<1> SUFFICES ASSUME IInv, NEW j \in Workers, NEW k \in Workers,
                    pc[j] \in Locked, pc[k] \in Locked, j # k,
                    NEW a \in AccountsOf(job[j]), a \in AccountsOf(job[k])
             PROVE  FALSE
  BY DEF MoversAreApart
<1>1. accountLock[a] = j /\ accountLock[a] = k
  BY DEF IInv, LocksAreHeldInOrder
<1> QED
  BY <1>1

\* The row locks keep two confirmations that draw on one account out of each
\* other's re-check and commit.
THEOREM MovesAreExclusive == Spec => []MoversAreApart
<1> QED
  BY LocksKeepApart, Inductive, PTL

\* Only the commit of a confirmation writes to the ledger.
LEMMA OnlyMovesWrite ==
    ASSUME [Next]_vars, ledger' # ledger
    PROVE  \E k \in Workers : ConfirmMoves(k)
<1>1. Next
  BY DEF vars, accountVars
<1>2. CASE \E k \in Workers : WorkerStep(k) \/ Crash(k)
  BY <1>2 DEF WorkerStep, CodeIsSaved, CodeIsMailed, CodeIsTakenBack, InitiateDiscards,
     ConfirmVerifies, ConfirmLocks, ConfirmLocksMore, ConfirmRechecks, ConfirmRefuses,
     Crash, accountVars
<1>3. CASE \E k \in Workers, t \in Transfers :
              InitiateCreates(k, t) \/ ResendBegin(k, t) \/ ConfirmBegin(k, t)
  BY <1>3 DEF InitiateCreates, ResendBegin, ConfirmBegin, accountVars
<1>4. CASE \E t \in Transfers : IntentExpires(t) \/ CodeExpires(t)
  BY <1>4 DEF IntentExpires, CodeExpires, accountVars
<1>5. CASE \E a \in Accounts : OtherRequest(a)
  BY <1>5 DEF OtherRequest, AccountRequest, FreezeAccount, UnfreezeAccount, GateChanges
<1> QED
  BY <1>1, <1>2, <1>3, <1>4, <1>5 DEF Next

-----------------------------------------------------------------------------
(* What a re-check saw holds until the commit                              *)

\* The inductive strengthening: nobody else reaches the rows in between.
RechecksHold == \A k \in Workers : pc[k] = "move" => MayMove(job[k])

\* A step that begins or ends no re-check leaves who is past it where it was.
LEMMA MoversStay ==
    ASSUME IInv, [Next]_vars, NEW j \in Workers, pc'[j] = "move"
    PROVE  /\ job'[j] = job[j] /\ job[j] \in Transfers
           /\ pc[j] \in Locked
           /\ pc[j] # "move" => MayMove(job[j]) /\ UNCHANGED accountVars
           /\ \A k \in Workers : ConfirmMoves(k) => k # j
<1> USE DEF IInv, TypeOK, Locked
<1>1. CASE \E k \in Workers : ConfirmRechecks(k)
  BY <1>1 DEF ConfirmRechecks, ConfirmMoves, Goto, Respond
<1>2. CASE ~ \E k \in Workers : ConfirmRechecks(k)
  <2>1. pc[j] = "move" /\ job'[j] = job[j]
    <3>1. CASE \E k \in Workers : WorkerStep(k) \/ Crash(k)
      BY <1>2, <3>1 DEF WorkerStep, CodeIsSaved, CodeIsMailed, CodeIsTakenBack,
         InitiateDiscards, ConfirmVerifies, ConfirmLocks, ConfirmLocksMore, ConfirmRefuses,
         ConfirmMoves, Crash, Goto, Respond
    <3>2. CASE \E k \in Workers, t \in Transfers :
                  InitiateCreates(k, t) \/ ResendBegin(k, t) \/ ConfirmBegin(k, t)
      BY <3>2 DEF InitiateCreates, ResendBegin, ConfirmBegin, Goto
    <3>3. CASE \E t \in Transfers : IntentExpires(t) \/ CodeExpires(t)
      BY <3>3 DEF IntentExpires, CodeExpires
    <3>4. CASE \E a \in Accounts : OtherRequest(a)
      BY <3>4 DEF OtherRequest
    <3>5. CASE UNCHANGED vars
      BY <3>5 DEF vars
    <3> QED
      BY <3>1, <3>2, <3>3, <3>4, <3>5 DEF Next
  <2> QED
    BY <2>1 DEF ConfirmMoves, Respond
<1> QED
  BY <1>1, <1>2

\* The locked rows of the accounts: a freeze waits.
LEMMA LockedStayActive ==
    ASSUME IInv, [Next]_vars, NEW a \in Accounts, accountLock[a] # NoOne,
           accountStatus[a] = "active"
    PROVE  accountStatus'[a] = "active"
<1>1. CASE \E k \in Workers : WorkerStep(k) \/ Crash(k)
  BY <1>1 DEF WorkerStep, CodeIsSaved, CodeIsMailed, CodeIsTakenBack, InitiateDiscards,
     ConfirmVerifies, ConfirmLocks, ConfirmLocksMore, ConfirmRechecks, ConfirmRefuses,
     ConfirmMoves, Crash, accountVars
<1>2. CASE \E k \in Workers, t \in Transfers :
              InitiateCreates(k, t) \/ ResendBegin(k, t) \/ ConfirmBegin(k, t)
  BY <1>2 DEF InitiateCreates, ResendBegin, ConfirmBegin, accountVars
<1>3. CASE \E t \in Transfers : IntentExpires(t) \/ CodeExpires(t)
  BY <1>3 DEF IntentExpires, CodeExpires, accountVars
<1>4. CASE \E b \in Accounts : OtherRequest(b)
  BY <1>4 DEF OtherRequest, AccountRequest, FreezeAccount, UnfreezeAccount, GateChanges,
     Unlocked, IInv, TypeOK, AccountTypeOK
<1>5. CASE UNCHANGED vars
  BY <1>5 DEF vars, accountVars
<1> QED
  BY <1>1, <1>2, <1>3, <1>4, <1>5 DEF Next

\* The rows of a transfer count for its own accounts only.
LEMMA LegsElsewhere ==
    ASSUME NEW t \in Transfers, NEW n, NEW rows, NEW a \in Accounts, a \notin AccountsOf(t)
    PROVE  BalanceCents(rows \cup Legs(t, n), a) = BalanceCents(rows, a)
<1>1. \A e \in Legs(t, n) : e.account \in AccountsOf(t)
  BY TransferAssumption, NoOneAssumption DEF Legs, Entry, AccountsOf
<1>2. {e \in rows \cup Legs(t, n) : e.account = a /\ e.status = "posted"}
         = {e \in rows : e.account = a /\ e.status = "posted"}
  BY <1>1
<1> QED
  BY <1>2 DEF BalanceCents, SumOfStatus

LEMMA RechecksNext == IInv /\ RechecksHold /\ [Next]_vars => RechecksHold'
<1> SUFFICES ASSUME IInv, RechecksHold, [Next]_vars, NEW j \in Workers, pc'[j] = "move"
             PROVE  MayMove(job[j])'
  BY DEF RechecksHold
<1>1. PICK t \in Transfers : t = job[j] /\ job'[j] = t
  BY MoversStay
<1>2. /\ pc[j] \in Locked
      /\ MayMove(t)
      /\ FromOf[t] \in AccountsOf(t) /\ AccountsOf(t) \subseteq Accounts
  BY <1>1, MoversStay, FirstFacts, TransferAssumption, NoOneAssumption
     DEF RechecksHold, AccountsOf
<1>3. \A a \in AccountsOf(t) : accountStatus'[a] = "active"
  <2> TAKE a \in AccountsOf(t)
  <2>1. accountLock[a] = j /\ j # NoOne
    BY <1>1, <1>2, NoOneAssumption DEF IInv, LocksAreHeldInOrder
  <2> QED
    BY <1>2, <2>1, LockedStayActive DEF MayMove, AllActive
<1>4. BalanceCents(ledger', FromOf[t]) = BalanceCents(ledger, FromOf[t])
  <2>1. CASE ledger' # ledger
    <3>1. PICK k \in Workers : ConfirmMoves(k)
      BY <2>1, OnlyMovesWrite
    <3>2. PICK u \in Transfers : u = job[k]
      BY <3>1 DEF ConfirmMoves, IInv, TypeOK
    <3>3. FromOf[t] \notin AccountsOf(u)
      BY <1>1, <1>2, <3>1, <3>2, MoversStay, LocksKeepApart
         DEF MoversAreApart, ConfirmMoves, Locked
    <3>4. ledger' = ledger \cup Legs(u, executed[u])
      BY <3>1, <3>2 DEF ConfirmMoves
    <3> QED
      BY <1>2, <3>3, <3>4, LegsElsewhere
  <2> QED
    BY <2>1
<1> QED
  BY <1>1, <1>2, <1>3, <1>4 DEF MayMove, AllActive, AccountsOf, Covered

\* What a confirmation saw when it looked again is true when it commits: both
\* accounts are active and the money is there.
THEOREM RechecksStay == Spec => []RechecksHold
<1>1. Init => RechecksHold
  BY DEF Init, RechecksHold
<1> QED
  BY <1>1, RechecksNext, Inductive, PTL DEF Spec

LEMMA MovesAreOfActive ==
    ASSUME IInv, RechecksHold, Next, NEW e \in ledger' \ ledger
    PROVE  accountStatus[e.account] = "active"
<1>1. PICK k \in Workers : ConfirmMoves(k)
  BY OnlyMovesWrite
<1>2. PICK t \in Transfers : t = job[k]
  BY <1>1 DEF ConfirmMoves, IInv, TypeOK
<1>3. AllActive(t) /\ e \in Legs(t, executed[t])
  BY <1>1, <1>2 DEF ConfirmMoves, MayMove, RechecksHold
<1>4. e.account \in AccountsOf(t)
  BY <1>3, TransferAssumption, NoOneAssumption DEF Legs, Entry, AccountsOf
<1> QED
  BY <1>3, <1>4 DEF AllActive

\* A freeze holds off every confirmation that has not looked at its accounts
\* yet, and waits for the others.
THEOREM FrozenAccountsStay == Spec => OnlyActiveAccountsMove
<1>1. IInv /\ RechecksHold /\ [Next]_vars
         => [\A e \in ledger' \ ledger : accountStatus[e.account] = "active"]_vars
  BY MovesAreOfActive
<1> QED
  BY <1>1, Inductive, RechecksStay, PTL DEF Spec, OnlyActiveAccountsMove

-----------------------------------------------------------------------------
(* What was posted is never overspent                                      *)

\* The rows of a transfer leave a covered account at nothing or more, also
\* where they were written before.
LEMMA LegsAreCovered ==
    ASSUME NEW t \in Transfers, NEW n, NEW rows, NEW a \in Accounts,
           Countable(rows, a),
           BalanceCents(rows, a) >= 0,
           a = FromOf[t] => BalanceCents(rows, a) >= AmountOf[t]
    PROVE  /\ Countable(rows \cup Legs(t, n), a)
           /\ BalanceCents(rows \cup Legs(t, n), a) >= 0
<1> DEFINE debit  == Entry(<<t, n>>, FromOf[t], -AmountOf[t], "posted")
           credit == Entry(<<t, n>>, ToOf[t], AmountOf[t], "posted")
<1>1. AmountOf[t] \in Nat
  BY TransferAssumption
<1>2. /\ debit.amount = -AmountOf[t] /\ debit.account = FromOf[t]
      /\ credit.amount = AmountOf[t]
  BY DEF Entry
<1>3. \/ rows \cup Legs(t, n) = rows \cup {debit}
      \/ rows \cup Legs(t, n) = (rows \cup {debit}) \cup {credit}
  BY DEF Legs
<1> HIDE DEF debit, credit
<1>4. LET less == rows \cup {debit} IN
      /\ Countable(less, a) /\ BalanceCents(less, a) >= 0
      /\ Countable(less \cup {credit}, a) /\ BalanceCents(less \cup {credit}, a) >= 0
  BY <1>1, <1>2, PairIsCovered
<1> QED
  BY <1>3, <1>4

\* The inductive strengthening: a balance is a sum at all.
BooksAreCovered ==
    \A a \in Accounts : Countable(ledger, a) /\ BalanceCents(ledger, a) >= 0

\* What the re-check covered is still there when the rows are written.
LEMMA CoveredNext == IInv /\ RechecksHold /\ BooksAreCovered /\ [Next]_vars => BooksAreCovered'
<1> SUFFICES ASSUME IInv, RechecksHold, BooksAreCovered, [Next]_vars, ledger' # ledger
             PROVE  BooksAreCovered'
  BY DEF BooksAreCovered
<1>1. PICK k \in Workers : ConfirmMoves(k)
  BY OnlyMovesWrite
<1>2. PICK t \in Transfers : t = job[k]
  BY <1>1 DEF ConfirmMoves, IInv, TypeOK
<1>3. Covered(t) /\ ledger' = ledger \cup Legs(t, executed[t])
  BY <1>1, <1>2 DEF ConfirmMoves, MayMove, RechecksHold
<1> SUFFICES ASSUME NEW a \in Accounts
             PROVE  /\ Countable(ledger \cup Legs(t, executed[t]), a)
                    /\ BalanceCents(ledger \cup Legs(t, executed[t]), a) >= 0
  BY <1>3 DEF BooksAreCovered
<1> QED
  BY <1>3, LegsAreCovered DEF BooksAreCovered, Covered

\* Transfers never overspend: no interleaving of confirmations, on however
\* many accounts, takes a balance below zero.
THEOREM BalancesStay == Spec => []NoNegativeBalance
<1>1. Init => BooksAreCovered
  <2> SUFFICES ASSUME Init, NEW a \in Accounts
               PROVE  Countable(ledger, a) /\ BalanceCents(ledger, a) >= 0
    BY DEF BooksAreCovered
  <2>1. ledger = OpeningLedger /\ OpeningBalance[a] \in Nat
    BY OpeningAssumption DEF Init, AccountInit
  <2> QED
    BY <2>1, OpeningSums
<1>2. IInv /\ RechecksHold /\ BooksAreCovered /\ [Next]_vars => BooksAreCovered'
  BY CoveredNext
<1>3. BooksAreCovered => NoNegativeBalance
  BY DEF BooksAreCovered, NoNegativeBalance
<1> QED
  BY <1>1, <1>2, <1>3, Inductive, RechecksStay, PTL DEF Spec
=============================================================================
