----------------------------- MODULE Transfers -----------------------------
(***************************************************************************)
(* Transfers: TransferInitiateView, TransferConfirmView and                *)
(* TransferResendOtpView with the one-time codes of django_otp's           *)
(* EmailDevice, run by concurrent request workers.                         *)
(*                                                                         *)
(* Initiating stores an intent (PendingTransfer) and mails a code; only a  *)
(* confirmation with the code moves money.  A pc label names the statement *)
(* a worker executes next:                                                 *)
(*    code, mail        resend: save a new code; send it                   *)
(*    code_new, mail_new, discard                                          *)
(*                      initiate: the same; delete the intent (mail failed)*)
(*    verify            confirm: the code matched; save it as used         *)
(*    lock, lock_more   confirm: lock the accounts, one after the other    *)
(*    recheck, move     confirm: look at them again; move the money        *)
(*                                                                         *)
(* Of a code only its stage counts: device[t] is the worker that saved it  *)
(* while its mail is on the way, then "mailed", and "none" when it is used *)
(* or expired.  A confirmation with a wrong code is left out: it counts the *)
(* failure, with a save of the whole row as it was read.                   *)
(***************************************************************************)
EXTENDS AccountTable

CONSTANTS Transfers,     \* transfers, by the id of their intent
          FromOf, ToOf,  \* the accounts; NoOne is a bank abroad
          AmountOf,      \* the amount in cents
          Rank,          \* the order of accounts by id
          WorkersCrash   \* whether a worker may die within a request

ASSUME TransferAssumption ==
    /\ FromOf \in [Transfers -> Accounts]
    /\ ToOf \in [Transfers -> Accounts \cup {NoOne}]
    /\ \A t \in Transfers : FromOf[t] # ToOf[t]
    /\ AmountOf \in [Transfers -> Nat \ {0}]
    /\ Rank \in [Accounts -> Nat]
    /\ \A a, b \in Accounts : Rank[a] = Rank[b] => a = b
    /\ NoOne \notin Transfers
    /\ {"none", "mailed"} \cap Workers = {}
    /\ WorkersCrash \in BOOLEAN

VARIABLES intent,    \* the PendingTransfer row; "live" once the customer has its id
          device,    \* the code of its EmailDevice
          executed,  \* how many Transfer rows the intent has become
          pc, job    \* a worker's next statement and the intent it is about

vars == <<accountVars, intent, device, executed, pc, job>>

Labels == {"idle", "code", "mail", "code_new", "mail_new", "discard",
           "verify", "lock", "lock_more", "recheck", "move"}

Init ==
    /\ AccountInit
    /\ intent   = [t \in Transfers |-> "none"]
    /\ device   = [t \in Transfers |-> "none"]
    /\ executed = [t \in Transfers |-> 0]
    /\ pc  = [k \in Workers |-> "idle"]
    /\ job = [k \in Workers |-> NoOne]

Goto(k, label) == pc' = [pc EXCEPT ![k] = label]

Respond(k) ==
    /\ pc'  = [pc EXCEPT ![k] = "idle"]
    /\ job' = [job EXCEPT ![k] = NoOne]

SetCode(t, stage) == device' = [device EXCEPT ![t] = stage]

-----------------------------------------------------------------------------
(* What both views check                                                   *)

\* The accounts of a transfer; a transfer abroad has one.
AccountsOf(t) == {FromOf[t], ToOf[t]} \ {NoOne}

\* The sender's account only: what a transfer abroad needs.
FromActive(t) == accountStatus[FromOf[t]] = "active"
AllActive(t) == \A a \in AccountsOf(t) : accountStatus[a] = "active"

\* balance_cents(): the posted rows.
CoversAnything(t) == TRUE
Covered(t) == BalanceCents(ledger, FromOf[t]) >= AmountOf[t]

-----------------------------------------------------------------------------
(* TransferInitiateView                                                    *)

\* The gate, the pre-checks and the row.  The pre-checks are statements of
\* their own; what they saw is looked at again by the confirmation.
InitiateCreates(k, t) ==
    /\ pc[k] = "idle"
    /\ intent[t] = "none"
    /\ canTransact[FromOf[t]]
    /\ AllActive(t)
    /\ Covered(t)
    /\ intent' = [intent EXCEPT ![t] = "saved"]
    /\ Goto(k, "code_new")
    /\ job' = [job EXCEPT ![k] = t]
    /\ UNCHANGED <<accountVars, device, executed>>

\* send_email_otp_challenge: generate_challenge commits the code first ...
CodeIsSaved(k) ==
    /\ \/ pc[k] = "code_new" /\ Goto(k, "mail_new")
       \/ pc[k] = "code" /\ Goto(k, "mail")
    /\ SetCode(job[k], k)
    /\ UNCHANGED <<accountVars, intent, executed, job>>

\* ... and then mails it.  A code saved meanwhile by another resend has taken
\* its place, a confirmation may have cleared it.  The response to initiate
\* tells the customer the intent's id.
CodeIsMailed(k) ==
    /\ pc[k] \in {"mail", "mail_new"}
    /\ IF device[job[k]] = k THEN SetCode(job[k], "mailed") ELSE UNCHANGED device
    /\ intent' = IF pc[k] = "mail_new" THEN [intent EXCEPT ![job[k]] = "live"] ELSE intent
    /\ Respond(k)
    /\ UNCHANGED <<accountVars, executed>>

\* The mail fails: the code is taken back, with a save of the whole row.
CodeIsTakenBack(k) ==
    /\ \/ pc[k] = "mail_new" /\ Goto(k, "discard") /\ UNCHANGED job
       \/ pc[k] = "mail" /\ Respond(k)
    /\ SetCode(job[k], "none")
    /\ UNCHANGED <<accountVars, intent, executed>>

InitiateDiscards(k) ==
    /\ pc[k] = "discard"
    /\ intent' = [intent EXCEPT ![job[k]] = "deleted"]
    /\ Respond(k)
    /\ UNCHANGED <<accountVars, device, executed>>

\* TransferResendOtpView.  The cooldown of 60 s, within which the request
\* changes nothing, may be over at any time.
ResendBegin(k, t) ==
    /\ pc[k] = "idle"
    /\ intent[t] = "live"
    /\ Goto(k, "code")
    /\ job' = [job EXCEPT ![k] = t]
    /\ UNCHANGED <<accountVars, intent, device, executed>>

-----------------------------------------------------------------------------
(* TransferConfirmView                                                     *)

\* The intent is found, younger than 15 minutes, and the code in the device's
\* row as it was read is the one the customer typed.
ConfirmBegin(k, t) ==
    /\ pc[k] = "idle"
    /\ intent[t] = "live"
    /\ device[t] = "mailed"
    /\ Goto(k, "verify")
    /\ job' = [job EXCEPT ![k] = t]
    /\ UNCHANGED <<accountVars, intent, device, executed>>

\* verify_token saves the row it read, without the code: whatever code the
\* row has by now is gone.
ConfirmVerifies(k) ==
    /\ pc[k] = "verify"
    /\ SetCode(job[k], "none")
    /\ Goto(k, "lock")
    /\ UNCHANGED <<accountVars, intent, executed, job>>

\* select_for_update().order_by("id") locks the rows in the order of ids.
FirstIsFrom(t) == FromOf[t]
FirstToLock(t) == CHOOSE a \in AccountsOf(t) : \A b \in AccountsOf(t) : Rank[a] <= Rank[b]

ConfirmLocks(k) ==
    /\ pc[k] = "lock"
    /\ LockAccount(k, FirstToLock(job[k]))
    /\ Goto(k, IF AccountsOf(job[k]) = {FirstToLock(job[k])} THEN "recheck" ELSE "lock_more")
    /\ UNCHANGED <<accountStatus, ledger, canTransact, intent, device, executed, job>>

ConfirmLocksMore(k) ==
    /\ pc[k] = "lock_more"
    /\ \E a \in AccountsOf(job[k]) \ {FirstToLock(job[k])} : LockAccount(k, a)
    /\ Goto(k, "recheck")
    /\ UNCHANGED <<accountStatus, ledger, canTransact, intent, device, executed, job>>

\* The re-check: the statuses of the locked rows, and a query of the balance.
MayMove(t) == AllActive(t) /\ Covered(t)

ConfirmRechecks(k) ==
    /\ pc[k] = "recheck"
    /\ MayMove(job[k])
    /\ Goto(k, "move")
    /\ UNCHANGED <<accountVars, intent, device, executed, job>>

ConfirmRefuses(k) ==
    /\ pc[k] = "recheck"
    /\ ~MayMove(job[k])
    /\ ReleaseAccountLocks(k)
    /\ Respond(k)
    /\ UNCHANGED <<accountStatus, ledger, canTransact, intent, device, executed>>

\* The ledger rows of the n-th Transfer made from an intent.
Legs(t, n) ==
    {Entry(<<t, n>>, FromOf[t], -AmountOf[t], "posted")} \cup
    {Entry(<<t, n>>, a, AmountOf[t], "posted") : a \in {ToOf[t]} \ {NoOne}}

NullsIntent(t) == intent' = [intent EXCEPT ![t] = NoOne]
KeepsIntent(t) == UNCHANGED intent
DeletesIntent(t) == intent' = [intent EXCEPT ![t] = "deleted"]

\* The commit, of the rows and of pending.delete(): the balance may have become
\* another one since it was read.
ConfirmMoves(k) ==
    LET t == job[k] IN
    /\ pc[k] = "move"
    /\ ledger' = ledger \cup Legs(t, executed[t])
    /\ executed' = [executed EXCEPT ![t] = @ + 1]
    /\ DeletesIntent(t)
    /\ ReleaseAccountLocks(k)
    /\ Respond(k)
    /\ UNCHANGED <<accountStatus, canTransact, device>>

-----------------------------------------------------------------------------
\* 15 minutes after the intent, 10 minutes after a code.
IntentExpires(t) ==
    /\ intent[t] = "live"
    /\ intent' = [intent EXCEPT ![t] = "expired"]
    /\ UNCHANGED <<accountVars, device, executed, pc, job>>

CodeExpires(t) ==
    /\ device[t] = "mailed"
    /\ SetCode(t, "none")
    /\ UNCHANGED <<accountVars, intent, executed, pc, job>>

\* The freeze, unfreeze, block and KYC requests of AccountTable.
OtherRequest(a) ==
    /\ \E k \in Workers : pc[k] = "idle"
    /\ AccountRequest(a)
    /\ UNCHANGED <<intent, device, executed, pc, job>>

Crash(k) ==
    /\ WorkersCrash
    /\ pc[k] # "idle"
    /\ ReleaseAccountLocks(k)
    /\ Respond(k)
    /\ UNCHANGED <<accountStatus, ledger, canTransact, intent, device, executed>>

WorkerStep(k) ==
    \/ CodeIsSaved(k) \/ CodeIsMailed(k) \/ CodeIsTakenBack(k) \/ InitiateDiscards(k)
    \/ ConfirmVerifies(k) \/ ConfirmLocks(k) \/ ConfirmLocksMore(k)
    \/ ConfirmRechecks(k) \/ ConfirmRefuses(k) \/ ConfirmMoves(k)

Next ==
    \/ \E k \in Workers : WorkerStep(k) \/ Crash(k)
    \/ \E k \in Workers, t \in Transfers :
          InitiateCreates(k, t) \/ ResendBegin(k, t) \/ ConfirmBegin(k, t)
    \/ \E t \in Transfers : IntentExpires(t) \/ CodeExpires(t)
    \/ \E a \in Accounts : OtherRequest(a)

Spec == Init /\ [][Next]_vars

\* A worker goes on with its request, and PostgreSQL grants a row lock to those
\* who wait for it in turn: it cannot be passed over again and again.
Fairness == \A k \in Workers : SF_vars(WorkerStep(k))

FairSpec == Spec /\ Fairness

-----------------------------------------------------------------------------
(* Properties                                                              *)

\* Every variable keeps its type, and a worker within a request has a job.
TypeOK ==
    /\ AccountTypeOK
    /\ ledger \subseteq EntriesOf(Accounts \cup (Transfers \X Nat), Accounts)
    /\ intent \in [Transfers -> {"none", "saved", "live", "expired", "deleted"}]
    /\ device \in [Transfers -> {"none", "mailed"} \cup Workers]
    /\ executed \in [Transfers -> Nat]
    /\ pc \in [Workers -> Labels]
    /\ job \in [Workers -> Transfers \cup {NoOne}]
    /\ \A k \in Workers : pc[k] # "idle" => job[k] \in Transfers

\* Concurrent transfers from one account, confirmed in any order, never spend
\* more than was posted to it.
NoNegativeBalance == \A a \in Accounts : BalanceCents(ledger, a) >= 0

\* Two confirmations that share accounts never wait for each other's locks.
NoCircularWait ==
    ~ \E j, k \in Workers :
        /\ j # k /\ pc[j] = "lock_more" /\ pc[k] = "lock_more"
        /\ \E a \in AccountsOf(job[j]) : accountLock[a] = k
        /\ \E a \in AccountsOf(job[k]) : accountLock[a] = j

\* Money leaves or enters an account only while the account is active: a
\* freeze takes effect for confirmations that have already begun.
OnlyActiveAccountsMove ==
    [][\A e \in ledger' \ ledger : accountStatus[e.account] = "active"]_vars

\* An intent that moved money is gone: no later request finds it.
ExecutedIsGone == \A t \in Transfers : executed[t] > 0 => intent[t] = "deleted"

\* A confirmation whose code was accepted comes to an end, also when it shares
\* accounts with others, and when it is killed.
ConfirmEnds == \A k \in Workers : pc[k] = "lock" ~> pc[k] = "idle"

\* "This code ... can only be used once": an intent moves its money once.
ExecutedAtMostOnce == \A t \in Transfers : executed[t] <= 1

\* "Central gate every money-movement view should check": no money leaves an
\* account while its owner may not transact.
GateHeld ==
    [][\A t \in Transfers : executed'[t] > executed[t] => canTransact[FromOf[t]]]_vars
=============================================================================
