---------------------------- MODULE AccountTable ----------------------------
(***************************************************************************)
(* What every money-moving handler shares: the account rows and their      *)
(* PostgreSQL row locks, the ledger, and the owner's can_transact gate.    *)
(*                                                                         *)
(* Workers are the server's request workers (gunicorn): each serves one    *)
(* HTTP request at a time.  ATOMIC_REQUESTS is off, so every ORM statement *)
(* outside transaction.atomic() commits by itself and is a step of its     *)
(* own; inside transaction.atomic() the reads are steps, and the writes    *)
(* become visible together in the step that commits.                       *)
(***************************************************************************)
EXTENDS Ledger

CONSTANTS Accounts,        \* account rows
          OpeningBalance,  \* posted cents an account starts with
          Workers,         \* request workers
          NoOne            \* NULL

ASSUME OpeningAssumption == OpeningBalance \in [Accounts -> Nat]
ASSUME NoOneAssumption   == NoOne \notin Accounts \cup Workers

VARIABLES accountStatus,   \* Account.status (CLOSED is never assigned)
          accountLock,     \* the worker that holds SELECT ... FOR UPDATE on the row
          ledger,          \* the LedgerEntry rows
          canTransact      \* User.can_transact of the account's owner

accountVars == <<accountStatus, accountLock, ledger, canTransact>>

\* The opening credit of an account carries the account itself as its id.
OpeningLedger == {Entry(a, a, OpeningBalance[a], "posted") : a \in Accounts}

AccountInit ==
    /\ accountStatus = [a \in Accounts |-> "active"]
    /\ accountLock   = [a \in Accounts |-> NoOne]
    /\ ledger        = OpeningLedger
    /\ canTransact   = [a \in Accounts |-> TRUE]

Unlocked(a) == accountLock[a] = NoOne

\* A query without select_for_update().
LocksNothing(k, a) == UNCHANGED accountLock

LockAccount(k, a) ==
    /\ Unlocked(a)
    /\ accountLock' = [accountLock EXCEPT ![a] = k]

\* Commit, rollback and the death of the connection all release the row locks.
ReleaseAccountLocks(k) ==
    accountLock' = [a \in Accounts |->
                        IF accountLock[a] = k THEN NoOne ELSE accountLock[a]]

\* AdminAccountFreezeView: the save writes status only, and as an UPDATE of
\* the row it waits for a SELECT ... FOR UPDATE to be released.
FreezeAccount(a) ==
    /\ Unlocked(a)
    /\ accountStatus' = [accountStatus EXCEPT ![a] = "frozen"]
    /\ UNCHANGED <<accountLock, ledger, canTransact>>

UnfreezeAccount(a) ==
    /\ Unlocked(a)
    /\ accountStatus' = [accountStatus EXCEPT ![a] = "active"]
    /\ UNCHANGED <<accountLock, ledger, canTransact>>

\* can_transact is derived from email_verified, kyc_status and is_frozen of
\* the owner; blocking or unblocking the user and a KYC decision flip it.
GateChanges(a) ==
    /\ canTransact' = [canTransact EXCEPT ![a] = ~canTransact[a]]
    /\ UNCHANGED <<accountStatus, accountLock, ledger>>

AccountRequest(a) == FreezeAccount(a) \/ UnfreezeAccount(a) \/ GateChanges(a)

AccountTypeOK ==
    /\ accountStatus \in [Accounts -> {"active", "frozen"}]
    /\ accountLock \in [Accounts -> Workers \cup {NoOne}]
    /\ canTransact \in [Accounts -> BOOLEAN]
=============================================================================
