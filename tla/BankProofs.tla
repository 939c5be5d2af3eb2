------------------------------ MODULE BankProofs ------------------------------
(***************************************************************************)
(* Proofs about Bank, for every set of accounts, requests, transfers and   *)
(* payouts and all amounts, with lost replies: types, the invariant of     *)
(* withdrawals and the cover of transfers with any number of workers; the  *)
(* conservation of money where no two of them deal with one withdrawal     *)
(* (Serial).                                                               *)
(*                                                                         *)
(* The argument: a step of withdrawals is a step of Withdrawals, so all    *)
(* that was proved of those steps holds here; a step of transfers leaves   *)
(* the state of withdrawals alone, and of the ledger all rows that are     *)
(* theirs.  What is left is to say which rows the two add, and what that   *)
(* does to the sums.                                                       *)
(***************************************************************************)
EXTENDS Bank, WithdrawalsProofs

-----------------------------------------------------------------------------
(* The steps                                                               *)

TransferTypes ==
    /\ intent \in [Transfers -> {"none", "saved", "live", "expired", "deleted"}]
    /\ device \in [Transfers -> {"none", "mailed"} \cup Workers]
    /\ executed \in [Transfers -> Nat]
    /\ tpc \in [Workers -> T!Labels]
    /\ tjob \in [Workers -> Transfers \cup {NoOne}]
    /\ \A k \in Workers : tpc[k] # "idle" => tjob[k] \in Transfers

OneRequest == \A k \in Workers : pc[k] = "idle" \/ tpc[k] = "idle"

\* A step that is not one of transfers is one of Withdrawals, or none.
LEMMA StepsOfWithdrawals ==
    ASSUME WithdrawalStep \/ AccountStep \/ UNCHANGED bankVars
    PROVE  [Next]_vars /\ UNCHANGED transferVars
<1> USE DEF bankVars, withdrawalVars, vars
<1>1. CASE WithdrawalStep
  BY <1>1 DEF WithdrawalStep, Next
<1>2. CASE AccountStep
  BY <1>2 DEF AccountStep, Idle, Next, OtherRequest
<1>3. CASE UNCHANGED bankVars
  BY <1>3
<1> QED
  BY <1>1, <1>2, <1>3

\* They begin a request only where the worker is idle.
LEMMA WithdrawalsServeOne ==
    ASSUME IInv, OneRequest, WithdrawalStep \/ AccountStep \/ UNCHANGED bankVars
    PROVE  OneRequest'
<1> USE DEF bankVars, withdrawalVars, vars, workerVars, transferVars, OneRequest
<1>1. CASE WithdrawalStep
  <2>1. ASSUME NEW k \in Workers, WorkerStep(k)
        PROVE  pc[k] # "idle" /\ \A j \in Workers : j # k => pc'[j] = pc[j]
    BY <2>1 DEF IInv, VariablesOK, WorkerStep, CreateLocksAccount, CreateFindsInactive,
       CreateFindsTooLittle, CreateHolds, PayoutStarts, PayoutRefused, PayoutReplyLost,
       KeepPayout, MarkFailed, ReleaseHold, ApproveSaves, RejectCommits, RejectRollsBack,
       WebhookSettles, Goto, Respond
  <2>2. ASSUME NEW k \in Workers, Crash(k)
        PROVE  pc[k] # "idle" /\ \A j \in Workers : j # k => pc'[j] = pc[j]
    BY <2>2 DEF IInv, VariablesOK, Crash, Respond
  <2>3. ASSUME NEW k \in Workers, Idle(k),
               \/ \E w \in Withdrawals : CreateBegin(k, w) \/ ApproveBegin(k, w) \/ RejectBegin(k, w)
               \/ \E p \in Payouts : Webhook(k, p)
        PROVE  tpc[k] = "idle" /\ \A j \in Workers : j # k => pc'[j] = pc[j]
    BY <2>3 DEF IInv, VariablesOK, Idle, CreateBegin, ApproveBegin, RejectBegin, ReviewBegin,
       Webhook, WebhookFinds, WebhookFindsNothing, Goto
  <2>4. ASSUME NEW p \in Payouts, PayoutSettles(p)
        PROVE  UNCHANGED pc
    BY <2>4 DEF PayoutSettles
  <2> QED
    BY <1>1, <2>1, <2>2, <2>3, <2>4 DEF WithdrawalStep
<1>2. CASE AccountStep
  BY <1>2 DEF AccountStep
<1>3. CASE UNCHANGED bankVars
  BY <1>3
<1> QED
  BY <1>1, <1>2, <1>3

\* A step of transfers keeps its types.
LEMMA TransfersKeepTypes ==
    ASSUME TransferTypes, AccountTypeOK, OneRequest, TransferStep
    PROVE  TransferTypes' /\ AccountTypeOK' /\ OneRequest'
<1> USE DEF TransferTypes, AccountTypeOK, OneRequest, withdrawalVars, workerVars,
            T!Labels, T!Goto, T!Respond, T!SetCode, T!accountVars
<1>0. UNCHANGED pc
  BY DEF TransferStep
<1>1. ASSUME NEW k \in Workers, T!CodeIsSaved(k) \/ T!CodeIsMailed(k) \/ T!CodeIsTakenBack(k)
      PROVE  TransferTypes' /\ AccountTypeOK' /\ OneRequest'
  BY <1>0, <1>1 DEF T!CodeIsSaved, T!CodeIsMailed, T!CodeIsTakenBack
<1>2. ASSUME NEW k \in Workers,
             \/ T!InitiateDiscards(k) \/ T!ConfirmVerifies(k) \/ T!ConfirmRechecks(k)
             \/ T!ConfirmRefuses(k) \/ T!Crash(k)
      PROVE  TransferTypes' /\ AccountTypeOK' /\ OneRequest'
  BY <1>0, <1>2 DEF T!InitiateDiscards, T!ConfirmVerifies, T!ConfirmRechecks,
     T!ConfirmRefuses, T!Crash, T!ReleaseAccountLocks
<1>3. ASSUME NEW k \in Workers, T!ConfirmLocks(k) \/ T!ConfirmLocksMore(k)
      PROVE  TransferTypes' /\ AccountTypeOK' /\ OneRequest'
  BY <1>0, <1>3 DEF T!ConfirmLocks, T!ConfirmLocksMore, T!LockAccount
<1>4. ASSUME NEW k \in Workers, T!ConfirmMoves(k)
      PROVE  TransferTypes' /\ AccountTypeOK' /\ OneRequest'
  BY <1>0, <1>4 DEF T!ConfirmMoves, T!DeletesIntent, T!ReleaseAccountLocks
<1>5. ASSUME NEW k \in Workers, NEW t \in Transfers, Idle(k),
             T!InitiateCreates(k, t) \/ T!ResendBegin(k, t) \/ T!ConfirmBegin(k, t)
      PROVE  TransferTypes' /\ AccountTypeOK' /\ OneRequest'
  BY <1>0, <1>5 DEF Idle, T!InitiateCreates, T!ResendBegin, T!ConfirmBegin
<1>6. ASSUME NEW t \in Transfers, T!IntentExpires(t) \/ T!CodeExpires(t)
      PROVE  TransferTypes' /\ AccountTypeOK' /\ OneRequest'
  BY <1>0, <1>6 DEF T!IntentExpires, T!CodeExpires
<1> HIDE DEF TransferTypes, AccountTypeOK, OneRequest
<1> QED
  BY <1>1, <1>2, <1>3, <1>4, <1>5, <1>6 DEF TransferStep, T!WorkerStep

-----------------------------------------------------------------------------
(* The rows of transfers                                                   *)

Debit(t, n)  == Entry(<<t, n>>, FromOf[t], -TransferAmount[t], "posted")
Credit(t, n) == Entry(<<t, n>>, ToOf[t], TransferAmount[t], "posted")

\* The operators of the instance are those of the ledger.
LEMMA TransfersReadTheLedger ==
    ASSUME NEW rows, NEW a
    PROVE  T!BalanceCents(rows, a) = BalanceCents(rows, a)
BY DEF T!BalanceCents, T!SumOfStatus, T!MapThenSumSet, T!MapThenFoldSet,
       BalanceCents, SumOfStatus, MapThenSumSet, MapThenFoldSet

LEMMA TwoLegs ==
    ASSUME NEW t \in Transfers, NEW n
    PROVE  T!Legs(t, n) = IF ToOf[t] = NoOne THEN {Debit(t, n)} ELSE {Debit(t, n), Credit(t, n)}
BY DEF T!Legs, T!Entry, Entry, Debit, Credit

\* The order of ids has a least account among the one or two of a transfer.
LEMMA FirstFacts ==
    ASSUME NEW t \in Transfers
    PROVE  /\ T!AccountsOf(t) \subseteq Accounts /\ FromOf[t] \in T!AccountsOf(t)
           /\ T!FirstToLock(t) \in T!AccountsOf(t)
           /\ \A a, b \in T!AccountsOf(t) \ {T!FirstToLock(t)} : a = b
<1>1. /\ T!AccountsOf(t) \subseteq {FromOf[t], ToOf[t]}
      /\ FromOf[t] \in T!AccountsOf(t)
      /\ T!AccountsOf(t) \subseteq Accounts
  BY BankAssumption, NoOneAssumption DEF T!AccountsOf
<1>2. \A a \in Accounts : Rank[a] \in Nat
  BY BankAssumption
<1>3. \E a \in T!AccountsOf(t) : \A b \in T!AccountsOf(t) : Rank[a] <= Rank[b]
  <2>1. CASE ToOf[t] \in T!AccountsOf(t) /\ Rank[ToOf[t]] <= Rank[FromOf[t]]
    BY <1>1, <1>2, <2>1
  <2>2. CASE ToOf[t] \notin T!AccountsOf(t) \/ Rank[FromOf[t]] <= Rank[ToOf[t]]
    BY <1>1, <1>2, <2>2
  <2> QED
    BY <1>1, <1>2, <2>1, <2>2
<1>4. T!FirstToLock(t) \in T!AccountsOf(t)
  BY <1>3 DEF T!FirstToLock
<1> QED
  BY <1>1, <1>4

\* The moment that money moves: a confirmation writes the legs, and is done.
MoneyMoves(t) ==
    /\ \E k \in Workers : tpc[k] = "move" /\ tjob[k] = t /\ tpc'[k] = "idle"
    /\ ledger' = ledger \cup T!Legs(t, executed[t])
    /\ executed' = [executed EXCEPT ![t] = @ + 1]

\* No other step of transfers writes to the ledger.
LEMMA OnlyMovesWrite ==
    ASSUME TransferTypes, TransferStep
    PROVE  UNCHANGED <<ledger, executed>> \/ \E t \in Transfers : MoneyMoves(t)
<1> USE DEF T!accountVars
<1>1. ASSUME NEW k \in Workers,
             \/ T!CodeIsSaved(k) \/ T!CodeIsMailed(k) \/ T!CodeIsTakenBack(k)
             \/ T!InitiateDiscards(k) \/ T!ConfirmVerifies(k) \/ T!ConfirmLocks(k)
             \/ T!ConfirmLocksMore(k) \/ T!ConfirmRechecks(k) \/ T!ConfirmRefuses(k)
             \/ T!Crash(k)
      PROVE  UNCHANGED <<ledger, executed>>
  BY <1>1 DEF T!CodeIsSaved, T!CodeIsMailed, T!CodeIsTakenBack, T!InitiateDiscards,
     T!ConfirmVerifies, T!ConfirmLocks, T!ConfirmLocksMore, T!ConfirmRechecks,
     T!ConfirmRefuses, T!Crash
<1>2. ASSUME NEW k \in Workers, NEW t \in Transfers,
             T!InitiateCreates(k, t) \/ T!ResendBegin(k, t) \/ T!ConfirmBegin(k, t)
      PROVE  UNCHANGED <<ledger, executed>>
  BY <1>2 DEF T!InitiateCreates, T!ResendBegin, T!ConfirmBegin
<1>3. ASSUME NEW t \in Transfers, T!IntentExpires(t) \/ T!CodeExpires(t)
      PROVE  UNCHANGED <<ledger, executed>>
  BY <1>3 DEF T!IntentExpires, T!CodeExpires
<1>4. ASSUME NEW k \in Workers, T!ConfirmMoves(k)
      PROVE  \E t \in Transfers : MoneyMoves(t)
  <2>1. PICK t \in Transfers : t = tjob[k]
    BY <1>4 DEF T!ConfirmMoves, TransferTypes
  <2>2. tpc[k] = "move" /\ tpc'[k] = "idle"
    BY <1>4 DEF T!ConfirmMoves, T!Respond, TransferTypes
  <2>3. MoneyMoves(t)
    BY <1>4, <2>1, <2>2 DEF T!ConfirmMoves, MoneyMoves
  <2> QED
    BY <2>3
<1> QED
  BY <1>1, <1>2, <1>3, <1>4 DEF TransferStep, T!WorkerStep

\* Its legs are typed rows, and nobody else's.
LEMMA LegsAreOurs ==
    ASSUME NEW t \in Transfers, NEW n \in Nat, NEW e \in T!Legs(t, n)
    PROVE  /\ e.id = <<t, n>> /\ e.id \in Transfers \X Nat
           /\ e.id \notin Accounts \cup Withdrawals
           /\ e \in EntriesOf({e.id}, Accounts)
<1>1. e = Debit(t, n) \/ (e = Credit(t, n) /\ ToOf[t] # NoOne)
  BY TwoLegs
<1>2. <<t, n>> \notin Accounts \cup Withdrawals
  BY BankAssumption
<1>3. FromOf[t] \in Accounts /\ (ToOf[t] # NoOne => ToOf[t] \in Accounts) /\ TransferAmount[t] \in Int
  BY BankAssumption
<1>4. CASE e = Debit(t, n)
  BY <1>2, <1>3, <1>4 DEF Debit, Entry, EntriesOf, EntryStatus
<1>5. CASE e = Credit(t, n) /\ ToOf[t] # NoOne
  BY <1>2, <1>3, <1>5 DEF Credit, Entry, EntriesOf, EntryStatus
<1> QED
  BY <1>1, <1>4, <1>5

\* To withdrawals the ledger is as before.
LEMMA WithdrawalsSeeNoLegs ==
    ASSUME TransferTypes, TransferStep, RowsOK(ledger)
    PROVE  /\ RowsOK(ledger')
           /\ \A w \in Withdrawals : \A s : HasEntry(ledger', w, s) <=> HasEntry(ledger, w, s)
<1>1. CASE UNCHANGED ledger
  BY <1>1 DEF HasEntry, RowsOK
<1>2. ASSUME NEW t \in Transfers, MoneyMoves(t)
      PROVE  /\ RowsOK(ledger')
             /\ \A w \in Withdrawals : \A s : HasEntry(ledger', w, s) <=> HasEntry(ledger, w, s)
  <2>1. ledger' = ledger \cup T!Legs(t, executed[t]) /\ executed[t] \in Nat
    BY <1>2 DEF MoneyMoves, TransferTypes
  <2>2. \A e \in T!Legs(t, executed[t]) : e.id \notin Withdrawals /\ e \in EntriesOf({e.id}, Accounts)
    BY <2>1, LegsAreOurs
  <2> QED
    BY <2>1, <2>2 DEF RowsOK, HasEntry
<1> QED
  BY <1>1, <1>2, OnlyMovesWrite

-----------------------------------------------------------------------------
(* The inductive invariant                                                 *)

\* Every row has an owner, and a transfer's rows are of its executions so far.
RowsHaveOwners ==
    \A e \in ledger : /\ e.id \in Accounts \cup Withdrawals \cup (Transfers \X Nat)
                      /\ \A t \in Transfers, n \in Nat : e.id = <<t, n>> => n < executed[t]

\* A confirmation holds the locks of its accounts from its re-check to its
\* commit, beside withdrawals that lock the same rows.
LocksAreHeld ==
    \A k \in Workers :
        /\ tpc[k] = "lock_more" => accountLock[T!FirstToLock(tjob[k])] = k
        /\ tpc[k] \in {"recheck", "move"} =>
              \A a \in T!AccountsOf(tjob[k]) : accountLock[a] = k

\* What a re-check saw is there for the commit, but for what withdrawals took:
\* a webhook posts a debit without a lock of the account.
CoveredByOthers(t) == BalanceCents(OthersRows(ledger), FromOf[t]) >= TransferAmount[t]

RechecksHold == \A k \in Workers : tpc[k] = "move" => CoveredByOthers(tjob[k])

BankIInv ==
    /\ IInv
    /\ SumsOK
    /\ TransferTypes
    /\ OneRequest
    /\ LocksAreHeld
    /\ RechecksHold
    /\ RowsHaveOwners
    /\ TransfersAreCovered

\* Withdrawals keep their invariant beside transfers.
LEMMA TransfersKeepWithdrawals ==
    ASSUME IInv, TransferTypes, OneRequest, TransferStep
    PROVE  IInv'
<1>1. UNCHANGED withdrawalVars
  BY DEF TransferStep
<1>2. AccountTypeOK'
  BY TransfersKeepTypes DEF IInv, VariablesOK
<1>3. /\ RowsOK(ledger')
      /\ \A w \in Withdrawals : \A s : HasEntry(ledger', w, s) <=> HasEntry(ledger, w, s)
  BY WithdrawalsSeeNoLegs DEF IInv, VariablesOK
<1> USE DEF IInv, withdrawalVars, requestVars, stripeVars, workerVars
<1>4. VariablesOK'
  BY <1>1, <1>2, <1>3 DEF VariablesOK
<1>5. CreatorsAreAlone' /\ HandlersFollowDecisions' /\ PayoutsAreOfDecided'
  BY <1>1 DEF CreatorsAreAlone, HandlersFollowDecisions, PayoutsAreOfDecided, Decided
<1>6. ReviewedIfDecided'
  BY <1>1 DEF ReviewedIfDecided, Decided
<1>7. PendingHasHold' /\ PostedMeansPaid'
  BY <1>1, <1>3 DEF PendingHasHold, PostedMeansPaid
<1> QED
  BY <1>4, <1>5, <1>6, <1>7

\* Withdrawals write rows of their own only.
LEMMA WithdrawalsWriteTheirs ==
    ASSUME IInv, [Next]_vars
    PROVE  /\ OthersRows(ledger') = OthersRows(ledger)
           /\ \A e \in ledger' : e.id \in Withdrawals \/ e \in ledger
<1>1. ASSUME NEW w \in Withdrawals, ledger' = ledger \cup {HoldEntry(w)}
      PROVE  /\ OthersRows(ledger') = OthersRows(ledger)
             /\ \A e \in ledger' : e.id \in Withdrawals \/ e \in ledger
  <2>1. HoldEntry(w).id = w
    BY DEF HoldEntry, Entry
  <2> QED
    BY <1>1, <2>1 DEF OthersRows
<1>2. ASSUME NEW w \in Withdrawals, NEW from, NEW to, ledger' = SetStatus(ledger, w, from, to)
      PROVE  /\ OthersRows(ledger') = OthersRows(ledger)
             /\ \A e \in ledger' : e.id \in Withdrawals \/ e \in ledger
  <2> DEFINE upd(e) == IF e.id = w /\ e.status \in from THEN [e EXCEPT !.status = to] ELSE e
  <2>1. ledger' = {upd(e) : e \in ledger}
    BY <1>2 DEF SetStatus
  <2>2. \A e \in ledger : upd(e).id = e.id /\ (e.id # w => upd(e) = e)
    BY DEF IInv, VariablesOK, RowsOK, EntriesOf
  <2> HIDE DEF upd
  <2> QED
    BY <2>1, <2>2 DEF OthersRows
<1>3. CASE UNCHANGED ledger
  BY <1>3 DEF OthersRows
<1> QED
  BY <1>1, <1>2, <1>3, LedgerWrites

\* Withdrawals take locks that are free, and give back those of their workers.
LEMMA WithdrawalsKeepLocks ==
    ASSUME IInv, OneRequest, WithdrawalStep \/ AccountStep \/ UNCHANGED bankVars,
           NEW j \in Workers, tpc[j] # "idle", NEW a \in Accounts, accountLock[a] = j
    PROVE  accountLock'[a] = j
<1> USE DEF accountVars
<1>1. j # NoOne /\ pc[j] = "idle"
  BY NoOneAssumption DEF OneRequest
<1>2. accountLock \in [Accounts -> Workers \cup {NoOne}]
  BY DEF IInv, VariablesOK, AccountTypeOK
<1>3. CASE WithdrawalStep
  <2>1. ASSUME NEW k \in Workers, CreateFindsTooLittle(k) \/ CreateHolds(k) \/ Crash(k)
        PROVE  accountLock'[a] = j
    BY <1>1, <2>1 DEF CreateFindsTooLittle, CreateHolds, Crash, ReleaseAccountLocks
  <2>2. ASSUME NEW k \in Workers, CreateLocksAccount(k)
        PROVE  accountLock'[a] = j
    BY <1>1, <1>2, <2>2 DEF CreateLocksAccount, LockAccount, Unlocked
  <2>3. ASSUME NEW k \in Workers,
               \/ CreateFindsInactive(k) \/ PayoutStarts(k) \/ PayoutRefused(k)
               \/ PayoutReplyLost(k) \/ KeepPayout(k) \/ MarkFailed(k) \/ ReleaseHold(k)
               \/ ApproveSaves(k) \/ RejectCommits(k) \/ RejectRollsBack(k)
               \/ WebhookSettles(k)
        PROVE  UNCHANGED accountLock
    BY <2>3 DEF CreateFindsInactive, PayoutStarts, PayoutRefused, PayoutReplyLost, KeepPayout,
       MarkFailed, ReleaseHold, ApproveSaves, RejectCommits, RejectRollsBack, WebhookSettles
  <2>4. ASSUME NEW k \in Workers,
               \/ \E w \in Withdrawals : CreateBegin(k, w) \/ ApproveBegin(k, w) \/ RejectBegin(k, w)
               \/ \E p \in Payouts : Webhook(k, p) \/ PayoutSettles(p)
        PROVE  UNCHANGED accountLock
    BY <2>4 DEF CreateBegin, ApproveBegin, RejectBegin, ReviewBegin, Webhook, WebhookFinds,
       WebhookFindsNothing, PayoutSettles
  <2>5. ASSUME NEW p \in Payouts, PayoutSettles(p)
        PROVE  UNCHANGED accountLock
    BY <2>5 DEF PayoutSettles
  <2> QED
    BY <1>3, <2>1, <2>2, <2>3, <2>4, <2>5 DEF WithdrawalStep, WorkerStep
<1>4. CASE AccountStep
  BY <1>4 DEF AccountStep, AccountRequest, FreezeAccount, UnfreezeAccount, GateChanges
<1>5. CASE UNCHANGED bankVars
  BY <1>5 DEF bankVars
<1> QED
  BY <1>3, <1>4, <1>5

LEMMA WithdrawalsKeepBank ==
    ASSUME BankIInv, WithdrawalStep \/ AccountStep \/ UNCHANGED bankVars
    PROVE  BankIInv'
<1>1. [Next]_vars /\ UNCHANGED transferVars
  BY StepsOfWithdrawals
<1>2. IInv' /\ SumsOK'
  BY <1>1, NextInvariant, SumsNext DEF BankIInv
<1>3. TransferTypes'
  BY <1>1 DEF BankIInv, TransferTypes, transferVars, T!Labels
<1>4. OneRequest'
  BY WithdrawalsServeOne DEF BankIInv
<1>5. /\ OthersRows(ledger') = OthersRows(ledger)
      /\ \A e \in ledger' : e.id \in Withdrawals \/ e \in ledger
  BY <1>1, WithdrawalsWriteTheirs DEF BankIInv
<1>6. RowsHaveOwners'
  <2>1. \A t \in Transfers, n \in Nat : <<t, n>> \notin Withdrawals
    BY BankAssumption
  <2> QED
    BY <1>1, <1>5, <2>1 DEF BankIInv, RowsHaveOwners, transferVars
<1>7. TransfersAreCovered' /\ RechecksHold'
  BY <1>1, <1>5 DEF BankIInv, TransfersAreCovered, RechecksHold, CoveredByOthers, transferVars
<1>8. LocksAreHeld'
  <2> SUFFICES ASSUME NEW k \in Workers
               PROVE  /\ tpc[k] = "lock_more" => accountLock'[T!FirstToLock(tjob[k])] = k
                      /\ tpc[k] \in {"recheck", "move"} =>
                            \A a \in T!AccountsOf(tjob[k]) : accountLock'[a] = k
    BY <1>1 DEF LocksAreHeld, transferVars, T!FirstToLock, T!AccountsOf
  <2>1. tpc[k] # "idle" => T!FirstToLock(tjob[k]) \in Accounts /\ T!AccountsOf(tjob[k]) \subseteq Accounts
    BY FirstFacts DEF BankIInv, TransferTypes
  <2> QED
    BY <2>1, WithdrawalsKeepLocks DEF BankIInv, LocksAreHeld
<1> QED
  BY <1>2, <1>3, <1>4, <1>6, <1>7, <1>8 DEF BankIInv

\* Without the rows of withdrawals an account has no less than with them.
LEMMA OthersHaveMore ==
    ASSUME RowsOK(ledger), NEW a \in Accounts, Countable(ledger, a)
    PROVE  /\ Countable(OthersRows(ledger), a)
           /\ BalanceCents(ledger, a) <= BalanceCents(OthersRows(ledger), a)
<1>1. OthersRows(ledger) \in SUBSET ledger
  BY DEF OthersRows
<1>2. Countable(OthersRows(ledger), a)
  <2> DEFINE book == {e \in OthersRows(ledger) : e.account = a}
  <2>1. book \in SUBSET {e \in ledger : e.account = a}
    BY <1>1
  <2>2. IsFiniteSet(book)
    BY <2>1, FS_Subset DEF Countable
  <2> QED
    BY <1>1, <2>2 DEF Countable
<1>3. ASSUME NEW e \in ledger \ OthersRows(ledger)
      PROVE  e.amount <= 0
  <2>1. e.id \in Withdrawals /\ e = Entry(e.id, AccountOf[e.id], -AmountOf[e.id], e.status)
    BY <1>3 DEF OthersRows, RowsOK
  <2>2. AmountOf[e.id] \in Nat /\ e.amount = -AmountOf[e.id]
    BY <2>1, RequestAssumption DEF Entry
  <2> QED
    BY <2>2
<1>4. SumOfStatus(ledger, a, "posted") <= SumOfStatus(OthersRows(ledger), a, "posted")
  BY <1>1, <1>3, DebitsAreLeftOut
<1> QED
  BY <1>2, <1>4 DEF BalanceCents

\* Rows that are written can be summed up with the others.
LEMMA LegsAreCountable ==
    ASSUME NEW t \in Transfers, NEW n, NEW rows, NEW a, Countable(rows, a)
    PROVE  Countable(rows \cup T!Legs(t, n), a)
<1>1. TransferAmount[t] \in Int /\ -TransferAmount[t] \in Int
  BY BankAssumption
<1>2. Debit(t, n).amount \in Int /\ Credit(t, n).amount \in Int
  BY <1>1 DEF Debit, Credit, Entry
<1> DEFINE less == rows \cup {Debit(t, n)}
           both == less \cup {Credit(t, n)}
<1>3. Countable(less, a)
  BY <1>2, RowIsWritten
<1> HIDE DEF less
<1>4. Countable(both, a)
  BY <1>2, <1>3, RowIsWritten
<1>5. rows \cup T!Legs(t, n) = less \/ rows \cup T!Legs(t, n) = both
  BY TwoLegs DEF less
<1> HIDE DEF both
<1> QED
  BY <1>3, <1>4, <1>5

\* A transfer that its re-check covered leaves the sender, without the
\* withdrawals, at nothing or more.
LEMMA LegsAreCovered ==
    ASSUME BankIInv, NEW t \in Transfers, MoneyMoves(t)
    PROVE  TransfersAreCovered'
<1> SUFFICES ASSUME NEW a \in Accounts
             PROVE  BalanceCents(OthersRows(ledger'), a) >= 0
  BY DEF TransfersAreCovered
<1> DEFINE n == executed[t]
           rows == OthersRows(ledger)
           d == Debit(t, n)
           c == Credit(t, n)
<1>1. n \in Nat /\ TransferAmount[t] \in Nat /\ AccountOf \in [Withdrawals -> Accounts]
  BY BankAssumption, RequestAssumption DEF BankIInv, TransferTypes
<1>2. \A e \in T!Legs(t, n) : e.id \notin Withdrawals
  BY <1>1, LegsAreOurs
<1>3. OthersRows(ledger') = rows \cup T!Legs(t, n)
  BY <1>2 DEF MoneyMoves, OthersRows
<1>4. Countable(rows, a) /\ BalanceCents(rows, a) >= 0
  BY OthersHaveMore DEF BankIInv, SumsOK, IInv, VariablesOK, TransfersAreCovered
<1>5. /\ d.amount = -TransferAmount[t] /\ d.account = FromOf[t]
      /\ c.amount = TransferAmount[t]
  BY DEF Debit, Credit, Entry
<1>6. a = FromOf[t] => BalanceCents(rows, a) >= TransferAmount[t]
  BY DEF MoneyMoves, BankIInv, RechecksHold, CoveredByOthers
<1>7. rows \cup T!Legs(t, n) = rows \cup {d} \/ rows \cup T!Legs(t, n) = (rows \cup {d}) \cup {c}
  BY TwoLegs
<1> HIDE DEF n, rows, d, c
<1>8. LET less == rows \cup {d} IN
      BalanceCents(less, a) >= 0 /\ BalanceCents(less \cup {c}, a) >= 0
  BY <1>1, <1>4, <1>5, <1>6, PairIsCovered
<1> QED
  BY <1>3, <1>7, <1>8

\* Where a worker is that is about to look at its accounts again, or has.
LEMMA ConfirmationsGoOn ==
    ASSUME TransferTypes, AccountTypeOK, TransferStep,
           NEW j \in Workers, tpc'[j] \in {"lock_more", "recheck", "move"}
    PROVE  \/ /\ tpc[j] = tpc'[j] /\ tjob[j] = tjob'[j]
              /\ \A a \in Accounts : accountLock[a] = j => accountLock'[a] = j
           \/ /\ tpc[j] = "recheck" /\ tpc'[j] = "move" /\ T!MayMove(tjob[j])
              /\ UNCHANGED <<tjob, accountLock, ledger>>
           \/ T!ConfirmLocks(j) \/ T!ConfirmLocksMore(j)
<1> USE DEF TransferTypes, AccountTypeOK, T!accountVars, T!Goto, T!Respond
<1>1. ASSUME NEW k \in Workers,
             \/ T!CodeIsSaved(k) \/ T!CodeIsMailed(k) \/ T!CodeIsTakenBack(k)
             \/ T!InitiateDiscards(k) \/ T!ConfirmVerifies(k)
      PROVE  /\ tpc[j] = tpc'[j] /\ tjob[j] = tjob'[j]
             /\ UNCHANGED accountLock
  BY <1>1 DEF T!CodeIsSaved, T!CodeIsMailed, T!CodeIsTakenBack, T!InitiateDiscards,
     T!ConfirmVerifies
<1>2. ASSUME NEW k \in Workers, k # j, T!ConfirmLocks(k) \/ T!ConfirmLocksMore(k)
      PROVE  /\ tpc[j] = tpc'[j] /\ tjob[j] = tjob'[j]
             /\ \A a \in Accounts : accountLock[a] = j => accountLock'[a] = j
  BY <1>2, NoOneAssumption DEF T!ConfirmLocks, T!ConfirmLocksMore, T!LockAccount, T!Unlocked
<1>3. ASSUME NEW k \in Workers, T!ConfirmRechecks(k)
      PROVE  \/ /\ tpc[j] = tpc'[j] /\ tjob[j] = tjob'[j]
                /\ UNCHANGED accountLock
             \/ /\ tpc[j] = "recheck" /\ tpc'[j] = "move" /\ T!MayMove(tjob[j])
                /\ UNCHANGED <<tjob, accountLock, ledger>>
  BY <1>3 DEF T!ConfirmRechecks
<1>4. ASSUME NEW k \in Workers, T!ConfirmRefuses(k) \/ T!ConfirmMoves(k) \/ T!Crash(k)
      PROVE  /\ tpc[j] = tpc'[j] /\ tjob[j] = tjob'[j]
             /\ \A a \in Accounts : accountLock[a] = j => accountLock'[a] = j
  BY <1>4, NoOneAssumption DEF T!ConfirmRefuses, T!ConfirmMoves, T!Crash, T!ReleaseAccountLocks
<1>5. ASSUME NEW k \in Workers, NEW t \in Transfers,
             T!InitiateCreates(k, t) \/ T!ResendBegin(k, t) \/ T!ConfirmBegin(k, t)
      PROVE  /\ tpc[j] = tpc'[j] /\ tjob[j] = tjob'[j]
             /\ UNCHANGED accountLock
  BY <1>5 DEF T!InitiateCreates, T!ResendBegin, T!ConfirmBegin
<1>6. ASSUME NEW t \in Transfers, T!IntentExpires(t) \/ T!CodeExpires(t)
      PROVE  UNCHANGED <<tpc, tjob, accountLock>>
  BY <1>6 DEF T!IntentExpires, T!CodeExpires
<1> QED
  BY <1>1, <1>2, <1>3, <1>4, <1>5, <1>6 DEF TransferStep, T!WorkerStep

LEMMA TransfersKeepLocks ==
    ASSUME BankIInv, TransferStep, TransferTypes'
    PROVE  LocksAreHeld'
<1> SUFFICES ASSUME NEW j \in Workers, tpc'[j] \in {"lock_more", "recheck", "move"}
             PROVE  /\ tpc'[j] = "lock_more" => accountLock'[T!FirstToLock(tjob'[j])] = j
                    /\ tpc'[j] \in {"recheck", "move"} =>
                          \A a \in T!AccountsOf(tjob'[j]) : accountLock'[a] = j
  BY DEF LocksAreHeld, T!FirstToLock, T!AccountsOf
<1>1. PICK t \in Transfers : t = tjob'[j]
  BY DEF TransferTypes
<1>2. PICK f \in Accounts : /\ f = T!FirstToLock(t) /\ f \in T!AccountsOf(t)
                            /\ \A a, b \in T!AccountsOf(t) \ {f} : a = b
  BY FirstFacts
<1>3. T!AccountsOf(t) \subseteq Accounts
  BY FirstFacts
<1> USE DEF BankIInv, LocksAreHeld
<1>4. CASE /\ tpc[j] = tpc'[j] /\ tjob[j] = tjob'[j]
           /\ \A a \in Accounts : accountLock[a] = j => accountLock'[a] = j
  BY <1>1, <1>2, <1>3, <1>4
<1>5. CASE /\ tpc[j] = "recheck" /\ tpc'[j] = "move"
           /\ UNCHANGED <<tjob, accountLock, ledger>>
  BY <1>5
<1>6. accountLock \in [Accounts -> Workers \cup {NoOne}] /\ tpc \in [Workers -> T!Labels]
  BY DEF IInv, VariablesOK, AccountTypeOK, TransferTypes
<1>7. CASE T!ConfirmLocks(j)
  <2>1. /\ tjob[j] = t /\ accountLock' = [accountLock EXCEPT ![f] = j]
        /\ tpc'[j] = IF T!AccountsOf(t) = {f} THEN "recheck" ELSE "lock_more"
    BY <1>1, <1>2, <1>6, <1>7 DEF T!ConfirmLocks, T!LockAccount, T!Goto
  <2> QED
    BY <1>1, <1>2, <1>6, <2>1
<1>8. CASE T!ConfirmLocksMore(j)
  <2>1. /\ tjob[j] = t /\ tpc[j] = "lock_more" /\ tpc'[j] = "recheck"
        /\ \E b \in T!AccountsOf(t) \ {f} : accountLock' = [accountLock EXCEPT ![b] = j]
    BY <1>1, <1>2, <1>6, <1>8 DEF T!ConfirmLocksMore, T!LockAccount, T!Goto
  <2>2. accountLock[f] = j
    BY <1>2, <2>1
  <2> QED
    BY <1>1, <1>2, <1>3, <1>6, <2>1, <2>2
<1>9. AccountTypeOK /\ TransferTypes
  BY DEF IInv, VariablesOK
<1> QED
  BY <1>4, <1>5, <1>7, <1>8, <1>9, ConfirmationsGoOn

\* The legs of one transfer say nothing of an account that another locked.
LEMMA TransfersKeepRechecks ==
    ASSUME BankIInv, TransferStep, TransferTypes'
    PROVE  RechecksHold'
<1> SUFFICES ASSUME NEW j \in Workers, tpc'[j] = "move"
             PROVE  BalanceCents(OthersRows(ledger'), FromOf[tjob'[j]]) >= TransferAmount[tjob'[j]]
  BY DEF RechecksHold, CoveredByOthers
<1>1. PICK t \in Transfers : t = tjob'[j]
  BY DEF TransferTypes
<1>2. AccountTypeOK /\ TransferTypes /\ RowsOK(ledger)
  BY DEF BankIInv, IInv, VariablesOK
<1>3. FromOf[t] \in T!AccountsOf(t) /\ FromOf[t] \in Accounts /\ TransferAmount[t] \in Int
  BY FirstFacts, BankAssumption
<1>4. CASE tpc[j] = "move" /\ tjob[j] = t
  <2>1. CoveredByOthers(t)
    BY <1>4 DEF BankIInv, RechecksHold
  <2>2. CASE UNCHANGED ledger
    BY <1>1, <2>1, <2>2 DEF CoveredByOthers
  <2>3. ASSUME NEW u \in Transfers, MoneyMoves(u)
        PROVE  BalanceCents(OthersRows(ledger'), FromOf[t]) >= TransferAmount[t]
    <3>1. PICK k \in Workers : tpc[k] = "move" /\ tjob[k] = u /\ tpc'[k] = "idle"
      BY <2>3 DEF MoneyMoves
    <3>2. FromOf[t] \notin T!AccountsOf(u)
      BY <1>3, <1>4, <3>1 DEF BankIInv, LocksAreHeld
    <3>3. /\ ledger' = ledger \cup T!Legs(u, executed[u]) /\ executed[u] \in Nat
      BY <2>3 DEF MoneyMoves, BankIInv, TransferTypes
    <3>4. \A e \in T!Legs(u, executed[u]) : e.account \in T!AccountsOf(u)
      BY TwoLegs, BankAssumption, NoOneAssumption DEF Debit, Credit, Entry, T!AccountsOf
    <3>5. {e \in OthersRows(ledger') : e.account = FromOf[t] /\ e.status = "posted"}
             = {e \in OthersRows(ledger) : e.account = FromOf[t] /\ e.status = "posted"}
      BY <3>2, <3>3, <3>4 DEF OthersRows
    <3>6. BalanceCents(OthersRows(ledger'), FromOf[t]) = BalanceCents(OthersRows(ledger), FromOf[t])
      BY <3>5 DEF BalanceCents, SumOfStatus
    <3> QED
      BY <2>1, <3>6 DEF CoveredByOthers
  <2> QED
    BY <1>1, <1>2, <2>2, <2>3, OnlyMovesWrite
<1>5. CASE UNCHANGED ledger /\ T!MayMove(t)
  <2>1. BalanceCents(ledger, FromOf[t]) >= TransferAmount[t]
    BY <1>5, TransfersReadTheLedger DEF T!MayMove, T!Covered
  <2>2. /\ Countable(ledger, FromOf[t]) /\ Countable(OthersRows(ledger), FromOf[t])
        /\ BalanceCents(ledger, FromOf[t]) <= BalanceCents(OthersRows(ledger), FromOf[t])
    BY <1>2, <1>3, OthersHaveMore DEF BankIInv, SumsOK
  <2>3. /\ BalanceCents(ledger, FromOf[t]) \in Int
        /\ BalanceCents(OthersRows(ledger), FromOf[t]) \in Int
    BY <2>2, StatusSumFacts DEF BalanceCents
  <2> QED
    BY <1>1, <1>3, <1>5, <2>1, <2>2, <2>3
<1>6. ~T!ConfirmLocks(j) /\ ~T!ConfirmLocksMore(j)
  BY <1>2 DEF T!ConfirmLocks, T!ConfirmLocksMore, T!Goto, TransferTypes
<1> QED
  BY <1>1, <1>2, <1>4, <1>5, <1>6, ConfirmationsGoOn

LEMMA TransfersKeepBank ==
    ASSUME BankIInv, TransferStep
    PROVE  BankIInv'
<1>1. IInv' /\ TransferTypes' /\ OneRequest'
  BY TransfersKeepWithdrawals, TransfersKeepTypes DEF BankIInv, IInv, VariablesOK
<1>2. UNCHANGED seen
  BY DEF TransferStep, withdrawalVars, workerVars
<1>0. LocksAreHeld' /\ RechecksHold'
  BY <1>1, TransfersKeepLocks, TransfersKeepRechecks
<1>3. CASE UNCHANGED <<ledger, executed>>
  BY <1>0, <1>1, <1>2, <1>3
     DEF BankIInv, SumsOK, RowsHaveOwners, TransfersAreCovered, OthersRows
<1>4. ASSUME NEW t \in Transfers, MoneyMoves(t)
      PROVE  BankIInv'
  <2>1. /\ ledger' = ledger \cup T!Legs(t, executed[t])
        /\ executed' = [executed EXCEPT ![t] = @ + 1]
        /\ executed \in [Transfers -> Nat]
    BY <1>4 DEF MoneyMoves, BankIInv, TransferTypes
  <2>2. SumsOK'
    BY <1>2, <2>1, LegsAreCountable DEF BankIInv, SumsOK
  <2>3. RowsHaveOwners'
    <3>1. \A e \in T!Legs(t, executed[t]) : /\ e.id = <<t, executed[t]>>
                                            /\ e.id \in Transfers \X Nat
      BY <2>1, LegsAreOurs
    <3>2. \A u \in Transfers : executed[u] \in Nat /\ executed'[u] \in Nat /\ executed[u] <= executed'[u]
      BY <2>1
    <3>3. executed[t] < executed'[t]
      BY <2>1
    <3>4. ASSUME NEW e \in ledger', NEW u \in Transfers, NEW n \in Nat, e.id = <<u, n>>
          PROVE  n < executed'[u]
      <4>1. CASE e \in ledger
        BY <3>2, <3>4, <4>1 DEF BankIInv, RowsHaveOwners
      <4>2. CASE e \in T!Legs(t, executed[t])
        BY <3>1, <3>3, <3>4, <4>2
      <4> QED
        BY <2>1, <4>1, <4>2
    <3> QED
      BY <2>1, <3>1, <3>4 DEF BankIInv, RowsHaveOwners
  <2>4. TransfersAreCovered'
    BY <1>4, LegsAreCovered
  <2> QED
    BY <1>0, <1>1, <2>2, <2>3, <2>4 DEF BankIInv
<1> QED
  BY <1>3, <1>4, OnlyMovesWrite DEF BankIInv

LEMMA BankStarts == BankInit => BankIInv
<1> SUFFICES ASSUME BankInit PROVE BankIInv
  OBVIOUS
<1>1. IInv /\ SumsOK
  BY InitInvariant, SumsInit DEF BankInit
<1>2. TransferTypes /\ OneRequest /\ LocksAreHeld /\ RechecksHold
  BY DEF BankInit, Init, T!Init, T!Labels, TransferTypes, OneRequest, LocksAreHeld, RechecksHold
<1>3. ledger = OpeningLedger
  BY DEF BankInit, Init, AccountInit
<1>4. \A e \in OpeningLedger : e.id \in Accounts
  BY DEF OpeningLedger, Entry
<1>5. RowsHaveOwners
  <2>1. \A t \in Transfers, n \in Nat : <<t, n>> \notin Accounts
    BY BankAssumption
  <2> QED
    BY <1>3, <1>4, <2>1 DEF RowsHaveOwners
<1>6. TransfersAreCovered
  <2> SUFFICES ASSUME NEW a \in Accounts
               PROVE  BalanceCents(OthersRows(ledger), a) >= 0
    BY DEF TransfersAreCovered
  <2>1. OthersRows(ledger) = OpeningLedger
    BY <1>3, <1>4, RequestAssumption DEF OthersRows
  <2> QED
    BY <2>1, OpeningSums, OpeningAssumption
<1> QED
  BY <1>1, <1>2, <1>5, <1>6 DEF BankIInv

-----------------------------------------------------------------------------
(* Theorems, for any number of workers                                     *)

\* The strengthening holds in every reachable state: of withdrawals all that
\* they guarantee alone, transfers or not.
THEOREM BankInductive == BankSpec => []BankIInv
<1>1. BankInit => BankIInv
  BY BankStarts
<1>2. BankIInv /\ [BankNext]_bankVars => BankIInv'
  BY WithdrawalsKeepBank, TransfersKeepBank DEF BankNext
<1> QED
  BY <1>1, <1>2, PTL DEF BankSpec

\* Type correctness; every row has an owner, every worker one request.
THEOREM BankTypes == BankSpec => []BankTypeOK
<1>1. BankIInv => BankTypeOK
  <2> SUFFICES ASSUME BankIInv PROVE BankTypeOK
    OBVIOUS
  <2>1. VariablesOK /\ RowsOK(ledger)
    BY DEF BankIInv, IInv, VariablesOK
  <2>2. ledger \subseteq EntriesOf(Accounts \cup Withdrawals \cup (Transfers \X Nat), Accounts)
    BY <2>1 DEF BankIInv, RowsHaveOwners, RowsOK, EntriesOf
  <2> QED
    BY <2>1, <2>2 DEF BankIInv, SumsOK, TransferTypes, OneRequest, BankTypeOK
<1> QED
  BY <1>1, BankInductive, PTL

\* Transfers do not overdraw: whatever withdrawals write between the checks of
\* a transfer and its commit, only they can take an account below zero.
THEOREM TransfersDoNotOverdraw == BankSpec => []TransfersAreCovered
<1>1. BankIInv => TransfersAreCovered
  BY DEF BankIInv
<1> QED
  BY <1>1, BankInductive, PTL

-----------------------------------------------------------------------------
(* One worker per withdrawal: its books beside transfers                   *)

\* A transfer is no step of a withdrawal: what the worker has read of one is
\* as it was.
LEMMA TransfersKeepSerial ==
    ASSUME BankIInv, SerialInv, TransferStep
    PROVE  SerialInv'
<1>1. UNCHANGED withdrawalVars
  BY DEF TransferStep
<1>2. \A w \in Withdrawals : \A s : HasEntry(ledger', w, s) <=> HasEntry(ledger, w, s)
  BY WithdrawalsSeeNoLegs DEF BankIInv, IInv, VariablesOK
<1>3. \A w \in Withdrawals : \A s : OnlyRow(w, s)' <=> OnlyRow(w, s)
  BY <1>2 DEF OnlyRow
<1> USE DEF withdrawalVars, requestVars, stripeVars, workerVars
<1>4. HandledAlone' /\ StatementsFit'
  <2>1. \A w : (Unpaid(w)' <=> Unpaid(w)) /\ (Unheard(w)' <=> Unheard(w))
    BY <1>1 DEF Unpaid, Unheard
  <2>2. \A p : EventOf(p)' <=> EventOf(p)
    BY <1>1 DEF EventOf
  <2>3. \A k \in Workers : pc[k] = "release" => job[k] \in Withdrawals
    BY DEF BankIInv, IInv, VariablesOK
  <2> QED
    BY <1>1, <1>3, <2>1, <2>2, <2>3 DEF SerialInv, HandledAlone, StatementsFit, Fits
<1>5. RowsFit'
  BY <1>1, <1>2, <1>3 DEF SerialInv, RowsFit, AutoApproved
<1>6. PayoutsFit'
  BY <1>1 DEF SerialInv, PayoutsFit, OnePayoutPerWithdrawal, Unheard
<1> QED
  BY <1>4, <1>5, <1>6 DEF SerialInv

LEMMA BankKeepsSerial ==
    Serial /\ BankIInv /\ SerialInv /\ [BankNext]_bankVars => SerialInv'
<1> SUFFICES ASSUME Serial, BankIInv, SerialInv, [BankNext]_bankVars PROVE SerialInv'
  OBVIOUS
<1>1. CASE TransferStep
  BY <1>1, TransfersKeepSerial
<1>2. CASE WithdrawalStep \/ AccountStep \/ UNCHANGED bankVars
  BY <1>2, StepsOfWithdrawals, SerialNext DEF BankIInv
<1> QED
  BY <1>1, <1>2 DEF BankNext

-----------------------------------------------------------------------------
(* One worker per withdrawal: what is posted and what went out             *)

AllCountable(rows) == \A a \in Accounts : Countable(rows, a)

\* A row more changes the total by its amount, if it is posted.
LEMMA TotalOfRow ==
    ASSUME NEW rows, AllCountable(rows), NEW row, row \notin rows,
           row.account \in Accounts, row.amount \in Int
    PROVE  /\ TotalOf(rows) \in Int
           /\ AllCountable(rows \cup {row})
           /\ TotalOf(rows \cup {row})
                 = TotalOf(rows) + (IF row.status = "posted" THEN row.amount ELSE 0)
<1> DEFINE new == rows \cup {row}
           f == [a \in Accounts |-> BalanceCents(rows, a)]
           g == [a \in Accounts |-> BalanceCents(new, a)]
           b == row.account
           cents == IF row.status = "posted" THEN row.amount ELSE 0
<1>1. ASSUME NEW a \in Accounts
      PROVE  /\ BalanceCents(rows, a) \in Int
             /\ Countable(new, a)
             /\ BalanceCents(new, a) = IF a = b THEN BalanceCents(rows, a) + cents
                                       ELSE BalanceCents(rows, a)
  <2>1. Countable(rows, a)
    BY DEF AllCountable
  <2>2. SumOfStatus(rows, a, "posted") \in Int
    BY <2>1, StatusSumFacts
  <2>3. /\ Countable(new, a)
        /\ SumOfStatus(new, a, "posted") = SumOfStatus(rows, a, "posted")
              + (IF row.account = a /\ row.status = "posted" THEN row.amount ELSE 0)
    BY <2>1, RowIsAdded
  <2> HIDE DEF new
  <2> QED
    BY <2>2, <2>3 DEF BalanceCents
<1> HIDE DEF new
<1>2. cents \in Int
  OBVIOUS
<1> HIDE DEF cents
<1>3. /\ \A a \in Accounts : f[a] \in Int /\ g[a] \in Int
      /\ \A a \in Accounts : a # b => g[a] = f[a]
      /\ g[b] = f[b] + cents
  BY <1>1, <1>2
<1>4. TotalOf(rows) = SumFunctionOnSet(f, Accounts) /\ TotalOf(new) = SumFunctionOnSet(g, Accounts)
  BY DEF TotalOf
<1>5. IsFiniteSet(Accounts)
  BY BankAssumption
<1> HIDE DEF f, g
<1>6. SumFunctionOnSet(g, Accounts) = SumFunctionOnSet(f, Accounts) - f[b] + g[b]
  BY <1>3, <1>5, SumChanges
<1>7. SumFunctionOnSet(f, Accounts) \in Int /\ f[b] \in Int
  BY <1>3, <1>5, SumRecursion
<1>8. TotalOf(new) = TotalOf(rows) + cents
  BY <1>2, <1>3, <1>4, <1>6, <1>7
<1>9. AllCountable(new)
  BY <1>1 DEF AllCountable
<1> QED
  BY <1>4, <1>7, <1>8, <1>9 DEF new, cents

LEMMA TotalIsNumber ==
    ASSUME NEW rows, AllCountable(rows)
    PROVE  TotalOf(rows) \in Int
<1> DEFINE f == [a \in Accounts |-> BalanceCents(rows, a)]
<1>1. \A a \in Accounts : f[a] \in Int
  BY StatusSumFacts DEF AllCountable, BalanceCents
<1>2. IsFiniteSet(Accounts) /\ TotalOf(rows) = SumFunctionOnSet(f, Accounts)
  BY BankAssumption DEF TotalOf
<1> HIDE DEF f
<1> QED
  BY <1>1, <1>2, SumRecursion

Succeeded == {w \in Withdrawals : status[w] = "succeeded"}

LEMMA PaidOutFacts ==
    /\ PaidOut = SumFunctionOnSet(AmountOf, Succeeded)
    /\ IsFiniteSet(Succeeded)
    /\ \A w \in Withdrawals : AmountOf[w] \in Int
    /\ PaidOut \in Int
<1>1. IsFiniteSet(Succeeded) /\ \A w \in Withdrawals : AmountOf[w] \in Int
  BY BankAssumption, RequestAssumption, FS_Subset DEF Succeeded
<1>2. \A w \in Succeeded : AmountOf[w] \in Int
  BY <1>1 DEF Succeeded
<1>3. SumFunctionOnSet(AmountOf, Succeeded) \in Int
  BY <1>1, <1>2, SumRecursion
<1> QED
  BY <1>1, <1>3 DEF PaidOut, Succeeded

\* A withdrawal has succeeded exactly when its debit is posted.
LEMMA SucceededIsPosted ==
    ASSUME IInv, SerialInv, NEW w \in Withdrawals
    PROVE  w \in Succeeded <=> HasEntry(ledger, w, "posted")
BY DEF IInv, VariablesOK, Statuses, SerialInv, RowsFit, OnlyRow, EntryStatus, Succeeded

\* What a debit takes from an account is in what was paid out.
LEMMA WithdrawalsBalance ==
    ASSUME Serial, BankIInv, SerialInv, [Next]_vars
    PROVE  TotalOf(ledger') + PaidOut' = TotalOf(ledger) + PaidOut
<1>1. IInv /\ IInv' /\ SerialInv' /\ AllCountable(ledger)
  BY NextInvariant, SerialNext DEF BankIInv, SumsOK, AllCountable
<1>2. \A w \in Withdrawals : /\ w \in Succeeded <=> HasEntry(ledger, w, "posted")
                             /\ w \in Succeeded' <=> HasEntry(ledger', w, "posted")
  <2>1. \A w \in Withdrawals : w \in Succeeded <=> HasEntry(ledger, w, "posted")
    BY <1>1, SucceededIsPosted
  <2>2. \A w \in Withdrawals : w \in Succeeded' <=> HasEntry(ledger', w, "posted")
    BY <1>1 DEF IInv, VariablesOK, Statuses, SerialInv, RowsFit, OnlyRow, EntryStatus, Succeeded
  <2> QED
    BY <2>1, <2>2
<1>3. Succeeded \subseteq Withdrawals /\ Succeeded' \subseteq Withdrawals
  BY DEF Succeeded
<1>4. TotalOf(ledger) \in Int /\ PaidOut \in Int
  BY <1>1, TotalIsNumber, PaidOutFacts
<1>5. PaidOut' = SumFunctionOnSet(AmountOf, Succeeded')
  BY DEF PaidOut, Succeeded
<1>6. CASE UNCHANGED ledger
  <2>1. Succeeded' = Succeeded
    BY <1>2, <1>3, <1>6 DEF HasEntry
  <2> QED
    BY <1>5, <1>6, <2>1, PaidOutFacts
<1>7. ASSUME NEW w \in Withdrawals
      PROVE  /\ HoldEntry(w).id = w /\ HoldEntry(w).status = "pending"
             /\ HoldEntry(w).account \in Accounts /\ HoldEntry(w).amount = -AmountOf[w]
             /\ AmountOf[w] \in Int
  BY RequestAssumption DEF HoldEntry, Entry
<1>8. ASSUME NEW w \in Withdrawals, \A t \in EntryStatus : ~HasEntry(ledger, w, t),
             RowMoves(w, "pending")
      PROVE  TotalOf(ledger') + PaidOut' = TotalOf(ledger) + PaidOut
  <2> DEFINE hold == HoldEntry(w)
  <2>1. hold \notin ledger
    BY <1>7, <1>8 DEF HasEntry, EntryStatus
  <2>2. ledger' = ledger \cup {hold}
    BY <1>8, <2>1 DEF RowMoves, HoldEntry
  <2>3. hold.account \in Accounts /\ hold.amount \in Int /\ hold.status # "posted"
    BY <1>7
  <2> HIDE DEF hold
  <2>4. TotalOf(ledger \cup {hold}) = TotalOf(ledger) + 0
    BY <1>1, <2>1, <2>3, TotalOfRow
  <2>5. Succeeded' = Succeeded
    BY <1>2, <1>3, <1>8 DEF RowMoves, EntryStatus
  <2> QED
    BY <1>4, <1>5, <2>2, <2>4, <2>5, PaidOutFacts
<1>9. ASSUME NEW w \in Withdrawals, OnlyRow(w, "pending"), NEW to \in {"posted", "failed"},
             RowMoves(w, to)
      PROVE  TotalOf(ledger') + PaidOut' = TotalOf(ledger) + PaidOut
  <2> DEFINE hold == HoldEntry(w)
             row  == Entry(w, AccountOf[w], -AmountOf[w], to)
             rest == ledger \ {hold}
             cents == IF to = "posted" THEN AmountOf[w] ELSE 0
  <2>1. hold \in ledger
    <3>1. PICK e \in ledger : e.id = w /\ e.status = "pending"
      BY <1>9 DEF OnlyRow, HasEntry, EntryStatus
    <3> QED
      BY <1>1, <3>1 DEF IInv, VariablesOK, RowsOK, HoldEntry
  <2>2. /\ hold.account \in Accounts /\ hold.amount \in Int /\ hold.status = "pending"
        /\ row.id = w /\ row.status = to /\ row.account \in Accounts
        /\ row.amount = -AmountOf[w] /\ row.amount \in Int
        /\ AmountOf[w] \in Int /\ cents \in Int
    BY <1>7, RequestAssumption DEF Entry
  <2>3. row \notin rest
    BY <1>9, <2>2 DEF OnlyRow, HasEntry, EntryStatus, HoldEntry, Entry
  <2>4. ledger' = rest \cup {row} /\ ledger = rest \cup {hold} /\ hold \notin rest
    BY <1>9, <2>1 DEF RowMoves
  <2>5. AllCountable(rest)
    BY <1>1, <2>1, RowIsRemoved DEF AllCountable
  <2> HIDE DEF hold, row, rest
  <2>6. TotalOf(rest \cup {hold}) = TotalOf(rest) + 0 /\ TotalOf(rest) \in Int
    BY <2>2, <2>4, <2>5, TotalOfRow
  <2>7. TotalOf(rest \cup {row}) = TotalOf(rest) + (IF to = "posted" THEN row.amount ELSE 0)
    BY <2>2, <2>3, <2>5, TotalOfRow
  <2>8. TotalOf(ledger') = TotalOf(ledger) - cents
    BY <2>2, <2>4, <2>6, <2>7
  <2>9. PaidOut' = PaidOut + cents
    <3>1. w \notin Succeeded
      BY <1>2, <1>9 DEF OnlyRow, EntryStatus
    <3>2. /\ w \in Succeeded' <=> to = "posted"
          /\ \A v \in Withdrawals : v # w => (v \in Succeeded' <=> v \in Succeeded)
      BY <1>2, <1>9 DEF RowMoves, EntryStatus
    <3>3. Succeeded' = IF to = "posted" THEN Succeeded \cup {w} ELSE Succeeded
      BY <1>3, <3>1, <3>2
    <3>4. SumFunctionOnSet(AmountOf, Succeeded \cup {w}) = AmountOf[w] + SumFunctionOnSet(AmountOf, Succeeded)
      <4>1. \A v \in Succeeded \cup {w} : AmountOf[v] \in Int
        BY <1>3, PaidOutFacts
      <4> QED
        BY <3>1, <4>1, PaidOutFacts, SumAdds
    <3> QED
      BY <1>4, <1>5, <2>2, <3>3, <3>4, PaidOutFacts
  <2> HIDE DEF cents
  <2> QED
    BY <1>4, <2>2, <2>8, <2>9 DEF cents
<1>10. \/ UNCHANGED ledger
       \/ \E w \in Withdrawals :
             \/ /\ \A t \in EntryStatus : ~HasEntry(ledger, w, t)
                /\ RowMoves(w, "pending")
             \/ /\ OnlyRow(w, "pending")
                /\ RowMoves(w, "posted") \/ RowMoves(w, "failed")
  BY <1>1, LedgerSteps
<1> QED
  BY <1>6, <1>8, <1>9, <1>10

Abroad == {t \in Transfers : ToOf[t] = NoOne}
Sent(counts) == [t \in Transfers |-> counts[t] * TransferAmount[t]]

LEMMA SentFacts ==
    ASSUME NEW counts \in [Transfers -> Nat]
    PROVE  /\ IsFiniteSet(Abroad) /\ Abroad \subseteq Transfers
           /\ \A t \in Transfers : Sent(counts)[t] \in Int
           /\ SumFunctionOnSet(Sent(counts), Abroad) \in Int
<1>1. IsFiniteSet(Abroad) /\ Abroad \subseteq Transfers
  BY BankAssumption, FS_Subset DEF Abroad
<1>2. ASSUME NEW t \in Transfers
      PROVE  Sent(counts)[t] \in Int
  <2>1. counts[t] \in Int /\ TransferAmount[t] \in Int
    BY BankAssumption
  <2>2. counts[t] * TransferAmount[t] \in Int
    BY <2>1
  <2> QED
    BY <2>2 DEF Sent
<1>3. SumFunctionOnSet(Sent(counts), Abroad) \in Int
  BY <1>1, <1>2, SumRecursion
<1> QED
  BY <1>1, <1>2, <1>3

\* What leaves one account arrives at the other, or was sent abroad.
LEMMA TransfersBalance ==
    ASSUME BankIInv, NEW t \in Transfers, MoneyMoves(t)
    PROVE  TotalOf(ledger') + SentAbroad' = TotalOf(ledger) + SentAbroad
<1> DEFINE n == executed[t]
           d == Debit(t, n)
           c == Credit(t, n)
           less == ledger \cup {d}
           cents == TransferAmount[t]
<1>1. /\ executed \in [Transfers -> Nat] /\ executed' \in [Transfers -> Nat]
      /\ executed'[t] = n + 1 /\ n \in Nat /\ cents \in Int
      /\ \A u \in Transfers : u # t => executed'[u] = executed[u]
  <2>1. executed \in [Transfers -> Nat] /\ executed' = [executed EXCEPT ![t] = @ + 1]
    BY DEF BankIInv, TransferTypes, MoneyMoves
  <2>2. TransferAmount[t] \in Int
    BY BankAssumption
  <2>3. executed[t] \in Nat /\ executed[t] + 1 \in Nat
    BY <2>1
  <2>4. executed' \in [Transfers -> Nat]
    BY <2>1, <2>3
  <2> QED
    BY <2>1, <2>2, <2>3, <2>4
<1>2. /\ d.id = <<t, n>> /\ d.status = "posted" /\ d.amount = -cents /\ d.account \in Accounts
      /\ c.id = <<t, n>> /\ c.status = "posted" /\ c.amount = cents
      /\ ToOf[t] # NoOne => c.account \in Accounts
      /\ d.account # c.account
  BY BankAssumption DEF Debit, Credit, Entry
<1>3. \A e \in ledger : e.id # <<t, n>>
  BY <1>1 DEF BankIInv, RowsHaveOwners
<1>4. ledger' = IF ToOf[t] = NoOne THEN less ELSE less \cup {c}
  BY TwoLegs DEF MoneyMoves
<1>5. d \notin ledger /\ c \notin less
  BY <1>2, <1>3
<1>6. AllCountable(ledger)
  BY DEF BankIInv, SumsOK, AllCountable
<1> HIDE DEF n, d, c, less, cents
<1>7. /\ TotalOf(ledger) \in Int
      /\ AllCountable(less)
      /\ TotalOf(less) = TotalOf(ledger) - cents
  <2>1. d.amount \in Int
    BY <1>1, <1>2
  <2>2. /\ TotalOf(ledger) \in Int
        /\ AllCountable(ledger \cup {d})
        /\ TotalOf(ledger \cup {d}) = TotalOf(ledger) + (IF d.status = "posted" THEN d.amount ELSE 0)
    BY <1>2, <1>5, <1>6, <2>1, TotalOfRow
  <2> QED
    BY <1>1, <1>2, <2>2 DEF less
<1> DEFINE f == Sent(executed)
           g == Sent(executed')
<1>8. /\ SentAbroad = SumFunctionOnSet(f, Abroad)
      /\ SentAbroad' = SumFunctionOnSet(g, Abroad)
      /\ SentAbroad \in Int
      /\ IsFiniteSet(Abroad) /\ Abroad \subseteq Transfers
      /\ \A u \in Transfers : f[u] \in Int /\ g[u] \in Int
  BY <1>1, SentFacts DEF SentAbroad, Sent, Abroad
<1>9. g[t] = f[t] + cents /\ \A u \in Transfers : u # t => g[u] = f[u]
  <2>1. f[t] = n * cents /\ g[t] = (n + 1) * cents
    BY <1>1 DEF Sent, n, cents
  <2>2. (n + 1) * cents = n * cents + cents
    BY <1>1
  <2> QED
    BY <1>1, <2>1, <2>2 DEF Sent
<1> HIDE DEF f, g
<1>10. CASE ToOf[t] = NoOne
  <2>1. t \in Abroad
    BY <1>10 DEF Abroad
  <2>2. SumFunctionOnSet(g, Abroad) = SumFunctionOnSet(f, Abroad) - f[t] + g[t]
    BY <1>8, <1>9, <2>1, SumChanges
  <2>3. SentAbroad' = SentAbroad + cents
    BY <1>1, <1>8, <1>9, <2>2
  <2> QED
    BY <1>1, <1>4, <1>7, <1>8, <1>10, <2>3
<1>11. CASE ToOf[t] # NoOne
  <2>1. \A u \in Abroad : f[u] \in Int /\ f[u] = g[u]
    BY <1>8, <1>9, <1>11 DEF Abroad
  <2>2. SumFunctionOnSet(f, Abroad) = SumFunctionOnSet(g, Abroad)
    BY <1>8, <2>1, SumOfSame
  <2>3. TotalOf(less \cup {c}) = TotalOf(less) + cents
    BY <1>1, <1>2, <1>5, <1>7, <1>11, TotalOfRow
  <2> QED
    BY <1>1, <1>4, <1>7, <1>8, <1>11, <2>2, <2>3
<1> QED
  BY <1>10, <1>11

\* No step makes money, and none loses it.
LEMMA MoneyIsKept ==
    Serial /\ BankIInv /\ SerialInv /\ MoneyIsConserved /\ [BankNext]_bankVars
        => MoneyIsConserved'
<1> SUFFICES ASSUME Serial, BankIInv, SerialInv, MoneyIsConserved, [BankNext]_bankVars
             PROVE  MoneyIsConserved'
  OBVIOUS
<1> DEFINE opened == SumFunctionOnSet(OpeningBalance, Accounts)
           gone == PaidOut + SentAbroad
<1>1. opened \in Int
  <2>1. IsFiniteSet(Accounts) /\ \A a \in Accounts : OpeningBalance[a] \in Int
    BY BankAssumption, OpeningAssumption
  <2> QED
    BY <2>1, SumRecursion
<1>2. /\ TotalOf(ledger) \in Int /\ PaidOut \in Int /\ SentAbroad \in Int
      /\ executed \in [Transfers -> Nat]
  BY TotalIsNumber, PaidOutFacts, SentFacts DEF BankIInv, SumsOK, AllCountable, TransferTypes,
     SentAbroad, Sent, Abroad
<1>3. TotalOf(ledger) = opened - PaidOut - SentAbroad
  BY DEF MoneyIsConserved
<1>4. MoneyIsConserved' <=> TotalOf(ledger') = opened - PaidOut' - SentAbroad'
  BY DEF MoneyIsConserved
<1>5. BankIInv'
  BY WithdrawalsKeepBank, TransfersKeepBank DEF BankNext
<1>6. TotalOf(ledger') \in Int /\ PaidOut' \in Int /\ SentAbroad' \in Int
  <2>1. TotalOf(ledger') \in Int
    BY <1>5, TotalIsNumber DEF BankIInv, SumsOK, AllCountable
  <2>2. SentAbroad' \in Int
    BY <1>5, SentFacts DEF BankIInv, TransferTypes, SentAbroad, Sent, Abroad
  <2>3. Succeeded' \in SUBSET Withdrawals /\ PaidOut' = SumFunctionOnSet(AmountOf, Succeeded')
    BY DEF Succeeded, PaidOut
  <2>4. IsFiniteSet(Succeeded') /\ \A w \in Succeeded' : AmountOf[w] \in Int
    BY <2>3, BankAssumption, PaidOutFacts, FS_Subset
  <2>5. PaidOut' \in Int
    BY <2>3, <2>4, SumRecursion
  <2> QED
    BY <2>1, <2>2, <2>5
<1> HIDE DEF opened
<1>7. CASE TransferStep
  <2>1. PaidOut' = PaidOut
    BY <1>7 DEF TransferStep, withdrawalVars, requestVars, PaidOut
  <2>2. CASE UNCHANGED <<ledger, executed>>
    <3>1. TotalOf(ledger') = TotalOf(ledger) /\ SentAbroad' = SentAbroad
      BY <2>2 DEF SentAbroad
    <3> QED
      BY <1>3, <1>4, <2>1, <3>1
  <2>3. ASSUME NEW t \in Transfers, MoneyMoves(t)
        PROVE  MoneyIsConserved'
    BY <1>1, <1>2, <1>3, <1>4, <1>6, <2>1, <2>3, TransfersBalance
  <2> QED
    BY <1>7, <2>2, <2>3, OnlyMovesWrite DEF BankIInv
<1>8. CASE WithdrawalStep \/ AccountStep \/ UNCHANGED bankVars
  <2>1. [Next]_vars /\ UNCHANGED transferVars
    BY <1>8, StepsOfWithdrawals
  <2>2. SentAbroad' = SentAbroad
    BY <2>1 DEF transferVars, SentAbroad
  <2>3. TotalOf(ledger') + PaidOut' = TotalOf(ledger) + PaidOut
    BY <2>1, WithdrawalsBalance
  <2> QED
    BY <1>1, <1>2, <1>3, <1>4, <1>6, <2>2, <2>3
<1> QED
  BY <1>7, <1>8 DEF BankNext

\* At the start the accounts hold what was paid in, and nothing went out.
LEMMA MoneyStarts == BankInit => MoneyIsConserved
<1> SUFFICES ASSUME BankInit PROVE MoneyIsConserved
  OBVIOUS
<1> DEFINE opened == SumFunctionOnSet(OpeningBalance, Accounts)
           f == [a \in Accounts |-> BalanceCents(ledger, a)]
<1>1. IsFiniteSet(Accounts) /\ \A a \in Accounts : OpeningBalance[a] \in Int
  BY BankAssumption, OpeningAssumption
<1>2. \A a \in Accounts : f[a] = OpeningBalance[a]
  BY OpeningSums DEF BankInit, Init, AccountInit
<1>3. TotalOf(ledger) = SumFunctionOnSet(f, Accounts)
  BY DEF TotalOf
<1> HIDE DEF f
<1>4. SumFunctionOnSet(f, Accounts) = opened
  <2>1. \A a \in Accounts : OpeningBalance[a] \in Int /\ OpeningBalance[a] = f[a]
    BY <1>1, <1>2
  <2>2. SumFunctionOnSet(OpeningBalance, Accounts) = SumFunctionOnSet(f, Accounts)
    BY <1>1, <2>1, SumOfSame
  <2> QED
    BY <2>2
<1>5. opened \in Int
  BY <1>1, SumRecursion
<1>6. PaidOut = 0
  <2>1. Succeeded = {}
    BY DEF Succeeded, BankInit, Init
  <2>2. SumFunctionOnSet(AmountOf, {}) = 0
    BY FS_EmptySet, SumRecursion
  <2> QED
    BY <2>1, <2>2, PaidOutFacts
<1>7. SentAbroad = 0
  <2> DEFINE s == Sent(executed)
  <2>1. executed = [t \in Transfers |-> 0]
    BY DEF BankInit, T!Init
  <2>2. executed \in [Transfers -> Nat]
    BY <2>1
  <2>3. \A t \in Transfers : s[t] = 0
    <3> SUFFICES ASSUME NEW t \in Transfers PROVE s[t] = 0
      OBVIOUS
    <3>1. TransferAmount[t] \in Int /\ executed[t] = 0
      BY <2>1, BankAssumption
    <3>2. 0 * TransferAmount[t] = 0
      BY <3>1
    <3> QED
      BY <3>1, <3>2 DEF Sent
  <2>4. IsFiniteSet(Abroad) /\ SentAbroad = SumFunctionOnSet(s, Abroad)
    BY <2>2, SentFacts DEF SentAbroad, Sent, Abroad
  <2> HIDE DEF s
  <2>5. \A t \in Abroad : s[t] = 0
    BY <2>3 DEF Abroad
  <2> QED
    BY <2>4, <2>5, SumOfNothing
<1> HIDE DEF opened
<1> QED
  BY <1>3, <1>4, <1>5, <1>6, <1>7 DEF MoneyIsConserved, opened

\* No money is made and none is lost, with one worker or where no withdrawal is
\* reviewed: killed at any statement, in every order of withdrawals, transfers
\* and webhooks, the accounts hold what was paid in less what the requests say
\* went out.
THEOREM MoneyStays ==
    ASSUME Serial
    PROVE  BankSpec => []MoneyIsConserved
<1>1. BankInit => SerialInv /\ MoneyIsConserved
  BY SerialInit, MoneyStarts DEF BankInit
<1>2. BankIInv /\ SerialInv /\ [BankNext]_bankVars => SerialInv'
  BY BankKeepsSerial
<1>3. BankIInv /\ SerialInv /\ MoneyIsConserved /\ [BankNext]_bankVars => MoneyIsConserved'
  BY MoneyIsKept
<1> QED
  BY <1>1, <1>2, <1>3, BankInductive, PTL DEF BankSpec
=============================================================================
