-------------------------------- MODULE Bank --------------------------------
(***************************************************************************)
(* Withdrawals and transfers on the same accounts, served by the same      *)
(* workers: the two meet in the ledger, in the accounts' locks and in the  *)
(* workers' time, and in no other state.  The state of withdrawals is that *)
(* of the module this one extends (pc and job are a worker's withdrawal),  *)
(* that of transfers stands beside it.                                     *)
(***************************************************************************)
EXTENDS Withdrawals, Functions

CONSTANTS Transfers, FromOf, ToOf, TransferAmount, Rank

VARIABLES intent, device, executed, tpc, tjob

T == INSTANCE Transfers WITH AmountOf <- TransferAmount, pc <- tpc, job <- tjob

\* What Transfers assumes, of its parameters here; rows are told apart by what
\* they are about, and tables are finite.
ASSUME BankAssumption ==
    /\ FromOf \in [Transfers -> Accounts]
    /\ ToOf \in [Transfers -> Accounts \cup {NoOne}]
    /\ \A t \in Transfers : FromOf[t] # ToOf[t]
    /\ TransferAmount \in [Transfers -> Nat \ {0}]
    /\ Rank \in [Accounts -> Nat]
    /\ \A a, b \in Accounts : Rank[a] = Rank[b] => a = b
    /\ NoOne \notin Transfers
    /\ {"none", "mailed"} \cap Workers = {}
    /\ (Accounts \cup Withdrawals) \cap (Transfers \X Nat) = {}
    /\ IsFiniteSet(Accounts)
    /\ IsFiniteSet(Withdrawals)
    /\ IsFiniteSet(Transfers)

withdrawalVars == <<requestVars, stripeVars, workerVars>>
transferVars   == <<intent, device, executed, tpc, tjob>>
bankVars       == <<accountVars, withdrawalVars, transferVars>>

BankInit == Init /\ T!Init

-----------------------------------------------------------------------------
\* A worker that serves neither kind of request takes the next one in.
Idle(k) == pc[k] = "idle" /\ tpc[k] = "idle"

WithdrawalStep ==
    /\ \/ \E k \in Workers : WorkerStep(k) \/ Crash(k)
       \/ \E k \in Workers, w \in Withdrawals :
             Idle(k) /\ (CreateBegin(k, w) \/ ApproveBegin(k, w) \/ RejectBegin(k, w))
       \/ \E k \in Workers, p \in Payouts : Idle(k) /\ Webhook(k, p)
       \/ \E p \in Payouts : PayoutSettles(p)
    /\ UNCHANGED transferVars

TransferStep ==
    /\ \/ \E k \in Workers : T!WorkerStep(k) \/ T!Crash(k)
       \/ \E k \in Workers, t \in Transfers :
             Idle(k) /\ (T!InitiateCreates(k, t) \/ T!ResendBegin(k, t) \/ T!ConfirmBegin(k, t))
       \/ \E t \in Transfers : T!IntentExpires(t) \/ T!CodeExpires(t)
    /\ UNCHANGED withdrawalVars

AccountStep ==
    /\ \E k \in Workers : Idle(k)
    /\ \E a \in Accounts : AccountRequest(a)
    /\ UNCHANGED <<withdrawalVars, transferVars>>

BankNext == WithdrawalStep \/ TransferStep \/ AccountStep

BankSpec == BankInit /\ [][BankNext]_bankVars

-----------------------------------------------------------------------------
(* Properties                                                              *)

\* Every variable keeps its type, a worker within a request has a job and
\* serves one request at a time, and every row has an owner.
BankTypeOK ==
    /\ VariablesOK
    /\ seen \in [Workers -> Int]
    /\ ledger \subseteq
          EntriesOf(Accounts \cup Withdrawals \cup (Transfers \X Nat), Accounts)
    /\ intent \in [Transfers -> {"none", "saved", "live", "expired", "deleted"}]
    /\ device \in [Transfers -> {"none", "mailed"} \cup Workers]
    /\ executed \in [Transfers -> Nat]
    /\ tpc \in [Workers -> T!Labels]
    /\ tjob \in [Workers -> Transfers \cup {NoOne}]
    /\ \A k \in Workers : tpc[k] # "idle" => tjob[k] \in Transfers
    /\ \A k \in Workers : pc[k] = "idle" \/ tpc[k] = "idle"

\* What the accounts hold together, by the posted rows.
TotalOf(rows) == SumFunctionOnSet([a \in Accounts |-> BalanceCents(rows, a)], Accounts)

\* What the requests' own rows say left the bank.
PaidOut == SumFunctionOnSet(AmountOf, {w \in Withdrawals : status[w] = "succeeded"})
SentAbroad ==
    SumFunctionOnSet([t \in Transfers |-> executed[t] * TransferAmount[t]],
                     {t \in Transfers : ToOf[t] = NoOne})

\* Money is conserved: what the accounts hold together is what was paid in,
\* less what succeeded withdrawals and executed transfers abroad took out.  A
\* transfer between accounts neither makes nor loses money, and a withdrawal
\* is debited exactly when its request is shown as succeeded, in any order of
\* the two, with workers killed on the way.
MoneyIsConserved ==
    TotalOf(ledger) = SumFunctionOnSet(OpeningBalance, Accounts) - PaidOut - SentAbroad

\* The book without the rows of withdrawals.
OthersRows(rows) == {e \in rows : e.id \notin Withdrawals}

\* Transfers never spend more than an account has, whatever withdrawals do to
\* it between the checks and the commit; only a withdrawal can overdraw it.
TransfersAreCovered == \A a \in Accounts : BalanceCents(OthersRows(ledger), a) >= 0

\* "Hold the funds immediately so a concurrent withdrawal or transfer can't
\* spend the same balance while this one is in flight": what is held is there.
HeldFundsStay == \A a \in Accounts : AvailableCents(ledger, a) >= 0
=============================================================================
