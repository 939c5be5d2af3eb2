-------------------------- MODULE FundsReservation --------------------------
(***************************************************************************)
(* What withdrawals promise an account's owner and the bank, in one step   *)
(* each: funds are held only if they are there, and a hold is spent or     *)
(* returned, once.  No workers, no locks, no Stripe.                       *)
(***************************************************************************)
EXTENDS Integers, Functions

CONSTANTS Accounts, Withdrawals, AccountOf, AmountOf, OpeningBalance

VARIABLE funds  \* what became of the funds of a withdrawal

States == {"none", "held", "spent", "returned"}

Claimed == {w \in Withdrawals : funds[w] \in {"held", "spent"}}

\* What the account's owner may still withdraw.
Free(a) ==
    OpeningBalance[a]
        - FoldFunctionOnSet(+, 0, AmountOf, {w \in Claimed : AccountOf[w] = a})

Init == funds = [w \in Withdrawals |-> "none"]

Hold(w) ==
    /\ funds[w] = "none"
    /\ AmountOf[w] <= Free(AccountOf[w])
    /\ funds' = [funds EXCEPT ![w] = "held"]

Spend(w) ==
    /\ funds[w] = "held"
    /\ funds' = [funds EXCEPT ![w] = "spent"]

Return(w) ==
    /\ funds[w] = "held"
    /\ funds' = [funds EXCEPT ![w] = "returned"]

Next == \E w \in Withdrawals : Hold(w) \/ Spend(w) \/ Return(w)

Spec == Init /\ [][Next]_funds
=============================================================================
