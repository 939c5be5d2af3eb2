----------------------- MODULE WithdrawalsRefinement -----------------------
(***************************************************************************)
(* Withdrawals, with one worker, implements FundsReservation: a            *)
(* withdrawal's funds are what its ledger row says.                        *)
(***************************************************************************)
EXTENDS Withdrawals

FundsOf(w) ==
    CASE HasEntry(ledger, w, "pending") -> "held"
      [] HasEntry(ledger, w, "posted")  -> "spent"
      [] HasEntry(ledger, w, "failed")  -> "returned"
      [] OTHER                          -> "none"

Reservation == INSTANCE FundsReservation WITH
    funds <- [w \in Withdrawals |-> FundsOf(w)]

\* Every step of the handlers holds, spends or returns the funds of one
\* withdrawal as the reservation allows, or leaves all funds alone: whatever
\* the handlers' statements, the crashes between them and Stripe do.
ReservesFunds == Reservation!Spec
=============================================================================
