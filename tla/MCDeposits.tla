----------------------------- MODULE MCDeposits -----------------------------
(* A small instance of Deposits for TLC.                                   *)
EXTENDS Deposits, TLC

CONSTANTS a1, d1, d2

SmallBalance == [a \in {a1} |-> 0]
BothToOne    == [d \in {d1, d2} |-> a1]
Amounts      == (d1 :> 1) @@ (d2 :> 2)
=============================================================================
