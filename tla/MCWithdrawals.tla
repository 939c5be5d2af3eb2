--------------------------- MODULE MCWithdrawals ---------------------------
(* Small instances of Withdrawals for TLC.                                 *)
EXTENDS WithdrawalsRefinement, TLC

CONSTANTS a1, w1, w2, w3

\* Two cents, drawn on by one request below the limit and one above it.
PairBalance == [a \in {a1} |-> 2]
PairAccount == [w \in {w1, w2} |-> a1]
PairAmount  == (w1 :> 1) @@ (w2 :> 2)

\* Three cents, drawn on by three requests of which any two are too much or
\* just enough.
TripleBalance == [a \in {a1} |-> 3]
TripleAccount == [w \in {w1, w2, w3} |-> a1]
TripleAmount  == (w1 :> 1) @@ (w2 :> 2) @@ (w3 :> 2)

AnyPayoutAndWorker == Permutations(Payouts) \cup Permutations(Workers)
=============================================================================
