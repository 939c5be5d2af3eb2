------------------------------- MODULE MCBank -------------------------------
(* A small instance of Bank for TLC.                                       *)
EXTENDS Bank, TLC

CONSTANTS a1, a2, w1, w2, t1, t2

\* Three cents on a1: w1 fits beside one of the other requests, of two cents
\* each, of which any two are too much.
Opening     == (a1 :> 3) @@ (a2 :> 0)
DrawsOn     == [w \in Withdrawals |-> a1]
Withdrawn   == [w \in Withdrawals |-> IF w = w1 THEN 1 ELSE 2]
From        == [t \in Transfers |-> a1]
To          == [t \in Transfers |-> IF t = t1 THEN a2 ELSE NoOne]
Transferred == [t \in Transfers |-> 2]
ById        == (a1 :> 2) @@ (a2 :> 1)

AnyPayout == Permutations(Payouts)
AnyPayoutAndWorker == AnyPayout \cup Permutations(Workers)
=============================================================================
