--------------------------- MODULE MCAdjustments ---------------------------
(* A small instance of Adjustments for TLC.                                *)
EXTENDS Adjustments, TLC

CONSTANTS a1, d1, d2, d3

\* A small credit, a large credit and a large debit.
Account == [d \in {d1, d2, d3} |-> a1]
Amount  == (d1 :> 1) @@ (d2 :> 2) @@ (d3 :> -2)

AnyWorkerAndStaff == Permutations(Workers) \cup Permutations(Staff)
=============================================================================
