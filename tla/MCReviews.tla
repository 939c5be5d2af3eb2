----------------------------- MODULE MCReviews -----------------------------
(* A small instance of Reviews for TLC.                                    *)
EXTENDS Reviews, TLC

CONSTANTS c1, r1, r2

\* Two rows of one customer: two cards, two documents, a loan and a document ...
Owner == [r \in {r1, r2} |-> c1]

AnyWorkerAndRow == Permutations(Workers) \cup Permutations(Rows)
=============================================================================
