---------------------------- MODULE MCTransfers ----------------------------
(* Small instances of Transfers for TLC.                                   *)
EXTENDS Transfers, TLC

CONSTANTS a1, a2, t1, t2

\* Two accounts that pay each other: the locks are taken from both sides.
BothWaysBalance == (a1 :> 2) @@ (a2 :> 1)
BothWaysFrom    == (t1 :> a1) @@ (t2 :> a2)
BothWaysTo      == (t1 :> a2) @@ (t2 :> a1)
BothWaysAmount  == (t1 :> 2) @@ (t2 :> 1)

\* One account that pays another and a bank abroad, with funds for one of them.
AbroadTo     == (t1 :> a2) @@ (t2 :> NoOne)
OneFrom      == (t1 :> a1) @@ (t2 :> a1)

ById == (a1 :> 1) @@ (a2 :> 2)
=============================================================================
