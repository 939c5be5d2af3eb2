------------------------------ MODULE MCAccess ------------------------------
(* A small instance of Access for TLC.                                     *)
EXTENDS Access, TLC

AnyWorkerAndUser == Permutations(Workers) \cup Permutations(Users)
=============================================================================
