------------------------------- MODULE MCLog -------------------------------
(* The log with concurrent operations, and with fair ones.                 *)
EXTENDS Log

FairSpec == Spec /\ Fairness
=============================================================================
