------------------------------- MODULE MCProc -------------------------------
(***************************************************************************)
(* Specifications of the process and container tables for the liveness     *)
(* runs.  FairOutsideSpec restricts user programs further than Polite: no  *)
(* process destroys the container it is in.                                *)
(***************************************************************************)
EXTENDS Proc

FromOutside ==
  \A p \in Procs : pc'[p] = "destroy" => loc'[p].id # containerID[p]

FairSpec == Spec /\ Fairness
FairOutsideSpec == Init /\ [][Next /\ FromOutside]_vars /\ Fairness
=============================================================================
