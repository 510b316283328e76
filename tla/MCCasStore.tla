------------------------------ MODULE MCCasStore ------------------------------
(* The instance of CasStore that TLC checks.  Processes are interchangeable. *)
EXTENDS CasStore, TLC

Symmetry == Permutations(Client)
=============================================================================
