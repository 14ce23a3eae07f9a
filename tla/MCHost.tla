------------------------------- MODULE MCHost -------------------------------
(* Host with interchangeable instances and addresses.                      *)
EXTENDS Host, TLC

Symmetry == Permutations(Instance) \cup Permutations(Addr)
=============================================================================
