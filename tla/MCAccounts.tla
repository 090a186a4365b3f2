------------------------------ MODULE MCAccounts ------------------------------
(* TLC instances of Accounts. *)
EXTENDS Accounts, TLC

\* Names and workers are only compared for equality.
Symmetry == Permutations(Name) \cup Permutations(Worker)
==============================================================================
