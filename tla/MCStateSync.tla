------------------------------ MODULE MCStateSync ------------------------------
(* TLC instances of StateSync. *)
EXTENDS StateSync, TLC

\* Players and rooms are only compared for equality.
Symmetry == Permutations(Player)
==============================================================================
