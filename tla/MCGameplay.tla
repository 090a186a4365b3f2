------------------------------ MODULE MCGameplay ------------------------------
(* TLC instances of Gameplay. *)
EXTENDS Gameplay, TLC

\* Workers and answers are only compared for equality.
Symmetry == Permutations(Ticker) \cup Permutations(Answer)
==============================================================================
