------------------------------ MODULE MCVoiceTts ------------------------------
(* TLC instances of VoiceTts. *)
EXTENDS VoiceTts, TLC

\* Threads and cache keys are only compared for equality.
Symmetry == Permutations(Ticker) \cup Permutations(Key)
==============================================================================
