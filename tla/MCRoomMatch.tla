----------------------------- MODULE MCRoomMatch -----------------------------
(* TLC instances of RoomMatch. *)
EXTENDS RoomMatch, TLC

\* Players are only ever compared for equality.
Symmetry == Permutations(Player)
==============================================================================
