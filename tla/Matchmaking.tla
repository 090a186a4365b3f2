----------------------------- MODULE Matchmaking -----------------------------
(***************************************************************************)
(* What rooms and matching promise a player, without rooms' states,        *)
(* tickets, buckets or locks: everybody is idle, waiting, or in exactly    *)
(* one seat; waiting and sitting exclude each other; a match seats a group *)
(* of waiting players together in an empty room, all in one step; and a    *)
(* seat is lost only by standing up or when the whole room is dissolved.   *)
(* RoomMatch implements this as long as nobody leaves a closed room.       *)
(***************************************************************************)
EXTENDS Integers, FiniteSets

CONSTANTS Player, MaxRooms, MaxPlayers

VARIABLES
    waiting,   \* the players who wait to be matched
    seat       \* the room each player is in, 0 for none

Occupants(r) == {p \in Player : seat[p] = r}

Init ==
    /\ waiting = {}
    /\ seat = [p \in Player |-> 0]

Wait(p) ==
    /\ seat[p] = 0
    /\ p \notin waiting
    /\ waiting' = waiting \cup {p}
    /\ UNCHANGED seat

StopWaiting(group) ==
    /\ group \subseteq waiting
    /\ waiting' = waiting \ group
    /\ UNCHANGED seat

\* Creating a room and joining one: a player takes one seat and stops waiting.
TakeSeat(p, r) ==
    /\ seat[p] = 0
    /\ Cardinality(Occupants(r)) < MaxPlayers
    /\ seat' = [seat EXCEPT ![p] = r]
    /\ waiting' = waiting \ {p}

SeatGroup(group, r) ==
    /\ group # {}
    /\ group \subseteq waiting
    /\ Cardinality(group) <= MaxPlayers
    /\ Occupants(r) = {}
    /\ seat' = [p \in Player |-> IF p \in group THEN r ELSE seat[p]]
    /\ waiting' = waiting \ group

StandUp(p) ==
    /\ seat[p] # 0
    /\ seat' = [seat EXCEPT ![p] = 0]
    /\ UNCHANGED waiting

Dissolve(r) ==
    /\ seat' = [p \in Player |-> IF seat[p] = r THEN 0 ELSE seat[p]]
    /\ UNCHANGED waiting

Next ==
    \/ \E p \in Player : Wait(p) \/ StandUp(p)
    \/ \E group \in SUBSET waiting : StopWaiting(group)
    \/ \E p \in Player, r \in 1..MaxRooms : TakeSeat(p, r)
    \/ \E group \in SUBSET waiting, r \in 1..MaxRooms : SeatGroup(group, r)
    \/ \E r \in 1..MaxRooms : Dissolve(r)

Spec == Init /\ [][Next]_<<waiting, seat>>

==============================================================================
