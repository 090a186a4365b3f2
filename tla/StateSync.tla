------------------------------- MODULE StateSync -------------------------------
(***************************************************************************)
(* rcs::sync::StateSyncService: the authoritative player states of a room, *)
(* the version every change advances, and the deltas waiting to be         *)
(* broadcast.  Every method holds one mutex, so a call is one step; any    *)
(* caller may make any call at any time, and an input may arrive late,     *)
(* twice or out of order because SubmitState takes any input.              *)
(*                                                                         *)
(* Abstractions: a position is a point on a line, so that distance() is    *)
(* Gap; yaw, pitch, the action and the connection id are copied along with *)
(* the position and never looked at by the code, so they are left out;     *)
(* time is counted in units of Speed.  findPlayerState, buildSnapshot and  *)
(* the counters change nothing.                                            *)
(***************************************************************************)
EXTENDS Integers, Sequences, SequencesExt

CONSTANTS
    Room, Player,
    Position,           \* points on a line
    MaxStep,            \* max_single_update_distance
    Speed,              \* max_move_speed_per_second
    Tolerance,          \* movement_tolerance
    SnapshotInterval,   \* snapshot_interval
    MaxDeltas,          \* max_pending_deltas_per_room
    MaxInput,           \* bound on the sequence numbers clients use
    MaxVersion,         \* bound on a room's version
    MaxClock            \* bound on the clock

ASSUME PositionsOnALine == Position \subseteq Int /\ Position # {}
ASSUME LimitsNatural ==
    {MaxStep, Speed, Tolerance, SnapshotInterval, MaxDeltas, MaxInput, MaxVersion, MaxClock}
        \subseteq Nat

VARIABLES
    clock,      \* std::chrono::steady_clock
    rooms,      \* the keys of rooms_
    version,    \* RoomSyncState::version
    players,    \* the keys of RoomSyncState::players ...
    state,      \* ... and the player states
    deltas,     \* RoomSyncState::pending_deltas
    snapshotAt, \* RoomSyncState::last_snapshot_at
    handed,     \* history: the version of the last delta drained from a room
    stay,       \* history: how a player got to the present position
    lastInput   \* history: the last accepted input of a player of the room

vars == <<clock, rooms, version, players, state, deltas, snapshotAt, handed, stay, lastInput>>
roomVars == <<version, players, state, deltas, snapshotAt, handed, stay, lastInput>>

PlayerState == [pos: Position, seq: Nat, online: BOOLEAN, at: Nat]
Delta       == [player: Player, pos: Position, seq: Nat, version: Nat]

\* Where and when addPlayer put the player and how many inputs were accepted since.
Stay == [start: Position, since: Nat, inputs: Nat]

\* An accepted input, the version it made, and what became of its delta: "pending" until a
\* drain hands it out or shows that it gave way to newer ones.
Fate  == {"none", "pending", "drained", "lost"}
Input == [pos: Position, seq: Nat, version: Nat, fate: Fate]

Origin  == CHOOSE x \in Position : TRUE
Nowhere == [pos |-> Origin, seq |-> 0, online |-> FALSE, at |-> 0]
NoStay  == [start |-> Origin, since |-> 0, inputs |-> 0]
NoInput == [pos |-> Origin, seq |-> 0, version |-> 0, fate |-> "none"]

Gap(x, y) == IF x < y THEN y - x ELSE x - y

------------------------------------------------------------------------------
Init ==
    /\ clock = 0
    /\ rooms = {}
    /\ version = [r \in Room |-> 0]
    /\ players = [r \in Room |-> {}]
    /\ state = [r \in Room |-> [p \in Player |-> Nowhere]]
    /\ deltas = [r \in Room |-> <<>>]
    /\ snapshotAt = [r \in Room |-> -SnapshotInterval]
    /\ handed = [r \in Room |-> 0]
    /\ stay = [r \in Room |-> [p \in Player |-> NoStay]]
    /\ lastInput = [r \in Room |-> [p \in Player |-> NoInput]]

Tick ==
    /\ clock < MaxClock
    /\ clock' = clock + 1
    /\ UNCHANGED <<rooms, roomVars>>

RegisterRoom(r) ==
    /\ r \notin rooms
    /\ rooms' = rooms \cup {r}
    /\ UNCHANGED <<clock, roomVars>>

\* The erased RoomSyncState takes versions, players and undrained deltas with it.
UnregisterRoom(r) ==
    /\ r \in rooms
    /\ rooms' = rooms \ {r}
    /\ version' = [version EXCEPT ![r] = 0]
    /\ players' = [players EXCEPT ![r] = {}]
    /\ state' = [state EXCEPT ![r] = [p \in Player |-> Nowhere]]
    /\ deltas' = [deltas EXCEPT ![r] = <<>>]
    /\ snapshotAt' = [snapshotAt EXCEPT ![r] = -SnapshotInterval]
    /\ handed' = [handed EXCEPT ![r] = 0]
    /\ stay' = [stay EXCEPT ![r] = [p \in Player |-> NoStay]]
    /\ lastInput' = [lastInput EXCEPT ![r] = [p \in Player |-> NoInput]]
    /\ UNCHANGED clock

Bump(r) ==
    /\ version[r] < MaxVersion
    /\ version' = [version EXCEPT ![r] = @ + 1]

\* Mutant: a reconnected player starts over with the sequence numbers.
AddPlayerAfresh(r, p, x) ==
    /\ Bump(r)
    /\ rooms' = rooms \cup {r}
    /\ players' = [players EXCEPT ![r] = @ \cup {p}]
    /\ state' = [state EXCEPT ![r][p] =
                    [pos |-> x, seq |-> 0, online |-> TRUE, at |-> clock]]
    /\ stay' = [stay EXCEPT ![r][p] = [NoStay EXCEPT !.start = x, !.since = clock]]
    /\ UNCHANGED <<clock, deltas, snapshotAt, handed, lastInput>>

\* rooms_[room_id] registers an unknown room; a known player keeps the sequence.
AddPlayer(r, p, x) ==
    /\ Bump(r)
    /\ rooms' = rooms \cup {r}
    /\ players' = [players EXCEPT ![r] = @ \cup {p}]
    /\ state' = [state EXCEPT ![r][p] =
                    [pos |-> x, seq |-> @.seq, online |-> TRUE, at |-> clock]]
    /\ stay' = [stay EXCEPT ![r][p] = [NoStay EXCEPT !.start = x, !.since = clock]]
    /\ UNCHANGED <<clock, deltas, snapshotAt, handed, lastInput>>

RemovePlayer(r, p) ==
    /\ p \in players[r]
    /\ Bump(r)
    /\ players' = [players EXCEPT ![r] = @ \ {p}]
    /\ state' = [state EXCEPT ![r][p] = Nowhere]
    /\ stay' = [stay EXCEPT ![r][p] = NoStay]
    /\ lastInput' = [lastInput EXCEPT ![r][p] = NoInput]
    /\ UNCHANGED <<clock, rooms, deltas, snapshotAt, handed>>

MarkPlayerOffline(r, p) ==
    /\ p \in players[r]
    /\ Bump(r)
    /\ state' = [state EXCEPT ![r][p].online = FALSE, ![r][p].at = clock]
    /\ UNCHANGED <<clock, rooms, players, deltas, snapshotAt, handed, stay, lastInput>>

\* Mutant: the time allowed is counted from the epoch.
IsMovementAllowedSinceStart(current, x) ==
    LET moved == Gap(current.pos, x)
    IN /\ moved <= MaxStep + Tolerance
       /\ moved <= Speed * clock + Tolerance

\* With no time elapsed the last conjunct is the code's special case.
IsMovementAllowed(current, x) ==
    LET moved == Gap(current.pos, x)
    IN /\ moved <= MaxStep + Tolerance
       /\ moved <= Speed * (clock - current.at) + Tolerance

\* Mutants: the oldest are kept; the limit is missed by one.
TrimmedOldest(ds) == IF Len(ds) > MaxDeltas THEN SubSeq(ds, 1, MaxDeltas) ELSE ds

TrimmedLate(ds) ==
    IF Len(ds) > MaxDeltas + 1 THEN SubSeq(ds, Len(ds) - MaxDeltas, Len(ds)) ELSE ds

\* The newest MaxDeltas of a list that has grown by one.
Trimmed(ds) ==
    IF Len(ds) > MaxDeltas
    THEN SubSeq(ds, Len(ds) - MaxDeltas + 1, Len(ds))
    ELSE ds

Accepted(r, p, x, n) ==
    Append(deltas[r], [player |-> p, pos |-> x, seq |-> n, version |-> version[r] + 1])

\* A rejected input changes nothing.  An accepted one brings the player online.
SubmitState(r, p, x, n) ==
    /\ p \in players[r]
    /\ n > state[r][p].seq
    /\ IsMovementAllowed(state[r][p], x)
    /\ Bump(r)
    /\ state' = [state EXCEPT ![r][p] =
                    [pos |-> x, seq |-> n, online |-> TRUE, at |-> clock]]
    /\ deltas' = [deltas EXCEPT ![r] = Trimmed(Accepted(r, p, x, n))]
    /\ stay' = [stay EXCEPT ![r][p].inputs = @ + 1]
    /\ lastInput' = [lastInput EXCEPT ![r][p] =
                    [pos |-> x, seq |-> n, version |-> version[r] + 1, fate |-> "pending"]]
    /\ UNCHANGED <<clock, rooms, players, snapshotAt, handed>>

IsDue(r) == r \in rooms /\ clock - snapshotAt[r] >= SnapshotInterval

BuildDueSnapshots ==
    /\ \E r \in Room : IsDue(r)
    /\ snapshotAt' = [r \in Room |-> IF IsDue(r) THEN clock ELSE snapshotAt[r]]
    /\ UNCHANGED <<clock, rooms, version, players, state, deltas, handed, stay, lastInput>>

\* The delta of the input u of player p; what a list of deltas says of it.
Report(p, u)     == [player |-> p, pos |-> u.pos, seq |-> u.seq, version |-> u.version]
Waits(ds, p, u)  == \E i \in 1..Len(ds) : ds[i] = Report(p, u)
GaveWay(ds, u)   == Len(ds) = MaxDeltas /\ \A i \in 1..Len(ds) : u.version < ds[i].version

\* What whoever drains the list ds learns of the input u.
Settled(ds, p, u) ==
    IF u.fate # "pending" THEN u
    ELSE IF Waits(ds, p, u) THEN [u EXCEPT !.fate = "drained"]
    ELSE IF GaveWay(ds, u) THEN [u EXCEPT !.fate = "lost"]
    ELSE u

\* Mutant: the drained deltas stay.
DrainDeltasAgain(r) ==
    /\ deltas[r] # <<>>
    /\ handed' = [handed EXCEPT ![r] = Last(deltas[r]).version]
    /\ lastInput' = [lastInput EXCEPT ![r] = [p \in Player |-> Settled(deltas[r], p, lastInput[r][p])]]
    /\ UNCHANGED <<clock, rooms, version, players, state, deltas, snapshotAt, stay>>

DrainDeltas(r) ==
    /\ deltas[r] # <<>>
    /\ handed' = [handed EXCEPT ![r] = Last(deltas[r]).version]
    /\ deltas' = [deltas EXCEPT ![r] = <<>>]
    /\ lastInput' = [lastInput EXCEPT ![r] = [p \in Player |-> Settled(deltas[r], p, lastInput[r][p])]]
    /\ UNCHANGED <<clock, rooms, version, players, state, snapshotAt, stay>>

Next ==
    \/ Tick
    \/ BuildDueSnapshots
    \/ \E r \in Room :
        \/ RegisterRoom(r)
        \/ UnregisterRoom(r)
        \/ DrainDeltas(r)
        \/ \E p \in Player :
            \/ RemovePlayer(r, p)
            \/ MarkPlayerOffline(r, p)
            \/ \E x \in Position :
                \/ AddPlayer(r, p, x)
                \/ \E n \in 1..MaxInput : SubmitState(r, p, x, n)

Spec == Init /\ [][Next]_vars

------------------------------------------------------------------------------
\* The shapes of the service's state; pending_deltas never outgrows its limit,
\* which accept() restores after every push.
TypeOK ==
    /\ clock \in Nat
    /\ rooms \subseteq Room
    /\ version \in [Room -> Nat]
    /\ players \in [Room -> SUBSET Player]
    /\ state \in [Room -> [Player -> PlayerState]]
    /\ deltas \in [Room -> Seq(Delta)]
    /\ snapshotAt \in [Room -> Int]
    /\ handed \in [Room -> Nat]
    /\ stay \in [Room -> [Player -> Stay]]
    /\ lastInput \in [Room -> [Player -> Input]]
    /\ \A r \in Room : Len(deltas[r]) <= MaxDeltas

\* Deltas are handed out once and in order: those that wait have growing
\* versions, beyond every version drained before and none beyond the room's.
DeltasInOrder ==
    \A r \in Room :
        /\ handed[r] <= version[r]
        /\ \A i \in 1..Len(deltas[r]) :
            /\ handed[r] < deltas[r][i].version
            /\ deltas[r][i].version <= version[r]
            /\ \A j \in 1..Len(deltas[r]) :
                i < j => deltas[r][i].version < deltas[r][j].version

\* Deltas tell of inputs, and of nothing else: what addPlayer, markPlayerOffline and
\* removePlayer change is only in snapshots.  While a player stays in a room, through
\* reconnections too, the delta of the last accepted input is handed out with that input's
\* position and sequence, unless MaxDeltas newer ones push it out before the next drain; the
\* server holds that sequence number, and that position unless addPlayer has placed the
\* player elsewhere since.
AcceptedInputsAreTold ==
    \A r \in Room : \A p \in players[r] :
        LET u == lastInput[r][p]
        IN /\ u.fate = "pending" => Waits(deltas[r], p, u) \/ GaveWay(deltas[r], u)
           /\ state[r][p].seq = u.seq
           /\ stay[r][p].inputs > 0 => state[r][p].pos = u.pos

\* The checks of single inputs add up (isMovementAllowed and the updated_at that
\* accept() and markPlayerOffline() advance): since addPlayer a player has moved no
\* further than speed allows, but for one tolerance per accepted input.
WithinReach ==
    \A r \in Room : \A p \in players[r] :
        LET s == stay[r][p]  moved == Gap(s.start, state[r][p].pos)
        IN /\ s.since <= state[r][p].at
           /\ state[r][p].at <= clock
           /\ moved <= Speed * (state[r][p].at - s.since) + Tolerance * s.inputs
           /\ moved <= (MaxStep + Tolerance) * s.inputs

\* As long as a room stays registered, nothing its clients order states by falls back or stands
\* still.  Snapshots and deltas carry the version: no method changes what a snapshot shows, or
\* queues a delta, under the same version.  And the sequence number protects a player against
\* late and repeated inputs for as long as the player stays: also addPlayer, which reconnects
\* and moves a player, keeps it.  (A room registered again starts over with its versions.)
ChangesMoveForward ==
    [][/\ \A r \in rooms \cap rooms' :
            \/ players'[r] # players[r]
            \/ \E p \in players[r] : state'[r][p] # state[r][p]
            \/ \E i \in 1..Len(deltas'[r]) : deltas'[r][i].version > version[r]
            => version'[r] > version[r]
       /\ \A r \in Room : \A p \in players[r] \cap players'[r] :
            state'[r][p].seq >= state[r][p].seq]_vars

==============================================================================
