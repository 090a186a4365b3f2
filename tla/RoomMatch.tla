------------------------------ MODULE RoomMatch ------------------------------
(***************************************************************************)
(* rcs::room::RoomMatchService: rooms, their members, and the match queue  *)
(* that groups waiting players into rooms.                                 *)
(*                                                                         *)
(* Every public method runs under one std::mutex, so each is one action.   *)
(* The exception is tick(), whose loop creates several rooms under one     *)
(* lock: it is TickExpire, then one MatchGroup (or LoseGroup) per turn of  *)
(* the loop, then TickDone.  Between them the mutex is held and no other   *)
(* action is enabled.  A call the code refuses leaves the state as it is   *)
(* and is a stuttering step.                                               *)
(*                                                                         *)
(* Abstractions: a player is its player_id; the member vector is a set     *)
(* (joinRoom and the one-ticket rule keep it free of duplicates); the      *)
(* deque of tickets is a set ordered by ticket id, because tickets are     *)
(* pushed in id order and only ever erased; time is left out, so a tick    *)
(* may find any set of tickets past its timeout.                           *)
(***************************************************************************)
EXTENDS Integers, FiniteSets

CONSTANTS
    Player,           \* valid (non-empty) player ids
    Mode,             \* room modes
    MaxPlayers,       \* the largest room size a caller asks for
    MaxRooms,         \* bound on the rooms ever created
    MaxTickets        \* bound on the tickets ever issued

ASSUME PlayerFinite == IsFiniteSet(Player)
ASSUME ModeNonEmpty == Mode # {}
ASSUME BoundsNat == MaxPlayers \in Nat /\ MaxRooms \in Nat /\ MaxTickets \in Nat

VARIABLES
    tickHoldsLock,    \* tick() is between two turns of its loop
    nextRoomId,       \* next_room_id_
    nextTicketId,     \* next_ticket_id_
    rooms,            \* rooms_: nothing is ever erased from this map
    matchQueue,       \* match_queue_
    playerTickets,    \* player_tickets_, 0 for a player without an entry
    reopened          \* history: leaveRoom has brought a closed room back

vars == <<tickHoldsLock, nextRoomId, nextTicketId, rooms, matchQueue, playerTickets, reopened>>

RoomId   == 1..MaxRooms
TicketId == 1..MaxTickets
RoomSize == 1..MaxPlayers

\* "absent" marks an id that rooms_ does not hold (yet).
RoomState == {"absent", "waiting", "playing", "closed"}

Room == [mode: Mode, state: RoomState, maxPlayers: RoomSize \cup {0},
         autoStart: BOOLEAN, members: SUBSET Player, ready: SUBSET Player]

Ticket == [id: TicketId, player: Player, mode: Mode, size: RoomSize]

Absent == [mode |-> CHOOSE m \in Mode : TRUE, state |-> "absent", maxPlayers |-> 0,
           autoStart |-> TRUE, members |-> {}, ready |-> {}]

------------------------------------------------------------------------------
(* Helpers of the class *)

Exists(r)   == rooms[r].state # "absent"
IsActive(r) == rooms[r].state \in {"waiting", "playing"}

InActiveRoom(p) == \E r \in RoomId : IsActive(r) /\ p \in rooms[r].members

\* updateRoomStateLocked, as the state it leaves the room in.
UpdatedState(room) ==
    IF room.members = {} THEN "closed"
    ELSE IF room.autoStart /\ Cardinality(room.members) >= room.maxPlayers THEN "playing"
    ELSE IF room.state # "playing" THEN "waiting"
    ELSE room.state

Updated(room) == [room EXCEPT !.state = UpdatedState(room)]

\* removePlayerTicketLocked: the queue entry goes by its id, the index entry by player.
RemovePlayerTicket(p) ==
    /\ matchQueue' = {t \in matchQueue : t.id # playerTickets[p]}
    /\ playerTickets' = [playerTickets EXCEPT ![p] = 0]

SameMatchBucket(t, u) == t.mode = u.mode /\ t.size = u.size

Bucket(t)    == {u \in matchQueue : SameMatchBucket(t, u)}
CanFill(t)   == Cardinality(Bucket(t)) >= t.size

\* Mutant: any tickets of the bucket fill the room.
IsMatchGroupUnordered(seed, group) ==
    /\ CanFill(seed)
    /\ seed \in group /\ group \subseteq Bucket(seed)
    /\ Cardinality(group) = seed.size

\* The group tick() collects: the first ticket in the queue that can fill its
\* room, and the earliest others of its bucket up to the room size.
IsMatchGroup(seed, group) ==
    /\ CanFill(seed)
    /\ \A t \in matchQueue : t.id < seed.id => ~CanFill(t)
    /\ seed \in group
    /\ group \subseteq Bucket(seed)
    /\ Cardinality(group) = seed.size
    /\ \A t \in group \ {seed}, u \in Bucket(seed) \ group : t.id < u.id

PlayersOf(tickets) == {t.player : t \in tickets}

\* createRoomLocked up to its first updateRoomStateLocked.
NewRoom(host, mode, size, auto) ==
    Updated([mode |-> mode, state |-> "waiting", maxPlayers |-> size,
             autoStart |-> auto, members |-> {host}, ready |-> {}])

------------------------------------------------------------------------------
Init ==
    /\ tickHoldsLock = FALSE
    /\ nextRoomId = 1
    /\ nextTicketId = 1
    /\ rooms = [r \in RoomId |-> Absent]
    /\ matchQueue = {}
    /\ playerTickets = [p \in Player |-> 0]
    /\ reopened = FALSE

\* Mutant: createRoomLocked forgets removePlayerTicketLocked.
CreateRoomKeepsTicket(host, mode, size, auto) ==
    /\ ~tickHoldsLock
    /\ nextRoomId <= MaxRooms
    /\ ~InActiveRoom(host)
    /\ rooms' = [rooms EXCEPT ![nextRoomId] = NewRoom(host, mode, size, auto)]
    /\ nextRoomId' = nextRoomId + 1
    /\ UNCHANGED <<tickHoldsLock, nextTicketId, matchQueue, playerTickets, reopened>>

CreateRoom(host, mode, size, auto) ==
    /\ ~tickHoldsLock
    /\ nextRoomId <= MaxRooms
    /\ ~InActiveRoom(host)
    /\ RemovePlayerTicket(host)
    /\ rooms' = [rooms EXCEPT ![nextRoomId] = NewRoom(host, mode, size, auto)]
    /\ nextRoomId' = nextRoomId + 1
    /\ UNCHANGED <<tickHoldsLock, nextTicketId, reopened>>

\* What joinRoom does once it has accepted the player.
Join(r, p) ==
    rooms' = [rooms EXCEPT ![r] = Updated([rooms[r] EXCEPT !.members = @ \cup {p}])]

\* Mutant: joinRoom without the look at the player's other rooms.
JoinRoomAnywhere(r, p) ==
    /\ ~tickHoldsLock /\ IsActive(r) /\ p \notin rooms[r].members
    /\ Cardinality(rooms[r].members) < rooms[r].maxPlayers
    /\ RemovePlayerTicket(p)
    /\ Join(r, p)
    /\ UNCHANGED <<tickHoldsLock, nextRoomId, nextTicketId, reopened>>

\* Mutant: joinRoom compares with > where it needs >=.
JoinRoomOverfull(r, p) ==
    /\ ~tickHoldsLock /\ IsActive(r) /\ p \notin rooms[r].members /\ ~InActiveRoom(p)
    /\ Cardinality(rooms[r].members) <= rooms[r].maxPlayers
    /\ RemovePlayerTicket(p)
    /\ Join(r, p)
    /\ UNCHANGED <<tickHoldsLock, nextRoomId, nextTicketId, reopened>>

\* A member that joins again is told "ok" and nothing changes.
JoinRoom(r, p) ==
    /\ ~tickHoldsLock
    /\ IsActive(r)
    /\ p \notin rooms[r].members
    /\ ~InActiveRoom(p)
    /\ Cardinality(rooms[r].members) < rooms[r].maxPlayers
    /\ RemovePlayerTicket(p)
    /\ Join(r, p)
    /\ UNCHANGED <<tickHoldsLock, nextRoomId, nextTicketId, reopened>>

\* Mutant: the member goes and the ready flag stays.
LeaveRoomKeepsReady(r, p) ==
    /\ ~tickHoldsLock
    /\ Exists(r)
    /\ p \in rooms[r].members
    /\ rooms' = [rooms EXCEPT ![r] = Updated([rooms[r] EXCEPT !.members = @ \ {p}])]
    /\ reopened' = (reopened \/ (rooms[r].state = "closed" /\ rooms[r].members # {p}))
    /\ UNCHANGED <<tickHoldsLock, nextRoomId, nextTicketId, matchQueue, playerTickets>>

\* leaveRoom has no test for a closed room: one that keeps members is put back to waiting
\* (or playing) by updateRoomStateLocked.
LeaveRoom(r, p) ==
    /\ ~tickHoldsLock
    /\ Exists(r)
    /\ p \in rooms[r].members
    /\ rooms' = [rooms EXCEPT ![r] =
                    Updated([rooms[r] EXCEPT !.members = @ \ {p}, !.ready = @ \ {p}])]
    /\ reopened' = (reopened \/ (rooms[r].state = "closed" /\ rooms[r].members # {p}))
    /\ UNCHANGED <<tickHoldsLock, nextRoomId, nextTicketId, matchQueue, playerTickets>>

\* closeRoom keeps the members of the room.
CloseRoom(r) ==
    /\ ~tickHoldsLock
    /\ Exists(r)
    /\ rooms' = [rooms EXCEPT ![r].state = "closed"]
    /\ UNCHANGED <<tickHoldsLock, nextRoomId, nextTicketId, matchQueue, playerTickets, reopened>>

SetReady(r, p, ready) ==
    /\ ~tickHoldsLock
    /\ IsActive(r)
    /\ p \in rooms[r].members
    /\ rooms' = [rooms EXCEPT ![r].ready = IF ready THEN @ \cup {p} ELSE @ \ {p}]
    /\ UNCHANGED <<tickHoldsLock, nextRoomId, nextTicketId, matchQueue, playerTickets, reopened>>

EnqueueMatch(p, mode, size) ==
    /\ ~tickHoldsLock
    /\ nextTicketId <= MaxTickets
    /\ ~InActiveRoom(p)
    /\ playerTickets[p] = 0
    /\ matchQueue' = matchQueue \cup
            {[id |-> nextTicketId, player |-> p, mode |-> mode, size |-> size]}
    /\ playerTickets' = [playerTickets EXCEPT ![p] = nextTicketId]
    /\ nextTicketId' = nextTicketId + 1
    /\ UNCHANGED <<tickHoldsLock, nextRoomId, rooms, reopened>>

\* Mutant: cancelMatch forgets player_tickets_.
CancelMatchKeepsIndex(id) ==
    /\ ~tickHoldsLock
    /\ \E t \in matchQueue : t.id = id /\ matchQueue' = matchQueue \ {t}
    /\ UNCHANGED <<tickHoldsLock, nextRoomId, nextTicketId, rooms, playerTickets, reopened>>

CancelMatch(id) ==
    /\ ~tickHoldsLock
    /\ \E t \in matchQueue :
        /\ t.id = id
        /\ matchQueue' = matchQueue \ {t}
        /\ playerTickets' = [playerTickets EXCEPT ![t.player] = 0]
    /\ UNCHANGED <<tickHoldsLock, nextRoomId, nextTicketId, rooms, reopened>>

CancelMatchByPlayer(p) ==
    /\ ~tickHoldsLock
    /\ playerTickets[p] # 0
    /\ RemovePlayerTicket(p)
    /\ UNCHANGED <<tickHoldsLock, nextRoomId, nextTicketId, rooms, reopened>>

------------------------------------------------------------------------------
(* tick(): its steps, in the order of the code, under one lock *)

DropTickets(tickets) ==
    /\ matchQueue' = matchQueue \ tickets
    /\ playerTickets' = [p \in Player |->
                            IF p \in PlayersOf(tickets) THEN 0 ELSE playerTickets[p]]

TickExpire(expired) ==
    /\ ~tickHoldsLock
    /\ tickHoldsLock' = TRUE
    /\ DropTickets(expired)
    /\ UNCHANGED <<nextRoomId, nextTicketId, rooms, reopened>>

\* Mutant: only the host ends up in the new room.
MatchGroupHostOnly(seed, group) ==
    /\ tickHoldsLock
    /\ nextRoomId <= MaxRooms
    /\ IsMatchGroup(seed, group)
    /\ ~InActiveRoom(seed.player)
    /\ DropTickets(group)
    /\ rooms' = [rooms EXCEPT ![nextRoomId] = NewRoom(seed.player, seed.mode, seed.size, TRUE)]
    /\ nextRoomId' = nextRoomId + 1
    /\ UNCHANGED <<tickHoldsLock, nextTicketId, reopened>>

\* One turn of the loop: the seed hosts the room, the others are pushed as
\* members without another look at where they are.
MatchGroup(seed, group) ==
    /\ tickHoldsLock
    /\ nextRoomId <= MaxRooms
    /\ IsMatchGroup(seed, group)
    /\ ~InActiveRoom(seed.player)
    /\ DropTickets(group)
    /\ LET room == NewRoom(seed.player, seed.mode, seed.size, TRUE) IN
       rooms' = [rooms EXCEPT ![nextRoomId] =
                    Updated([room EXCEPT !.members = @ \cup PlayersOf(group)])]
    /\ nextRoomId' = nextRoomId + 1
    /\ UNCHANGED <<tickHoldsLock, nextTicketId, reopened>>

\* The tickets of the group are erased before createRoomLocked is asked; when it
\* refuses the host the loop ends and nobody is told.
LoseGroup(seed, group) ==
    /\ tickHoldsLock
    /\ IsMatchGroup(seed, group)
    /\ InActiveRoom(seed.player)
    /\ DropTickets(group)
    /\ tickHoldsLock' = FALSE
    /\ UNCHANGED <<nextRoomId, nextTicketId, rooms, reopened>>

\* The bound on rooms also ends a tick.
TickDone ==
    /\ tickHoldsLock
    /\ nextRoomId <= MaxRooms => \A t \in matchQueue : ~CanFill(t)
    /\ tickHoldsLock' = FALSE
    /\ UNCHANGED <<nextRoomId, nextTicketId, rooms, matchQueue, playerTickets, reopened>>

Next ==
    \/ \E p \in Player, m \in Mode, n \in RoomSize, a \in BOOLEAN : CreateRoom(p, m, n, a)
    \/ \E r \in RoomId, p \in Player : JoinRoom(r, p)
    \/ \E r \in RoomId, p \in Player : LeaveRoom(r, p)
    \/ \E r \in RoomId : CloseRoom(r)
    \/ \E r \in RoomId, p \in Player, b \in BOOLEAN : SetReady(r, p, b)
    \/ \E p \in Player, m \in Mode, n \in RoomSize : EnqueueMatch(p, m, n)
    \/ \E id \in TicketId : CancelMatch(id)
    \/ \E p \in Player : CancelMatchByPlayer(p)
    \/ \E expired \in SUBSET matchQueue : TickExpire(expired)
    \/ \E seed \in matchQueue : \E group \in SUBSET matchQueue : MatchGroup(seed, group)
    \/ \E seed \in matchQueue : \E group \in SUBSET matchQueue : LoseGroup(seed, group)
    \/ TickDone

Spec == Init /\ [][Next]_vars

------------------------------------------------------------------------------
(* Properties that hold whatever the callers do *)

Typed ==
    /\ tickHoldsLock \in BOOLEAN
    /\ nextRoomId \in 1..(MaxRooms + 1)
    /\ nextTicketId \in 1..(MaxTickets + 1)
    /\ rooms \in [RoomId -> Room]
    /\ matchQueue \subseteq Ticket
    /\ playerTickets \in [Player -> 0..MaxTickets]
    /\ reopened \in BOOLEAN

\* RoomPlayer::ready is a field of the member.
ReadyAreMembers == \A r \in RoomId : rooms[r].ready \subseteq rooms[r].members

\* rooms_ holds every id given out and no other.
RoomIdsIssued == \A r \in RoomId : Exists(r) <=> r < nextRoomId

TicketIdsIssued ==
    /\ \A t \in matchQueue : t.id < nextTicketId
    /\ \A p \in Player : playerTickets[p] < nextTicketId

\* The shape of the state; ready flags belong to members, the ids of rooms, tickets and index
\* entries are below their counters, and no room below the counter is missing.
TypeOK ==
    /\ Typed
    /\ ReadyAreMembers
    /\ RoomIdsIssued
    /\ TicketIdsIssued

\* match_queue_ and player_tickets_ describe the same tickets: every queued ticket is its
\* player's index entry and every index entry is queued.  Hence a player holds at most one
\* ticket, as the comment on enqueueMatch promises, and no index entry locks a player out.
TicketIndexMatchesQueue ==
    /\ \A t \in matchQueue : playerTickets[t.player] = t.id
    /\ \A p \in Player : playerTickets[p] # 0 =>
            \E t \in matchQueue : t.player = p /\ t.id = playerTickets[p]

\* A room that is not closed has at least one member and never more than max_players,
\* whichever of createRoom, joinRoom, leaveRoom and tick filled or emptied it; one that
\* starts by itself is playing when it is full.
ActiveRoomsAreWellFilled ==
    \A r \in RoomId : IsActive(r) =>
        /\ rooms[r].members # {}
        /\ Cardinality(rooms[r].members) <= rooms[r].maxPlayers
        /\ (rooms[r].autoStart /\ Cardinality(rooms[r].members) = rooms[r].maxPlayers)
                => rooms[r].state = "playing"

\* Matching is first come, first served inside a bucket: when a turn of tick() creates a
\* room, no ticket left behind is older than a ticket of the same bucket that got a seat.
MatchingIsFifo ==
    [][tickHoldsLock /\ nextRoomId' # nextRoomId =>
        \A t \in matchQueue \ matchQueue', u \in matchQueue' :
            SameMatchBucket(t, u) => t.id < u.id]_vars

------------------------------------------------------------------------------
(* Properties that hold until leaveRoom has brought a closed room back *)

OneRoomEach ==
    \A p \in Player, r, s \in RoomId :
        IsActive(r) /\ IsActive(s) /\ p \in rooms[r].members /\ p \in rooms[s].members
            => r = s

QueueIsRoomless == \A t \in matchQueue : ~InActiveRoom(t.player)

\* "player already in another room": a player is a member of at most one room that is not
\* closed, and of none while waiting in the match queue.
OnePlaceEach == ~reopened => OneRoomEach /\ QueueIsRoomless

\* The tickets the match loop takes out of the queue leave their players in an open room.
LoopSeatsWhoItTakes ==
    tickHoldsLock => \A t \in matchQueue \ matchQueue' :
        \E r \in RoomId : IsActive(r)' /\ t.player \in rooms'[r].members

\* Matching loses nobody: after the expiry pass, tick() only drops tickets whose players it
\* puts in a room.
MatchingLosesNobody == [][~reopened => LoopSeatsWhoItTakes]_vars

\* "tick: clean up expired tickets, and form rooms by mode and room size": the same, whatever
\* has been called before.
MatchedPlayersGetARoom == [][LoopSeatsWhoItTakes]_vars

\* The rooms and the queue, seen from the players: each is idle, waiting, or in one room,
\* and a match moves its whole group from waiting into one empty room at once.
SeatOf(p) == IF InActiveRoom(p)
             THEN CHOOSE r \in RoomId : IsActive(r) /\ p \in rooms[r].members
             ELSE 0

Waiting == PlayersOf(matchQueue)
Seats   == [p \in Player |-> SeatOf(p)]

Matching == INSTANCE Matchmaking WITH waiting <- Waiting, seat <- Seats

\* Rooms and queue implement Matchmaking: the initial state maps to its initial state, and
\* every step, until one brings a closed room back, to one of its steps or to none.
ImplementsMatchmaking ==
    Matching!Init /\ [][~reopened' => [Matching!Next]_<<Waiting, Seats>>]_vars

==============================================================================
