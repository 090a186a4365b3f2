--------------------------- MODULE RoomMatch_proofs ---------------------------
(***************************************************************************)
(* Theorems about RoomMatch for every set of players and modes and every   *)
(* value of the bounds.                                                    *)
(***************************************************************************)
EXTENDS RoomMatch, FiniteSetTheorems, TLAPS

\* What updateRoomStateLocked may do to a room: its state only, to a value rooms can have.
LEMMA UpdatedType ==
    ASSUME NEW room \in Room
    PROVE  /\ Updated(room) \in Room
           /\ Updated(room) = [room EXCEPT !.state = UpdatedState(room)]
           /\ UpdatedState(room) \in {"waiting", "playing", "closed", room.state}
BY DEF Updated, UpdatedState, Room, RoomState

\* createRoomLocked builds a room whose only member is its host.
LEMMA NewRoomType ==
    ASSUME NEW host \in Player, NEW mode \in Mode, NEW size \in RoomSize, NEW auto \in BOOLEAN
    PROVE  /\ NewRoom(host, mode, size, auto) \in Room
           /\ NewRoom(host, mode, size, auto).members = {host}
           /\ NewRoom(host, mode, size, auto).state \in {"waiting", "playing"}
<1> DEFINE fresh == [mode |-> mode, state |-> "waiting", maxPlayers |-> size,
                     autoStart |-> auto, members |-> {host}, ready |-> {}]
<1>1. fresh \in Room
  BY DEF Room, RoomState
<1>2. NewRoom(host, mode, size, auto) = [fresh EXCEPT !.state = UpdatedState(fresh)]
  BY DEF NewRoom, Updated
<1>3. UpdatedState(fresh) \in {"waiting", "playing"}
  BY DEF UpdatedState
<1> HIDE DEF fresh
<1>4. NewRoom(host, mode, size, auto).members = fresh.members /\ fresh.members = {host}
  BY <1>1, <1>2 DEF Room, fresh
<1> QED
  BY <1>1, <1>2, <1>3, <1>4, UpdatedType DEF Room, RoomState

LEMMA NewRoomReady ==
    ASSUME NEW host \in Player, NEW mode \in Mode, NEW size \in RoomSize, NEW auto \in BOOLEAN
    PROVE  NewRoom(host, mode, size, auto).ready \subseteq
               NewRoom(host, mode, size, auto).members
BY DEF NewRoom, Updated

LEMMA AbsentType == Absent \in Room
BY ModeNonEmpty DEF Absent, Room, RoomState

\* Typed is inductive by itself.
LEMMA TypeStep == Typed /\ [Next]_vars => Typed'
<1> SUFFICES ASSUME Typed, [Next]_vars PROVE Typed'
  OBVIOUS
<1> USE BoundsNat DEF Typed
<1>1. ASSUME NEW p \in Player, NEW m \in Mode, NEW n \in RoomSize, NEW a \in BOOLEAN,
             CreateRoom(p, m, n, a)
      PROVE  Typed'
  <2>1. NewRoom(p, m, n, a) \in Room
    BY NewRoomType
  <2> QED
    BY <1>1, <2>1 DEF CreateRoom, RemovePlayerTicket, RoomId
<1>2. ASSUME NEW r \in RoomId, NEW p \in Player, JoinRoom(r, p) PROVE Typed'
  <2>1. [rooms[r] EXCEPT !.members = @ \cup {p}] \in Room
    BY DEF Room
  <2>2. Updated([rooms[r] EXCEPT !.members = @ \cup {p}]) \in Room
    BY <2>1, UpdatedType
  <2> QED
    BY <1>2, <2>2 DEF JoinRoom, Join, RemovePlayerTicket
<1>3. ASSUME NEW r \in RoomId, NEW p \in Player, LeaveRoom(r, p) PROVE Typed'
  <2>1. [rooms[r] EXCEPT !.members = @ \ {p}, !.ready = @ \ {p}] \in Room
    BY DEF Room
  <2>2. Updated([rooms[r] EXCEPT !.members = @ \ {p}, !.ready = @ \ {p}]) \in Room
    BY <2>1, UpdatedType
  <2> QED
    BY <1>3, <2>2 DEF LeaveRoom
<1>4. ASSUME NEW r \in RoomId, CloseRoom(r) PROVE Typed'
  BY <1>4 DEF CloseRoom, Room, RoomState
<1>5. ASSUME NEW r \in RoomId, NEW p \in Player, NEW b \in BOOLEAN, SetReady(r, p, b)
      PROVE  Typed'
  BY <1>5 DEF SetReady, Room
<1>6. ASSUME NEW p \in Player, NEW m \in Mode, NEW n \in RoomSize, EnqueueMatch(p, m, n)
      PROVE  Typed'
  BY <1>6 DEF EnqueueMatch, Ticket, TicketId
<1>7. ASSUME NEW id \in TicketId, CancelMatch(id) PROVE Typed'
  <2>1. PICK t \in matchQueue : /\ matchQueue' = matchQueue \ {t}
                                /\ playerTickets' = [playerTickets EXCEPT ![t.player] = 0]
    BY <1>7 DEF CancelMatch
  <2> QED
    BY <1>7, <2>1 DEF CancelMatch, Ticket
<1>8. ASSUME NEW p \in Player, CancelMatchByPlayer(p) PROVE Typed'
  BY <1>8 DEF CancelMatchByPlayer, RemovePlayerTicket
<1>9. ASSUME NEW expired \in SUBSET matchQueue, TickExpire(expired) PROVE Typed'
  BY <1>9 DEF TickExpire, DropTickets
<1>10. ASSUME NEW seed \in matchQueue, NEW group \in SUBSET matchQueue, MatchGroup(seed, group)
       PROVE  Typed'
  <2> DEFINE room == NewRoom(seed.player, seed.mode, seed.size, TRUE)
  <2>1. room \in Room
    BY NewRoomType DEF Ticket
  <2>2. PlayersOf(group) \subseteq Player
    BY DEF PlayersOf, Ticket
  <2> HIDE DEF room
  <2>3. [room EXCEPT !.members = @ \cup PlayersOf(group)] \in Room
    BY <2>1, <2>2 DEF Room
  <2>4. Updated([room EXCEPT !.members = @ \cup PlayersOf(group)]) \in Room
    BY <2>3, UpdatedType
  <2>5. rooms' = [rooms EXCEPT ![nextRoomId] =
                     Updated([room EXCEPT !.members = @ \cup PlayersOf(group)])]
    BY <1>10 DEF MatchGroup, room
  <2> QED
    BY <1>10, <2>4, <2>5 DEF MatchGroup, DropTickets, RoomId
<1>11. ASSUME NEW seed \in matchQueue, NEW group \in SUBSET matchQueue, LoseGroup(seed, group)
       PROVE  Typed'
  <2>1. tickHoldsLock' \in BOOLEAN /\ UNCHANGED <<nextRoomId, nextTicketId, rooms, reopened>>
    BY <1>11 DEF LoseGroup
  <2>2. matchQueue' \subseteq Ticket /\ playerTickets' \in [Player -> 0..MaxTickets]
    BY <1>11 DEF LoseGroup, DropTickets
  <2> QED
    BY <2>1, <2>2
<1>12. CASE TickDone
  BY <1>12 DEF TickDone
<1>13. CASE UNCHANGED vars
  BY <1>13 DEF vars
<1> HIDE DEF Typed
<1> QED
  BY <1>1, <1>2, <1>3, <1>4, <1>5, <1>6, <1>7, <1>8, <1>9, <1>10, <1>11, <1>12, <1>13
  DEF Next

LEMMA TypeInit == Init => Typed
<1> SUFFICES ASSUME Init PROVE Typed
  OBVIOUS
<1>1. rooms \in [RoomId -> Room]
  BY AbsentType DEF Init
<1>2. nextRoomId \in 1..(MaxRooms + 1) /\ nextTicketId \in 1..(MaxTickets + 1)
  BY BoundsNat DEF Init
<1>3. tickHoldsLock \in BOOLEAN /\ matchQueue \subseteq Ticket /\ reopened \in BOOLEAN
  BY DEF Init
<1>4. playerTickets \in [Player -> 0..MaxTickets]
  BY BoundsNat DEF Init
<1> QED
  BY <1>1, <1>2, <1>3, <1>4 DEF Typed

------------------------------------------------------------------------------
(* The queue and its index *)

\* Ids in the index were issued, and a queued ticket is known by its id alone: what makes
\* erasing queue entries by id erase no other player's entry.
IssuedTickets ==
    /\ \A p \in Player : playerTickets[p] < nextTicketId
    /\ \A t, u \in matchQueue : t.id = u.id => t = u

TicketInv == TicketIndexMatchesQueue /\ IssuedTickets

LEMMA TicketInit == Init => TicketInv
BY DEF Init, TicketInv, TicketIndexMatchesQueue, IssuedTickets

\* removePlayerTicketLocked keeps the queue and its index in step.
LEMMA RemoveKeepsTickets ==
    ASSUME Typed, TicketInv, NEW p \in Player, RemovePlayerTicket(p),
           UNCHANGED nextTicketId
    PROVE  TicketInv'
<1> USE DEF Typed, TicketInv, TicketIndexMatchesQueue, IssuedTickets
<1>1. \A t \in matchQueue' : playerTickets'[t.player] = t.id
  BY DEF RemovePlayerTicket, Ticket, TicketId
<1>2. ASSUME NEW q \in Player, playerTickets'[q] # 0
      PROVE  \E t \in matchQueue' : t.player = q /\ t.id = playerTickets'[q]
  <2>1. q # p /\ playerTickets'[q] = playerTickets[q]
    BY <1>2 DEF RemovePlayerTicket
  <2>2. PICK t \in matchQueue : t.player = q /\ t.id = playerTickets[q]
    BY <1>2, <2>1
  <2>3. t.id # playerTickets[p]
    <3> SUFFICES ASSUME t.id = playerTickets[p] PROVE FALSE
      OBVIOUS
    <3>1. PICK u \in matchQueue : u.player = p /\ u.id = playerTickets[p]
      BY <1>2, <2>1, <2>2
    <3> QED
      BY <2>1, <2>2, <3>1
  <2> QED
    BY <2>1, <2>2, <2>3 DEF RemovePlayerTicket
<1>3. \A q \in Player : playerTickets'[q] < nextTicketId'
  <2>1. \A q \in Player : playerTickets'[q] \in {0, playerTickets[q]}
    BY DEF RemovePlayerTicket
  <2> QED
    BY <2>1, BoundsNat
<1>4. \A t, u \in matchQueue' : t.id = u.id => t = u
  BY DEF RemovePlayerTicket
<1> QED
  BY <1>1, <1>2, <1>3, <1>4

\* So does erasing a set of queued tickets, in the expiry pass and for a match.
LEMMA DropKeepsTickets ==
    ASSUME Typed, TicketInv, NEW tickets \in SUBSET matchQueue, DropTickets(tickets),
           UNCHANGED nextTicketId
    PROVE  TicketInv'
<1> USE DEF Typed, TicketInv, TicketIndexMatchesQueue, IssuedTickets
<1>1. ASSUME NEW t \in matchQueue' PROVE playerTickets'[t.player] = t.id
  <2>1. t \in matchQueue /\ t \notin tickets /\ t.player \in Player
    BY DEF DropTickets, Ticket
  <2>2. t.player \notin PlayersOf(tickets)
    BY <2>1 DEF PlayersOf
  <2> QED
    BY <2>1, <2>2 DEF DropTickets
<1>2. ASSUME NEW q \in Player, playerTickets'[q] # 0
      PROVE  \E t \in matchQueue' : t.player = q /\ t.id = playerTickets'[q]
  <2>1. q \notin PlayersOf(tickets) /\ playerTickets'[q] = playerTickets[q]
    BY <1>2 DEF DropTickets
  <2>2. PICK t \in matchQueue : t.player = q /\ t.id = playerTickets[q]
    BY <1>2, <2>1
  <2>3. t \notin tickets
    BY <2>1, <2>2 DEF PlayersOf
  <2> QED
    BY <2>1, <2>2, <2>3 DEF DropTickets
<1>3. \A q \in Player : playerTickets'[q] < nextTicketId'
  <2>1. \A q \in Player : playerTickets'[q] \in {0, playerTickets[q]}
    BY DEF DropTickets
  <2> QED
    BY <2>1, BoundsNat
<1>4. \A t, u \in matchQueue' : t.id = u.id => t = u
  BY DEF DropTickets
<1> QED
  BY <1>1, <1>2, <1>3, <1>4

LEMMA TicketStep == Typed /\ TicketInv /\ [Next]_vars => TicketInv'
<1> SUFFICES ASSUME Typed, TicketInv, [Next]_vars PROVE TicketInv'
  OBVIOUS
<1> DEFINE SameTickets == UNCHANGED <<nextTicketId, matchQueue, playerTickets>>
<1>0. ASSUME SameTickets PROVE TicketInv'
  BY <1>0 DEF TicketInv, TicketIndexMatchesQueue, IssuedTickets
<1>1. ASSUME NEW p \in Player, NEW m \in Mode, NEW n \in RoomSize, NEW a \in BOOLEAN,
             CreateRoom(p, m, n, a)
      PROVE  TicketInv'
  BY <1>1, RemoveKeepsTickets DEF CreateRoom
<1>2. ASSUME NEW r \in RoomId, NEW p \in Player, JoinRoom(r, p) PROVE TicketInv'
  BY <1>2, RemoveKeepsTickets DEF JoinRoom
<1>3. ASSUME NEW r \in RoomId, NEW p \in Player, LeaveRoom(r, p) PROVE SameTickets
  BY <1>3 DEF LeaveRoom
<1>4. ASSUME NEW r \in RoomId, CloseRoom(r) PROVE SameTickets
  BY <1>4 DEF CloseRoom
<1>5. ASSUME NEW r \in RoomId, NEW p \in Player, NEW b \in BOOLEAN, SetReady(r, p, b)
      PROVE  SameTickets
  BY <1>5 DEF SetReady
<1>6. ASSUME NEW p \in Player, NEW m \in Mode, NEW n \in RoomSize, EnqueueMatch(p, m, n)
      PROVE  TicketInv'
  <2> DEFINE fresh == [id |-> nextTicketId, player |-> p, mode |-> m, size |-> n]
  <2>1. /\ matchQueue' = matchQueue \cup {fresh}
        /\ playerTickets' = [playerTickets EXCEPT ![p] = fresh.id]
        /\ playerTickets[p] = 0 /\ fresh.id = nextTicketId /\ fresh.player = p
        /\ nextTicketId' = nextTicketId + 1
    BY <1>6 DEF EnqueueMatch
  <2> HIDE DEF fresh
  <2> USE DEF Typed, TicketInv, TicketIndexMatchesQueue, IssuedTickets
  <2>2. \A t \in matchQueue : t.player \in Player /\ t.id \in Nat \ {0} /\ t.id < nextTicketId
    BY DEF Ticket, TicketId
  <2>3. \A t \in matchQueue : t.player # p
    BY <2>1, <2>2
  <2>4. \A t \in matchQueue' : playerTickets'[t.player] = t.id
    BY <2>1, <2>2, <2>3
  <2>5. ASSUME NEW q \in Player, playerTickets'[q] # 0
        PROVE  \E t \in matchQueue' : t.player = q /\ t.id = playerTickets'[q]
    <3>1. CASE q = p
      BY <2>1, <3>1
    <3>2. CASE q # p
      BY <2>1, <2>5, <3>2
    <3> QED
      BY <3>1, <3>2
  <2>6. \A q \in Player : playerTickets'[q] < nextTicketId'
    BY <2>1, BoundsNat
  <2>7. \A t, u \in matchQueue' : t.id = u.id => t = u
    BY <2>1, <2>2, BoundsNat
  <2> QED
    BY <2>4, <2>5, <2>6, <2>7
<1>7. ASSUME NEW id \in TicketId, CancelMatch(id) PROVE TicketInv'
  <2>1. PICK t \in matchQueue : /\ matchQueue' = matchQueue \ {t}
                                /\ playerTickets' = [playerTickets EXCEPT ![t.player] = 0]
    BY <1>7 DEF CancelMatch
  <2>2. \A q \in Player : playerTickets'[q] = IF q \in PlayersOf({t}) THEN 0 ELSE playerTickets[q]
    BY <2>1 DEF PlayersOf, Typed
  <2>3. playerTickets' = [q \in Player |-> IF q \in PlayersOf({t}) THEN 0 ELSE playerTickets[q]]
    BY <2>1, <2>2 DEF Typed
  <2>4. DropTickets({t})
    BY <2>1, <2>3 DEF DropTickets
  <2> QED
    BY <1>7, <2>4, DropKeepsTickets DEF CancelMatch
<1>8. ASSUME NEW p \in Player, CancelMatchByPlayer(p) PROVE TicketInv'
  BY <1>8, RemoveKeepsTickets DEF CancelMatchByPlayer
<1>9. ASSUME NEW expired \in SUBSET matchQueue, TickExpire(expired) PROVE TicketInv'
  BY <1>9, DropKeepsTickets DEF TickExpire
<1>10. ASSUME NEW seed \in matchQueue, NEW group \in SUBSET matchQueue, MatchGroup(seed, group)
       PROVE  TicketInv'
  BY <1>10, DropKeepsTickets DEF MatchGroup
<1>11. ASSUME NEW seed \in matchQueue, NEW group \in SUBSET matchQueue, LoseGroup(seed, group)
       PROVE  TicketInv'
  BY <1>11, DropKeepsTickets DEF LoseGroup
<1>12. CASE TickDone
  BY <1>0, <1>12 DEF TickDone
<1>13. CASE UNCHANGED vars
  BY <1>0, <1>13 DEF vars
<1> HIDE DEF SameTickets
<1> QED
  BY <1>0, <1>1, <1>2, <1>3, <1>4, <1>5, <1>6, <1>7, <1>8, <1>9, <1>10, <1>11, <1>12, <1>13
  DEF Next

\* Whatever the callers do, match_queue_ and player_tickets_ hold the same tickets and a player
\* holds at most one: the inductive invariant adds that ids are fresh and name one ticket.
THEOREM TicketsIndexed == Spec => []TicketIndexMatchesQueue
<1>1. Typed /\ TicketInv /\ [Next]_vars => Typed' /\ TicketInv'
  BY TypeStep, TicketStep
<1>2. TicketInv => TicketIndexMatchesQueue
  BY DEF TicketInv
<1> QED
  BY TypeInit, TicketInit, <1>1, <1>2, PTL DEF Spec

------------------------------------------------------------------------------
(* Ready flags and the ids given out *)

IdInv == ReadyAreMembers /\ RoomIdsIssued

\* A step that replaces one room by one with the same or a fresh id.
LEMMA OneRoomKeepsIds ==
    ASSUME Typed, IdInv, NEW r \in RoomId, NEW room,
           rooms' = [rooms EXCEPT ![r] = room],
           room.ready \subseteq room.members, room.state # "absent",
           \/ Exists(r) /\ nextRoomId' = nextRoomId
           \/ r = nextRoomId /\ nextRoomId' = nextRoomId + 1
    PROVE  IdInv'
<1>1. rooms'[r] = room /\ \A s \in RoomId \ {r} : rooms'[s] = rooms[s]
  BY DEF Typed
<1>2. ReadyAreMembers'
  BY <1>1 DEF IdInv, ReadyAreMembers
<1>3. nextRoomId \in Nat /\ RoomId \subseteq Nat
  BY BoundsNat DEF Typed, RoomId
<1>4. \A s \in RoomId : s < nextRoomId' <=> s < nextRoomId \/ s = r
  BY <1>3 DEF IdInv, RoomIdsIssued
<1>5. RoomIdsIssued'
  BY <1>1, <1>4 DEF IdInv, RoomIdsIssued, Exists
<1> QED
  BY <1>2, <1>5 DEF IdInv

LEMMA UpdatedIds ==
    ASSUME NEW room \in Room, room.state # "absent"
    PROVE  /\ Updated(room).ready = room.ready /\ Updated(room).members = room.members
           /\ Updated(room).state # "absent"
BY UpdatedType DEF Room, UpdatedState

LEMMA IdStep == Typed /\ IdInv /\ [Next]_vars => IdInv'
<1> SUFFICES ASSUME Typed, IdInv, [Next]_vars PROVE IdInv'
  OBVIOUS
<1>0. ASSUME UNCHANGED <<nextRoomId, rooms>> PROVE IdInv'
  BY <1>0 DEF IdInv, ReadyAreMembers, RoomIdsIssued, Exists
<1>1. ASSUME NEW p \in Player, NEW m \in Mode, NEW n \in RoomSize, NEW a \in BOOLEAN,
             CreateRoom(p, m, n, a)
      PROVE  IdInv'
  <2>1. nextRoomId \in RoomId
    BY <1>1, BoundsNat DEF CreateRoom, Typed, RoomId
  <2>2. NewRoom(p, m, n, a).ready \subseteq NewRoom(p, m, n, a).members
    BY NewRoomReady
  <2> QED
    BY <1>1, <2>1, <2>2, NewRoomType, OneRoomKeepsIds DEF CreateRoom
<1>2. ASSUME NEW r \in RoomId, NEW p \in Player, JoinRoom(r, p) PROVE IdInv'
  <2> DEFINE joined == [rooms[r] EXCEPT !.members = @ \cup {p}]
  <2>1. joined \in Room /\ joined.ready \subseteq joined.members /\ joined.state # "absent"
    BY <1>2 DEF Typed, Room, IdInv, ReadyAreMembers, JoinRoom, IsActive
  <2>2. rooms' = [rooms EXCEPT ![r] = Updated(joined)] /\ UNCHANGED nextRoomId /\ Exists(r)
    BY <1>2 DEF JoinRoom, Join, IsActive, Exists
  <2> HIDE DEF joined
  <2> QED
    BY <2>1, <2>2, UpdatedIds, OneRoomKeepsIds
<1>3. ASSUME NEW r \in RoomId, NEW p \in Player, LeaveRoom(r, p) PROVE IdInv'
  <2> DEFINE left == [rooms[r] EXCEPT !.members = @ \ {p}, !.ready = @ \ {p}]
  <2>1. left \in Room /\ left.ready \subseteq left.members /\ left.state # "absent"
    BY <1>3 DEF Typed, Room, IdInv, ReadyAreMembers, LeaveRoom, Exists
  <2>2. rooms' = [rooms EXCEPT ![r] = Updated(left)] /\ UNCHANGED nextRoomId /\ Exists(r)
    BY <1>3 DEF LeaveRoom
  <2> HIDE DEF left
  <2> QED
    BY <2>1, <2>2, UpdatedIds, OneRoomKeepsIds
<1>4. ASSUME NEW r \in RoomId, CloseRoom(r) PROVE IdInv'
  <2> DEFINE closed == [rooms[r] EXCEPT !.state = "closed"]
  <2>1. closed.ready \subseteq closed.members /\ closed.state # "absent"
    BY DEF Typed, Room, IdInv, ReadyAreMembers
  <2>2. rooms' = [rooms EXCEPT ![r] = closed] /\ UNCHANGED nextRoomId /\ Exists(r)
    BY <1>4 DEF CloseRoom
  <2> HIDE DEF closed
  <2> QED
    BY <2>1, <2>2, OneRoomKeepsIds
<1>5. ASSUME NEW r \in RoomId, NEW p \in Player, NEW b \in BOOLEAN, SetReady(r, p, b)
      PROVE  IdInv'
  <2> DEFINE marked == [rooms[r] EXCEPT !.ready = IF b THEN @ \cup {p} ELSE @ \ {p}]
  <2>1. marked.ready \subseteq marked.members /\ marked.state # "absent"
    BY <1>5 DEF Typed, Room, IdInv, ReadyAreMembers, SetReady, IsActive
  <2>2. rooms' = [rooms EXCEPT ![r] = marked] /\ UNCHANGED nextRoomId /\ Exists(r)
    BY <1>5 DEF SetReady, IsActive, Exists
  <2> HIDE DEF marked
  <2> QED
    BY <2>1, <2>2, OneRoomKeepsIds
<1>6. ASSUME NEW seed \in matchQueue, NEW group \in SUBSET matchQueue, MatchGroup(seed, group)
      PROVE  IdInv'
  <2> DEFINE room == NewRoom(seed.player, seed.mode, seed.size, TRUE)
             full == [room EXCEPT !.members = @ \cup PlayersOf(group)]
  <2>0. /\ seed.player \in Player /\ seed.mode \in Mode /\ seed.size \in RoomSize
        /\ PlayersOf(group) \subseteq Player
    BY DEF Typed, Ticket, PlayersOf
  <2>1. /\ room \in Room /\ room.state \in {"waiting", "playing"}
        /\ room.ready \subseteq room.members
    BY <2>0, NewRoomType, NewRoomReady
  <2>2. /\ rooms' = [rooms EXCEPT ![nextRoomId] = Updated(full)]
        /\ nextRoomId' = nextRoomId + 1 /\ nextRoomId \in RoomId
    BY <1>6, BoundsNat DEF MatchGroup, Typed, RoomId
  <2> HIDE DEF room
  <2>3. full \in Room /\ full.ready \subseteq full.members /\ full.state # "absent"
    BY <2>0, <2>1 DEF Room
  <2> HIDE DEF full
  <2> QED
    BY <2>2, <2>3, UpdatedIds, OneRoomKeepsIds
<1>7. ASSUME NEW p \in Player, NEW m \in Mode, NEW n \in RoomSize, EnqueueMatch(p, m, n)
      PROVE  IdInv'
  BY <1>0, <1>7 DEF EnqueueMatch
<1>8. ASSUME NEW id \in TicketId, CancelMatch(id) PROVE IdInv'
  BY <1>0, <1>8 DEF CancelMatch
<1>9. ASSUME NEW p \in Player, CancelMatchByPlayer(p) PROVE IdInv'
  BY <1>0, <1>9 DEF CancelMatchByPlayer
<1>10. ASSUME NEW expired \in SUBSET matchQueue, TickExpire(expired) PROVE IdInv'
  BY <1>0, <1>10 DEF TickExpire
<1>11. ASSUME NEW seed \in matchQueue, NEW group \in SUBSET matchQueue, LoseGroup(seed, group)
       PROVE  IdInv'
  BY <1>0, <1>11 DEF LoseGroup
<1>12. CASE TickDone
  BY <1>0, <1>12 DEF TickDone
<1>13. CASE UNCHANGED vars
  BY <1>0, <1>13 DEF vars
<1> QED
  BY <1>1, <1>2, <1>3, <1>4, <1>5, <1>6, <1>7, <1>8, <1>9, <1>10, <1>11, <1>12, <1>13
  DEF Next

LEMMA IdInit == Init => IdInv
<1> SUFFICES ASSUME Init PROVE IdInv
  OBVIOUS
<1>1. \A r \in RoomId : rooms[r] = Absent /\ ~(r < nextRoomId)
  BY BoundsNat DEF Init, RoomId
<1>2. Absent.state = "absent" /\ Absent.ready = {}
  BY DEF Absent
<1> QED
  BY <1>1, <1>2 DEF IdInv, ReadyAreMembers, RoomIdsIssued, Exists

\* The ids of queued tickets are those of the index, which are issued.
LEMMA TicketIds == Typed /\ TicketInv => TicketIdsIssued
BY DEF Typed, TicketInv, TicketIndexMatchesQueue, IssuedTickets, TicketIdsIssued, Ticket

\* Every reachable state is well typed: members and ready flags are players, and only members
\* are ready; tickets carry a mode and a positive size; the rooms are exactly the ids given
\* out, and every ticket and index entry carries an id given out.
THEOREM TypeCorrect == Spec => []TypeOK
<1>1. Typed /\ TicketInv /\ IdInv /\ [Next]_vars => Typed' /\ TicketInv' /\ IdInv'
  BY TypeStep, TicketStep, IdStep
<1>2. Typed /\ TicketInv /\ IdInv => TypeOK
  BY TicketIds DEF IdInv, TypeOK
<1> QED
  BY TypeInit, TicketInit, IdInit, <1>1, <1>2, PTL DEF Spec

------------------------------------------------------------------------------
(* Where the players are, until leaveRoom brings a closed room back *)

\* The members that findActiveRoomIdByPlayerLocked sees in a room.
Seated(r) == IF IsActive(r) THEN rooms[r].members ELSE {}

PlacementInv == OneRoomEach /\ QueueIsRoomless

LEMMA PlacementInit == Init => PlacementInv
BY DEF Init, PlacementInv, OneRoomEach, QueueIsRoomless, IsActive, Absent

\* A step that seats nobody and queues nobody keeps the players apart.
LEMMA ShrinkKeepsPlacement ==
    ASSUME PlacementInv, matchQueue' \subseteq matchQueue,
           \A r \in RoomId : Seated(r)' \subseteq Seated(r)
    PROVE  PlacementInv'
BY DEF PlacementInv, OneRoomEach, QueueIsRoomless, InActiveRoom, Seated

\* So does a step that seats roomless players in one room and takes them off the queue.
LEMMA SeatKeepsPlacement ==
    ASSUME Typed, PlacementInv, NEW k \in RoomId, NEW players \in SUBSET Player,
           \A p \in players : ~InActiveRoom(p),
           matchQueue' \subseteq matchQueue,
           \A t \in matchQueue' : t.player \notin players,
           \A r \in RoomId \ {k} : Seated(r)' = Seated(r),
           Seated(k)' \subseteq Seated(k) \cup players
    PROVE  PlacementInv'
<1>1. \A p \in Player : InActiveRoom(p) <=> \E r \in RoomId : p \in Seated(r)
  BY DEF InActiveRoom, Seated
<1>2. \A p \in Player : InActiveRoom(p)' <=> \E r \in RoomId : p \in Seated(r)'
  BY DEF InActiveRoom, Seated
<1>3. \A p \in Player, r, s \in RoomId : p \in Seated(r) /\ p \in Seated(s) => r = s
  BY DEF PlacementInv, OneRoomEach, Seated
<1>4. ASSUME NEW p \in Player, NEW r \in RoomId, NEW s \in RoomId,
             p \in Seated(r)', p \in Seated(s)'
      PROVE  r = s
  <2>1. CASE p \in players
    BY <1>1, <1>4, <2>1
  <2>2. CASE p \notin players
    BY <1>3, <1>4, <2>2
  <2> QED
    BY <2>1, <2>2
<1>5. OneRoomEach'
  BY <1>4 DEF OneRoomEach, Seated
<1>6. ASSUME NEW t \in matchQueue' PROVE ~InActiveRoom(t.player)'
  <2>1. t \in matchQueue /\ t.player \in Player /\ t.player \notin players
    BY DEF Typed, Ticket
  <2>2. \A r \in RoomId : t.player \notin Seated(r)
    BY <1>1, <2>1 DEF PlacementInv, QueueIsRoomless
  <2> QED
    BY <1>2, <2>1, <2>2
<1>7. QueueIsRoomless'
  BY <1>6 DEF QueueIsRoomless, InActiveRoom, IsActive
<1> QED
  BY <1>5, <1>7 DEF PlacementInv

LEMMA PlacementStep ==
    ASSUME Typed, TicketInv, PlacementInv, [Next]_vars, ~reopened'
    PROVE  PlacementInv'
<1>1. ASSUME NEW p \in Player, RemovePlayerTicket(p)
      PROVE  matchQueue' \subseteq matchQueue /\ \A t \in matchQueue' : t.player # p
  BY <1>1 DEF RemovePlayerTicket, TicketInv, TicketIndexMatchesQueue
<1>2. ASSUME UNCHANGED rooms, matchQueue' \subseteq matchQueue PROVE PlacementInv'
  <2>1. \A r \in RoomId : Seated(r)' = Seated(r)
    BY <1>2 DEF Seated, IsActive
  <2> QED
    BY <1>2, <2>1, ShrinkKeepsPlacement
<1>3. ASSUME NEW p \in Player, NEW m \in Mode, NEW n \in RoomSize, NEW a \in BOOLEAN,
             CreateRoom(p, m, n, a)
      PROVE  PlacementInv'
  <2> PICK k \in RoomId : k = nextRoomId
    BY <1>3, BoundsNat DEF CreateRoom, Typed, RoomId
  <2>1. rooms' = [rooms EXCEPT ![k] = NewRoom(p, m, n, a)]
    BY <1>3 DEF CreateRoom
  <2>2. \A r \in RoomId \ {k} : Seated(r)' = Seated(r)
    BY <2>1 DEF Typed, Seated, IsActive
  <2>3. Seated(k)' \subseteq {p}
    BY <2>1, NewRoomType DEF Typed, Seated
  <2>4. matchQueue' \subseteq matchQueue /\ \A t \in matchQueue' : t.player # p
    BY <1>1, <1>3 DEF CreateRoom
  <2>5. ~InActiveRoom(p)
    BY <1>3 DEF CreateRoom
  <2> DEFINE players == {p}
  <2>6. players \in SUBSET Player /\ \A q \in players : ~InActiveRoom(q)
    BY <2>5
  <2>7. \A t \in matchQueue' : t.player \notin players
    BY <2>4
  <2>8. Seated(k)' \subseteq Seated(k) \cup players
    BY <2>3
  <2> HIDE DEF players
  <2> QED
    BY <2>1, <2>2, <2>4, <2>6, <2>7, <2>8, SeatKeepsPlacement
<1>4. ASSUME NEW k \in RoomId, NEW p \in Player, JoinRoom(k, p) PROVE PlacementInv'
  <2> DEFINE joined == [rooms[k] EXCEPT !.members = @ \cup {p}]
             players == {p}
  <2>1. joined \in Room /\ joined.members = rooms[k].members \cup {p}
    BY DEF Typed, Room
  <2>2. rooms' = [rooms EXCEPT ![k] = Updated(joined)] /\ IsActive(k)
    BY <1>4 DEF JoinRoom, Join
  <2> HIDE DEF joined
  <2>3. Updated(joined).members = rooms[k].members \cup {p}
    BY <2>1, UpdatedType DEF Room
  <2>4. \A r \in RoomId \ {k} : Seated(r)' = Seated(r)
    BY <2>2 DEF Typed, Seated, IsActive
  <2>5. Seated(k)' \subseteq Seated(k) \cup players
    BY <2>2, <2>3 DEF Typed, Seated
  <2>6. matchQueue' \subseteq matchQueue /\ \A t \in matchQueue' : t.player \notin players
    BY <1>1, <1>4 DEF JoinRoom, Join
  <2>7. players \in SUBSET Player /\ \A q \in players : ~InActiveRoom(q)
    BY <1>4 DEF JoinRoom, Join
  <2> HIDE DEF players
  <2> QED
    BY <2>4, <2>5, <2>6, <2>7, SeatKeepsPlacement
<1>5. ASSUME NEW k \in RoomId, NEW p \in Player, LeaveRoom(k, p) PROVE PlacementInv'
  <2> DEFINE left == [rooms[k] EXCEPT !.members = @ \ {p}, !.ready = @ \ {p}]
  <2>1. left \in Room /\ left.members = rooms[k].members \ {p}
    BY DEF Typed, Room
  <2>2. rooms' = [rooms EXCEPT ![k] = Updated(left)]
    BY <1>5 DEF LeaveRoom
  <2>3. IsActive(k) \/ rooms[k].members = {p}
    BY <1>5 DEF LeaveRoom, Exists, IsActive, Typed, Room, RoomState
  <2> HIDE DEF left
  <2>4. Updated(left).members = rooms[k].members \ {p}
    BY <2>1, UpdatedType DEF Room
  <2>5. \A r \in RoomId : Seated(r)' \subseteq Seated(r)
    BY <2>2, <2>3, <2>4 DEF Typed, Seated, IsActive
  <2> QED
    BY <1>5, <2>5, ShrinkKeepsPlacement DEF LeaveRoom
<1>6. ASSUME NEW k \in RoomId, CloseRoom(k) PROVE PlacementInv'
  <2>1. \A r \in RoomId : Seated(r)' \subseteq Seated(r)
    BY <1>6 DEF CloseRoom, Seated, IsActive, Typed, Room
  <2> QED
    BY <1>6, <2>1, ShrinkKeepsPlacement DEF CloseRoom
<1>7. ASSUME NEW k \in RoomId, NEW p \in Player, NEW b \in BOOLEAN, SetReady(k, p, b)
      PROVE  PlacementInv'
  <2>1. \A r \in RoomId : Seated(r)' \subseteq Seated(r)
    BY <1>7 DEF SetReady, Seated, IsActive, Typed, Room
  <2> QED
    BY <1>7, <2>1, ShrinkKeepsPlacement DEF SetReady
<1>8. ASSUME NEW p \in Player, NEW m \in Mode, NEW n \in RoomSize, EnqueueMatch(p, m, n)
      PROVE  PlacementInv'
  <2>1. ~InActiveRoom(p) /\ UNCHANGED rooms
    BY <1>8 DEF EnqueueMatch
  <2>2. \A t \in matchQueue' : t \in matchQueue \/ t.player = p
    BY <1>8 DEF EnqueueMatch
  <2>3. \A q : InActiveRoom(q)' <=> InActiveRoom(q)
    BY <2>1 DEF InActiveRoom, IsActive
  <2>4. OneRoomEach'
    BY <2>1 DEF PlacementInv, OneRoomEach, IsActive
  <2>5. \A t \in matchQueue' : ~InActiveRoom(t.player)
    BY <2>1, <2>2 DEF PlacementInv, QueueIsRoomless
  <2>6. QueueIsRoomless'
    BY <2>1, <2>5 DEF QueueIsRoomless, InActiveRoom, IsActive
  <2> QED
    BY <2>4, <2>6 DEF PlacementInv
<1>9. ASSUME NEW id \in TicketId, CancelMatch(id) PROVE PlacementInv'
  BY <1>2, <1>9 DEF CancelMatch
<1>10. ASSUME NEW p \in Player, CancelMatchByPlayer(p) PROVE PlacementInv'
  BY <1>1, <1>2, <1>10 DEF CancelMatchByPlayer
<1>11. ASSUME NEW expired \in SUBSET matchQueue, TickExpire(expired) PROVE PlacementInv'
  BY <1>2, <1>11 DEF TickExpire, DropTickets
<1>12. ASSUME NEW seed \in matchQueue, NEW group \in SUBSET matchQueue, MatchGroup(seed, group)
       PROVE  PlacementInv'
  <2> DEFINE fresh == NewRoom(seed.player, seed.mode, seed.size, TRUE)
             full == [fresh EXCEPT !.members = @ \cup PlayersOf(group)]
             players == PlayersOf(group)
  <2>1. fresh \in Room /\ fresh.members = {seed.player}
    BY NewRoomType DEF Typed, Ticket
  <2>2. players \in SUBSET Player /\ seed.player \in players
    BY <1>12 DEF PlayersOf, Ticket, Typed, MatchGroup, IsMatchGroup
  <2>3. \A q \in players : ~InActiveRoom(q)
    BY DEF PlayersOf, PlacementInv, QueueIsRoomless
  <2> PICK k \in RoomId : k = nextRoomId
    BY <1>12, BoundsNat DEF MatchGroup, Typed, RoomId
  <2>4. rooms' = [rooms EXCEPT ![k] = Updated(full)]
    BY <1>12 DEF MatchGroup
  <2>5. matchQueue' = matchQueue \ group
    BY <1>12 DEF MatchGroup, DropTickets
  <2>6. \A t \in matchQueue' : t.player \notin players
    <3> SUFFICES ASSUME NEW t \in matchQueue', NEW u \in group, t.player = u.player
                 PROVE  FALSE
      BY DEF PlayersOf
    <3>1. t.id = u.id
      BY <2>5 DEF TicketInv, TicketIndexMatchesQueue
    <3> QED
      BY <2>5, <3>1 DEF TicketInv, IssuedTickets
  <2> HIDE DEF fresh, players
  <2>7. full \in Room /\ full.members = {seed.player} \cup players
    BY <2>1, <2>2 DEF Room, players
  <2> HIDE DEF full
  <2>8. Updated(full).members = players
    BY <2>2, <2>7, UpdatedType DEF Room
  <2>9. \A r \in RoomId \ {k} : Seated(r)' = Seated(r)
    BY <2>4 DEF Typed, Seated, IsActive
  <2>10. Seated(k)' \subseteq Seated(k) \cup players
    BY <2>4, <2>8 DEF Typed, Seated
  <2> QED
    BY <2>2, <2>3, <2>4, <2>5, <2>6, <2>9, <2>10, SeatKeepsPlacement
<1>13. ASSUME NEW seed \in matchQueue, NEW group \in SUBSET matchQueue, LoseGroup(seed, group)
       PROVE  PlacementInv'
  BY <1>2, <1>13 DEF LoseGroup, DropTickets
<1>14. CASE TickDone
  BY <1>2, <1>14 DEF TickDone
<1>15. CASE UNCHANGED vars
  BY <1>2, <1>15 DEF vars
<1> QED
  BY <1>3, <1>4, <1>5, <1>6, <1>7, <1>8, <1>9, <1>10, <1>11, <1>12, <1>13, <1>14, <1>15
  DEF Next

\* A closed room that came back stays on record.
LEMMA ReopenedStays ==
    ASSUME Typed, [Next]_vars, ~reopened' PROVE ~reopened
BY DEF Next, vars, Typed, CreateRoom, JoinRoom, LeaveRoom, CloseRoom, SetReady, EnqueueMatch,
       CancelMatch, CancelMatchByPlayer, TickExpire, MatchGroup, LoseGroup, TickDone

\* Everything that is inductive together.
Inv == Typed /\ TicketInv /\ (~reopened => PlacementInv)

LEMMA InvHolds == Spec => []Inv
<1>1. Init => Inv
  BY TypeInit, TicketInit, PlacementInit DEF Inv
<1>2. Inv /\ [Next]_vars => Inv'
  <2> SUFFICES ASSUME Inv, [Next]_vars PROVE Inv'
    OBVIOUS
  <2>1. Typed' /\ TicketInv'
    BY TypeStep, TicketStep DEF Inv
  <2>2. ASSUME ~reopened' PROVE PlacementInv'
    BY <2>2, ReopenedStays, PlacementStep DEF Inv
  <2> QED
    BY <2>1, <2>2 DEF Inv
<1> QED
  BY <1>1, <1>2, PTL DEF Spec

\* Until leaveRoom brings a closed room back, no sequence of calls ever puts a player in two
\* rooms that are not closed, or in one and in the match queue, so that createRoomLocked never
\* refuses the host of a matched group.
THEOREM OnePlacePerPlayer == Spec => []OnePlaceEach
<1>1. Inv => OnePlaceEach
  BY DEF Inv, PlacementInv, OnePlaceEach
<1> QED
  BY InvHolds, <1>1, PTL

\* Until then tick() loses nobody after its expiry pass: a ticket only leaves the queue when
\* its player gets a seat in an open room.
THEOREM MatchedAreSeated == Spec => MatchingLosesNobody
<1>1. Inv /\ [Next]_vars => [~reopened => LoopSeatsWhoItTakes]_vars
  <2> SUFFICES ASSUME Inv, [Next]_vars, ~reopened, tickHoldsLock,
                      NEW t \in matchQueue, t \notin matchQueue'
               PROVE  \E r \in RoomId : IsActive(r)' /\ t.player \in rooms'[r].members
    BY DEF LoopSeatsWhoItTakes
  <2>1. PICK seed \in matchQueue, group \in SUBSET matchQueue :
            MatchGroup(seed, group) \/ LoseGroup(seed, group)
    BY DEF Next, vars, CreateRoom, JoinRoom, LeaveRoom, CloseRoom, SetReady, EnqueueMatch,
           CancelMatch, CancelMatchByPlayer, TickExpire, TickDone
  <2>2. ~LoseGroup(seed, group)
    BY DEF Inv, PlacementInv, QueueIsRoomless, LoseGroup
  <2>3. MatchGroup(seed, group)
    BY <2>1, <2>2
  <2> DEFINE fresh == NewRoom(seed.player, seed.mode, seed.size, TRUE)
             full == [fresh EXCEPT !.members = @ \cup PlayersOf(group)]
  <2>4. fresh \in Room /\ PlayersOf(group) \in SUBSET Player
    <3>1. matchQueue \subseteq Ticket
      BY DEF Inv, Typed
    <3>2. seed.player \in Player /\ seed.mode \in Mode /\ seed.size \in RoomSize
      BY <3>1 DEF Ticket
    <3>3. fresh \in Room
      BY <3>2, NewRoomType
    <3>4. PlayersOf(group) \in SUBSET Player
      BY <3>1 DEF PlayersOf, Ticket
    <3> QED
      BY <3>3, <3>4
  <2>5. t.player \in PlayersOf(group)
    BY <2>3 DEF MatchGroup, DropTickets, PlayersOf
  <2> PICK k \in RoomId : k = nextRoomId
    BY <2>3, BoundsNat DEF MatchGroup, Inv, Typed, RoomId
  <2>6. rooms' = [rooms EXCEPT ![k] = Updated(full)]
    BY <2>3 DEF MatchGroup
  <2> HIDE DEF fresh
  <2>7. full \in Room /\ t.player \in full.members
    BY <2>4, <2>5 DEF Room
  <2> HIDE DEF full
  <2>8. Updated(full) \in Room /\ t.player \in Updated(full).members
    BY <2>7, UpdatedType DEF Room
  <2>9. UpdatedState(full) \in {"waiting", "playing"}
    BY <2>7 DEF UpdatedState, Room, RoomState
  <2>10. Updated(full).state \in {"waiting", "playing"}
    BY <2>7, <2>9, UpdatedType DEF Room
  <2>11. IsActive(k)' /\ t.player \in rooms'[k].members
    BY <2>6, <2>8, <2>10 DEF IsActive, Inv, Typed
  <2> QED
    BY <2>11
<1> QED
  BY InvHolds, <1>1, PTL DEF Spec, MatchingLosesNobody

------------------------------------------------------------------------------
(* How full rooms are *)

\* No room, open or closed, has more members than max_players: leaveRoom may put a closed one
\* back, so that ActiveRoomsAreWellFilled is not inductive without the closed ones.
SizeKept(room) == Cardinality(room.members) <= room.maxPlayers

WellFilled(room) ==
    room.state \in {"waiting", "playing"} =>
        /\ room.members # {}
        /\ room.autoStart /\ Cardinality(room.members) = room.maxPlayers => room.state = "playing"

\* Ids that next_room_id_ has not reached are not in rooms_.
RoomsAreFresh == \A r \in RoomId : r >= nextRoomId => rooms[r].state = "absent"

RoomInv == RoomsAreFresh /\ \A r \in RoomId : SizeKept(rooms[r]) /\ WellFilled(rooms[r])

LEMMA RoomInit == Init => RoomInv
BY FS_EmptySet DEF Init, RoomInv, RoomsAreFresh, SizeKept, WellFilled, Absent

\* A room that is not too full is left well filled by updateRoomStateLocked.
LEMMA UpdatedIsWellFilled ==
    ASSUME NEW room \in Room, SizeKept(room)
    PROVE  SizeKept(Updated(room)) /\ WellFilled(Updated(room))
<1>1. /\ Updated(room).members = room.members /\ Updated(room).maxPlayers = room.maxPlayers
      /\ Updated(room).autoStart = room.autoStart /\ Updated(room).state = UpdatedState(room)
  BY UpdatedType DEF Room, RoomState
<1>2. Cardinality(room.members) = room.maxPlayers => Cardinality(room.members) >= room.maxPlayers
  BY BoundsNat DEF Room, RoomSize
<1> QED
  BY <1>1, <1>2 DEF SizeKept, WellFilled, UpdatedState

\* The room of one host has room for it.
LEMMA NewRoomIsWellFilled ==
    ASSUME NEW host \in Player, NEW mode \in Mode, NEW size \in RoomSize, NEW auto \in BOOLEAN
    PROVE  /\ NewRoom(host, mode, size, auto).maxPlayers = size
           /\ SizeKept(NewRoom(host, mode, size, auto))
           /\ WellFilled(NewRoom(host, mode, size, auto))
<1> DEFINE fresh == [mode |-> mode, state |-> "waiting", maxPlayers |-> size,
                     autoStart |-> auto, members |-> {host}, ready |-> {}]
<1>1. fresh \in Room /\ fresh.members = {host} /\ fresh.maxPlayers = size
  BY DEF Room, RoomState
<1>2. SizeKept(fresh)
  <2>1. Cardinality({host}) = 1
    BY FS_Singleton
  <2>2. 1 <= size
    BY BoundsNat DEF RoomSize
  <2> QED
    BY <1>1, <2>1, <2>2 DEF SizeKept
<1>3. NewRoom(host, mode, size, auto) = Updated(fresh)
  BY DEF NewRoom
<1> HIDE DEF fresh
<1>4. Updated(fresh).maxPlayers = fresh.maxPlayers
  BY <1>1, UpdatedType DEF Room
<1> QED
  BY <1>1, <1>2, <1>3, <1>4, UpdatedIsWellFilled

\* The tickets in the queue are finitely many, and so many players at most.
LEMMA GroupsAreFinite ==
    ASSUME Typed, TicketInv, NEW group \in SUBSET matchQueue
    PROVE  /\ IsFiniteSet(group)
           /\ Cardinality(PlayersOf(group)) <= Cardinality(group)
<1> DEFINE id == [t \in group |-> t.id]
           player == [t \in group |-> t.player]
<1>1. id \in Injection(group, TicketId)
  BY DEF Typed, TicketInv, IssuedTickets, Ticket, Injection, IsInjective
<1>2. IsFiniteSet(TicketId)
  BY FS_Interval, BoundsNat DEF TicketId
<1>3. player \in Surjection(group, PlayersOf(group))
  BY DEF PlayersOf, Surjection
<1> QED
  BY <1>1, <1>2, <1>3, FS_Injection, FS_Surjection

\* A step that writes one room.
LEMMA OneRoomWritten ==
    ASSUME Typed, RoomInv, NEW k \in RoomId, NEW room, rooms' = [rooms EXCEPT ![k] = room],
           SizeKept(room), WellFilled(room),
           \/ Exists(k) /\ UNCHANGED nextRoomId
           \/ k = nextRoomId /\ nextRoomId' = nextRoomId + 1
    PROVE  RoomInv'
<1>1. rooms'[k] = room /\ \A r \in RoomId \ {k} : rooms'[r] = rooms[r]
  BY DEF Typed
<1>2. \A r \in RoomId : SizeKept(rooms'[r]) /\ WellFilled(rooms'[r])
  BY <1>1 DEF RoomInv
<1>3. RoomsAreFresh'
  BY <1>1, BoundsNat DEF RoomInv, RoomsAreFresh, Exists, Typed, RoomId
<1> QED
  BY <1>2, <1>3 DEF RoomInv, SizeKept, WellFilled

LEMMA RoomStep == Typed /\ TicketInv /\ RoomInv /\ [Next]_vars => RoomInv'
<1> SUFFICES ASSUME Typed, TicketInv, RoomInv, [Next]_vars PROVE RoomInv'
  OBVIOUS
<1>0. ASSUME UNCHANGED <<rooms, nextRoomId>> PROVE RoomInv'
  BY <1>0 DEF RoomInv, RoomsAreFresh, SizeKept, WellFilled
<1>1. ASSUME NEW p \in Player, NEW m \in Mode, NEW n \in RoomSize, NEW a \in BOOLEAN,
             CreateRoom(p, m, n, a)
      PROVE  RoomInv'
  <2> PICK k \in RoomId : k = nextRoomId
    BY <1>1, BoundsNat DEF CreateRoom, Typed, RoomId
  <2>1. rooms' = [rooms EXCEPT ![k] = NewRoom(p, m, n, a)] /\ nextRoomId' = nextRoomId + 1
    BY <1>1 DEF CreateRoom
  <2> QED
    BY <2>1, NewRoomIsWellFilled, OneRoomWritten
<1>2. ASSUME NEW k \in RoomId, NEW p \in Player, JoinRoom(k, p) PROVE RoomInv'
  <2> DEFINE joined == [rooms[k] EXCEPT !.members = @ \cup {p}]
  <2>1. /\ joined \in Room /\ joined.members = rooms[k].members \cup {p}
        /\ joined.maxPlayers = rooms[k].maxPlayers
    BY DEF Typed, Room
  <2>2. /\ rooms' = [rooms EXCEPT ![k] = Updated(joined)] /\ IsActive(k)
        /\ p \notin rooms[k].members /\ Cardinality(rooms[k].members) < rooms[k].maxPlayers
        /\ nextRoomId' = nextRoomId
    BY <1>2 DEF JoinRoom, Join
  <2> HIDE DEF joined
  <2>3. /\ IsFiniteSet(rooms[k].members) /\ Cardinality(rooms[k].members) \in Nat
        /\ rooms[k].maxPlayers \in Nat
    BY PlayerFinite, BoundsNat, FS_Subset, FS_CardinalityType DEF Typed, Room, RoomSize
  <2>4. SizeKept(joined)
    <3>1. Cardinality(rooms[k].members \cup {p}) = Cardinality(rooms[k].members) + 1
      BY <2>2, <2>3, FS_AddElement
    <3> QED
      BY <2>1, <2>2, <2>3, <3>1 DEF SizeKept
  <2>5. Exists(k)
    BY <2>2 DEF Exists, IsActive
  <2>6. SizeKept(Updated(joined)) /\ WellFilled(Updated(joined))
    BY <2>1, <2>4, UpdatedIsWellFilled
  <2> QED
    BY <2>2, <2>5, <2>6, OneRoomWritten
<1>3. ASSUME NEW k \in RoomId, NEW p \in Player, LeaveRoom(k, p) PROVE RoomInv'
  <2> DEFINE left == [rooms[k] EXCEPT !.members = @ \ {p}, !.ready = @ \ {p}]
  <2>1. /\ left \in Room /\ left.members = rooms[k].members \ {p}
        /\ left.maxPlayers = rooms[k].maxPlayers
    BY DEF Typed, Room
  <2>2. /\ rooms' = [rooms EXCEPT ![k] = Updated(left)] /\ Exists(k)
        /\ nextRoomId' = nextRoomId
    BY <1>3 DEF LeaveRoom
  <2> HIDE DEF left
  <2>3. /\ IsFiniteSet(rooms[k].members) /\ Cardinality(rooms[k].members) \in Nat
        /\ rooms[k].maxPlayers \in Nat
    BY PlayerFinite, BoundsNat, FS_Subset, FS_CardinalityType DEF Typed, Room, RoomSize
  <2>4. Cardinality(left.members) <= Cardinality(rooms[k].members)
        /\ Cardinality(left.members) \in Nat
    BY <2>1, <2>3, FS_Subset, FS_CardinalityType
  <2>5. SizeKept(left)
    BY <2>1, <2>3, <2>4 DEF RoomInv, SizeKept
  <2>6. SizeKept(Updated(left)) /\ WellFilled(Updated(left))
    BY <2>1, <2>5, UpdatedIsWellFilled
  <2> QED
    BY <2>2, <2>6, OneRoomWritten
<1>4. ASSUME NEW k \in RoomId, CloseRoom(k) PROVE RoomInv'
  <2>1. PICK room : room = [rooms[k] EXCEPT !.state = "closed"]
    OBVIOUS
  <2>2. /\ room.members = rooms[k].members /\ room.maxPlayers = rooms[k].maxPlayers
        /\ room.state = "closed"
    BY <2>1 DEF Typed, Room
  <2>3. SizeKept(room) /\ WellFilled(room)
    BY <2>2 DEF RoomInv, SizeKept, WellFilled
  <2>4. rooms' = [rooms EXCEPT ![k] = room] /\ Exists(k) /\ nextRoomId' = nextRoomId
    BY <1>4, <2>1 DEF CloseRoom
  <2> QED
    BY <2>3, <2>4, OneRoomWritten
<1>5. ASSUME NEW k \in RoomId, NEW p \in Player, NEW b \in BOOLEAN, SetReady(k, p, b)
      PROVE  RoomInv'
  <2>1. PICK room : room = [rooms[k] EXCEPT !.ready = IF b THEN @ \cup {p} ELSE @ \ {p}]
    OBVIOUS
  <2>2. /\ room.members = rooms[k].members /\ room.maxPlayers = rooms[k].maxPlayers
        /\ room.state = rooms[k].state /\ room.autoStart = rooms[k].autoStart
    BY <2>1 DEF Typed, Room
  <2>3. SizeKept(room) /\ WellFilled(room)
    BY <2>2 DEF RoomInv, SizeKept, WellFilled
  <2>4. rooms' = [rooms EXCEPT ![k] = room] /\ nextRoomId' = nextRoomId
    BY <1>5, <2>1 DEF SetReady
  <2>5. Exists(k)
    BY <1>5 DEF SetReady, Exists, IsActive
  <2> QED
    BY <2>3, <2>4, <2>5, OneRoomWritten
<1>6. ASSUME NEW seed \in matchQueue, NEW group \in SUBSET matchQueue, MatchGroup(seed, group)
      PROVE  RoomInv'
  <2> DEFINE fresh == NewRoom(seed.player, seed.mode, seed.size, TRUE)
             full == [fresh EXCEPT !.members = @ \cup PlayersOf(group)]
  <2>1. seed.player \in Player /\ seed.mode \in Mode /\ seed.size \in RoomSize
    BY DEF Typed, Ticket
  <2>2. fresh \in Room /\ fresh.members = {seed.player} /\ fresh.maxPlayers = seed.size
    <3>1. NewRoom(seed.player, seed.mode, seed.size, TRUE) \in Room
      BY <2>1, NewRoomType
    <3>2. NewRoom(seed.player, seed.mode, seed.size, TRUE).members = {seed.player}
      BY <2>1, NewRoomType
    <3>3. NewRoom(seed.player, seed.mode, seed.size, TRUE).maxPlayers = seed.size
      BY <2>1, NewRoomIsWellFilled
    <3> QED
      BY <3>1, <3>2, <3>3
  <2>3. PlayersOf(group) \in SUBSET Player /\ seed.player \in PlayersOf(group)
    BY <1>6 DEF PlayersOf, Ticket, Typed, MatchGroup, IsMatchGroup
  <2> PICK k \in RoomId : k = nextRoomId
    BY <1>6, BoundsNat DEF MatchGroup, Typed, RoomId
  <2>4. rooms' = [rooms EXCEPT ![k] = Updated(full)] /\ nextRoomId' = nextRoomId + 1
    BY <1>6 DEF MatchGroup
  <2> HIDE DEF fresh
  <2>5. full \in Room /\ full.members = PlayersOf(group) /\ full.maxPlayers = seed.size
    BY <2>2, <2>3 DEF Room
  <2> HIDE DEF full
  <2>6. Cardinality(group) = seed.size
    BY <1>6 DEF MatchGroup, IsMatchGroup
  <2>7. SizeKept(full)
    BY <2>5, <2>6, GroupsAreFinite DEF SizeKept
  <2>8. SizeKept(Updated(full)) /\ WellFilled(Updated(full))
    BY <2>5, <2>7, UpdatedIsWellFilled
  <2> QED
    BY <2>4, <2>8, OneRoomWritten
<1>7. CASE \/ \E p \in Player, m \in Mode, n \in RoomSize : EnqueueMatch(p, m, n)
           \/ \E id \in TicketId : CancelMatch(id)
           \/ \E p \in Player : CancelMatchByPlayer(p)
           \/ \E expired \in SUBSET matchQueue : TickExpire(expired)
           \/ \E seed \in matchQueue : \E group \in SUBSET matchQueue : LoseGroup(seed, group)
           \/ TickDone \/ UNCHANGED vars
  BY <1>0, <1>7 DEF EnqueueMatch, CancelMatch, CancelMatchByPlayer, TickExpire, LoseGroup,
                    TickDone, vars
<1> QED
  BY <1>1, <1>2, <1>3, <1>4, <1>5, <1>6, <1>7 DEF Next

\* Whoever fills or empties a room, one that is not closed is neither empty nor overfull, and one
\* that starts by itself plays when it is full: also the rooms tick() makes of a group, whose
\* members it pushes without looking at max_players, and the closed ones leaveRoom puts back.
THEOREM ActiveRoomsFilled == Spec => []ActiveRoomsAreWellFilled
<1>1. RoomInv => ActiveRoomsAreWellFilled
  BY DEF RoomInv, SizeKept, WellFilled, ActiveRoomsAreWellFilled, IsActive
<1> QED
  BY <1>1, TypeInit, TypeStep, TicketInit, TicketStep, RoomInit, RoomStep, PTL DEF Spec

\* tick() serves first come, first served inside a bucket: it searches the queue from its front,
\* and ticket ids name one ticket each.
THEOREM MatchingFirstCome == Spec => MatchingIsFifo
<1>1. Typed /\ TicketInv /\ [Next]_vars =>
          [tickHoldsLock /\ nextRoomId' # nextRoomId =>
              \A t \in matchQueue \ matchQueue', u \in matchQueue' :
                  SameMatchBucket(t, u) => t.id < u.id]_vars
  <2> SUFFICES ASSUME Typed, TicketInv, [Next]_vars, tickHoldsLock, nextRoomId' # nextRoomId,
                      NEW t \in matchQueue, t \notin matchQueue', NEW u \in matchQueue',
                      SameMatchBucket(t, u)
               PROVE  t.id < u.id
    OBVIOUS
  <2>1. PICK seed \in matchQueue, group \in SUBSET matchQueue : MatchGroup(seed, group)
    BY DEF Next, vars, CreateRoom, JoinRoom, LeaveRoom, CloseRoom, SetReady, EnqueueMatch,
           CancelMatch, CancelMatchByPlayer, TickExpire, LoseGroup, TickDone
  <2>2. matchQueue' = matchQueue \ group /\ IsMatchGroup(seed, group)
    BY <2>1 DEF MatchGroup, DropTickets
  <2>3. t \in group /\ u \in Bucket(seed) \ group
    BY <2>2 DEF IsMatchGroup, Bucket, SameMatchBucket
  <2>4. CASE t # seed
    BY <2>2, <2>3, <2>4 DEF IsMatchGroup
  <2>5. CASE t = seed
    <3>1. CanFill(u)
      BY <2>2, <2>3, <2>5 DEF IsMatchGroup, CanFill, Bucket, SameMatchBucket
    <3>2. ~(u.id < t.id) /\ u.id # t.id
      BY <2>2, <2>3, <2>5, <3>1 DEF IsMatchGroup, TicketInv, IssuedTickets
    <3>3. t.id \in Nat /\ u.id \in Nat
      BY <2>2 DEF Typed, Ticket, TicketId
    <3> QED
      BY <3>2, <3>3
  <2> QED
    BY <2>4, <2>5
<1> QED
  BY <1>1, TypeInit, TypeStep, TicketInit, TicketStep, PTL DEF Spec, MatchingIsFifo

------------------------------------------------------------------------------
(* Rooms and queue implement Matchmaking *)

\* Where OneRoomEach holds, SeatOf is the room a player is in.
LEMMA SeatIs ==
    ASSUME OneRoomEach, NEW p \in Player
    PROVE  /\ \A r \in RoomId : Seats[p] = r <=> p \in Seated(r)
           /\ Seats[p] = 0 <=> \A r \in RoomId : p \notin Seated(r)
           /\ Seats[p] = 0 <=> ~InActiveRoom(p)
<1>1. InActiveRoom(p) <=> \E r \in RoomId : p \in Seated(r)
  BY DEF InActiveRoom, Seated
<1>2. CASE InActiveRoom(p)
  <2>1. PICK r \in RoomId : IsActive(r) /\ p \in rooms[r].members
    BY <1>2 DEF InActiveRoom
  <2>2. \A q \in RoomId : IsActive(q) /\ p \in rooms[q].members <=> q = r
    BY <2>1 DEF OneRoomEach
  <2>3. Seats[p] = r /\ r # 0
    BY <1>2, <2>2, BoundsNat DEF Seats, SeatOf, RoomId
  <2> QED
    BY <1>1, <1>2, <2>2, <2>3 DEF Seated
<1>3. CASE ~InActiveRoom(p)
  <2>1. Seats[p] = 0 /\ \A r \in RoomId : r # 0
    BY <1>3, BoundsNat DEF Seats, SeatOf, RoomId
  <2> QED
    BY <1>1, <1>3, <2>1
<1> QED
  BY <1>2, <1>3

\* The seats after a step that touches one room.
LEMMA SeatsFollow ==
    ASSUME OneRoomEach, OneRoomEach', NEW k \in RoomId,
           \A r \in RoomId \ {k} : Seated(r)' = Seated(r)
    PROVE  Seats' = [p \in Player |-> IF p \in Seated(k)' THEN k
                                      ELSE IF p \in Seated(k) THEN 0 ELSE Seats[p]]
<1>1. ASSUME NEW p \in Player
      PROVE  Seats'[p] = IF p \in Seated(k)' THEN k
                         ELSE IF p \in Seated(k) THEN 0 ELSE Seats[p]
  <2>1. /\ \A r \in RoomId : Seats'[p] = r <=> p \in Seated(r)'
        /\ Seats'[p] = 0 <=> \A r \in RoomId : p \notin Seated(r)'
    <3>1. InActiveRoom(p)' <=> \E r \in RoomId : p \in Seated(r)'
      BY DEF InActiveRoom, Seated
    <3>2. CASE InActiveRoom(p)'
      <4>1. PICK r \in RoomId : IsActive(r)' /\ p \in rooms'[r].members
        BY <3>2 DEF InActiveRoom
      <4>2. \A q \in RoomId : IsActive(q)' /\ p \in rooms'[q].members <=> q = r
        BY <4>1 DEF OneRoomEach
      <4>3. Seats'[p] = r /\ r # 0
        BY <3>2, <4>2, BoundsNat DEF Seats, SeatOf, RoomId
      <4> QED
        BY <3>1, <3>2, <4>2, <4>3 DEF Seated
    <3>3. CASE ~InActiveRoom(p)'
      <4>1. Seats'[p] = 0 /\ \A r \in RoomId : r # 0
        BY <3>3, BoundsNat DEF Seats, SeatOf, RoomId
      <4> QED
        BY <3>1, <3>3, <4>1
    <3> QED
      BY <3>2, <3>3
  <2>2. CASE p \in Seated(k)'
    BY <2>1, <2>2
  <2>3. CASE p \notin Seated(k)' /\ p \in Seated(k)
    <3>1. \A r \in RoomId : p \notin Seated(r)'
      BY <2>3 DEF OneRoomEach, Seated
    <3> QED
      BY <2>1, <2>3, <3>1
  <2>4. CASE p \notin Seated(k)' /\ p \notin Seated(k)
    <3>1. \A r \in RoomId : p \in Seated(r)' <=> p \in Seated(r)
      BY <2>4
    <3>2. CASE \E r \in RoomId : p \in Seated(r)
      BY <2>1, <2>4, <3>1, <3>2, SeatIs
    <3>3. CASE \A r \in RoomId : p \notin Seated(r)
      BY <2>1, <2>4, <3>1, <3>3, SeatIs
    <3> QED
      BY <3>2, <3>3
  <2> QED
    BY <2>2, <2>3, <2>4
<1> QED
  BY <1>1 DEF Seats

LEMMA SeatsStay == UNCHANGED rooms => UNCHANGED Seats
BY DEF Seats, SeatOf, InActiveRoom, IsActive

\* The waiting players after tickets left the queue: a player's one ticket was all it had there.
LEMMA WaitingFollows ==
    ASSUME Typed, TicketInv, NEW tickets \in SUBSET matchQueue, matchQueue' = matchQueue \ tickets
    PROVE  /\ Waiting' = Waiting \ PlayersOf(tickets)
           /\ PlayersOf(tickets) \in SUBSET Waiting
<1>1. ASSUME NEW t \in matchQueue, NEW u \in matchQueue, t.player = u.player PROVE t = u
  <2>1. t.id = u.id
    BY <1>1 DEF TicketInv, TicketIndexMatchesQueue
  <2> QED
    BY <2>1 DEF TicketInv, IssuedTickets
<1> QED
  BY <1>1 DEF Waiting, PlayersOf

LEMMA WaitingWithout ==
    ASSUME Typed, TicketInv, NEW p \in Player, RemovePlayerTicket(p)
    PROVE  Waiting' = Waiting \ {p}
<1>1. \A t \in matchQueue : t.id = playerTickets[p] <=> t.player = p
  <2> SUFFICES ASSUME NEW t \in matchQueue PROVE t.id = playerTickets[p] <=> t.player = p
    OBVIOUS
  <2>1. t.id # 0 /\ playerTickets[t.player] = t.id
    BY BoundsNat DEF Typed, Ticket, TicketId, TicketInv, TicketIndexMatchesQueue
  <2>2. ASSUME t.id = playerTickets[p] PROVE t.player = p
    <3>1. PICK u \in matchQueue : u.player = p /\ u.id = playerTickets[p]
      BY <2>1, <2>2 DEF TicketInv, TicketIndexMatchesQueue
    <3> QED
      BY <2>2, <3>1 DEF TicketInv, IssuedTickets
  <2> QED
    BY <2>1, <2>2
<1> QED
  BY <1>1 DEF RemovePlayerTicket, Waiting, PlayersOf

LEMMA InitImplements == Init => Matching!Init
BY DEF Init, Matching!Init, Waiting, PlayersOf, Seats, SeatOf, InActiveRoom, IsActive, Absent

\* Matchmaking counts as RoomMatch does.
LEMMA SameCount == \A S : Matching!Cardinality(S) = Cardinality(S)
BY DEF Matching!Cardinality, Cardinality

\* A step of Matchmaking, or none.
Abstract == [Matching!Next]_<<Waiting, Seats>>

LEMMA StepImplements ==
    ASSUME Typed, TicketInv, RoomInv, PlacementInv, PlacementInv', [Next]_vars, ~reopened'
    PROVE  Abstract
<1>0. OneRoomEach /\ OneRoomEach'
  BY DEF PlacementInv
<1>1. ASSUME NEW p \in Player, NEW m \in Mode, NEW n \in RoomSize, NEW a \in BOOLEAN,
             CreateRoom(p, m, n, a)
      PROVE  Abstract
  <2> PICK k \in RoomId : k = nextRoomId
    BY <1>1, BoundsNat DEF CreateRoom, Typed, RoomId
  <2>1. rooms' = [rooms EXCEPT ![k] = NewRoom(p, m, n, a)] /\ ~InActiveRoom(p)
        /\ RemovePlayerTicket(p)
    BY <1>1 DEF CreateRoom
  <2>2. \A r \in RoomId \ {k} : Seated(r)' = Seated(r)
    BY <2>1 DEF Typed, Seated, IsActive
  <2>3. Seated(k)' = {p} /\ Seated(k) = {}
    <3>1. rooms[k].state = "absent"
      BY BoundsNat DEF RoomInv, RoomsAreFresh, RoomId
    <3> QED
      BY <2>1, <3>1, NewRoomType DEF Typed, Seated, IsActive
  <2>4. Seats' = [Seats EXCEPT ![p] = k]
    BY <1>0, <2>2, <2>3, SeatsFollow DEF Seats
  <2>5. Seats[p] = 0
    BY <1>0, <2>1, SeatIs
  <2>6. Matching!Occupants(k) = {}
    BY <1>0, <2>3, SeatIs DEF Matching!Occupants
  <2>7. Cardinality({}) = 0 /\ 0 < MaxPlayers
    BY FS_EmptySet, BoundsNat DEF RoomSize
  <2>8. Waiting' = Waiting \ {p}
    BY <2>1, WaitingWithout
  <2>9. Matching!TakeSeat(p, k)
    BY <2>4, <2>5, <2>6, <2>7, <2>8, SameCount DEF Matching!TakeSeat
  <2> QED
    BY <2>9 DEF Abstract, Matching!Next, RoomId
<1>2. ASSUME NEW k \in RoomId, NEW p \in Player, JoinRoom(k, p) PROVE Abstract
  <2> DEFINE joined == [rooms[k] EXCEPT !.members = @ \cup {p}]
  <2>1. joined \in Room /\ joined.members = rooms[k].members \cup {p}
    BY DEF Typed, Room
  <2>2. /\ rooms' = [rooms EXCEPT ![k] = Updated(joined)] /\ IsActive(k)
        /\ Cardinality(rooms[k].members) < rooms[k].maxPlayers
        /\ ~InActiveRoom(p) /\ RemovePlayerTicket(p)
    BY <1>2 DEF JoinRoom, Join
  <2> HIDE DEF joined
  <2>3. /\ Updated(joined).members = rooms[k].members \cup {p}
        /\ Updated(joined).state \in {"waiting", "playing"}
    <3>1. UpdatedState(joined) \in {"waiting", "playing"}
      BY <2>1 DEF UpdatedState
    <3> QED
      BY <2>1, <3>1, UpdatedType DEF Room, RoomState
  <2>4. \A r \in RoomId \ {k} : Seated(r)' = Seated(r)
    BY <2>2 DEF Typed, Seated, IsActive
  <2>5. Seated(k)' = Seated(k) \cup {p} /\ Seated(k) = rooms[k].members
    BY <2>2, <2>3 DEF Typed, Seated, IsActive
  <2>6. Seats' = [Seats EXCEPT ![p] = k]
    <3>1. Seats' = [q \in Player |-> IF q \in Seated(k)' THEN k
                                     ELSE IF q \in Seated(k) THEN 0 ELSE Seats[q]]
      BY <1>0, <2>4, SeatsFollow
    <3>2. \A q \in Player : q \in Seated(k) => Seats[q] = k
      BY <1>0, SeatIs
    <3>3. \A q \in Player : Seats'[q] = IF q = p THEN k ELSE Seats[q]
      BY <2>5, <3>1, <3>2
    <3> QED
      BY <3>1, <3>3 DEF Seats
  <2>7. Seats[p] = 0
    BY <1>0, <2>2, SeatIs
  <2>8. Matching!Occupants(k) = rooms[k].members
    BY <1>0, <2>5, SeatIs DEF Matching!Occupants, Typed, Room
  <2>9. Cardinality(rooms[k].members) < MaxPlayers
    <3>1. /\ IsFiniteSet(rooms[k].members) /\ Cardinality(rooms[k].members) \in Nat
          /\ rooms[k].maxPlayers \in 0..MaxPlayers
      BY PlayerFinite, BoundsNat, FS_Subset, FS_CardinalityType DEF Typed, Room, RoomSize
    <3> QED
      BY <2>2, <3>1, BoundsNat
  <2>10. Waiting' = Waiting \ {p}
    BY <2>2, WaitingWithout
  <2>11. Matching!TakeSeat(p, k)
    BY <2>6, <2>7, <2>8, <2>9, <2>10, SameCount DEF Matching!TakeSeat
  <2> QED
    BY <2>11 DEF Abstract, Matching!Next, RoomId
<1>3. ASSUME NEW k \in RoomId, NEW p \in Player, LeaveRoom(k, p) PROVE Abstract
  <2> DEFINE left == [rooms[k] EXCEPT !.members = @ \ {p}, !.ready = @ \ {p}]
  <2>1. left \in Room /\ left.members = rooms[k].members \ {p}
    BY DEF Typed, Room
  <2>2. rooms' = [rooms EXCEPT ![k] = Updated(left)] /\ p \in rooms[k].members
        /\ UNCHANGED matchQueue
    BY <1>3 DEF LeaveRoom
  <2>3. IsActive(k) \/ rooms[k].members = {p}
    BY <1>3 DEF LeaveRoom, Exists, IsActive, Typed, Room, RoomState
  <2> HIDE DEF left
  <2>4. /\ Updated(left).members = rooms[k].members \ {p}
        /\ Updated(left).state \in {"waiting", "playing"} \/ left.members = {}
    <3>1. UpdatedState(left) \in {"waiting", "playing"} \/ left.members = {}
      BY <2>1 DEF UpdatedState
    <3> QED
      BY <2>1, <3>1, UpdatedType DEF Room, RoomState
  <2>5. \A r \in RoomId \ {k} : Seated(r)' = Seated(r)
    BY <2>2 DEF Typed, Seated, IsActive
  <2>6. Seated(k)' = rooms[k].members \ {p}
    BY <2>1, <2>2, <2>4 DEF Typed, Seated, IsActive
  <2>7. Waiting' = Waiting
    BY <2>2 DEF Waiting, PlayersOf
  <2>8. CASE IsActive(k)
    <3>1. Seated(k) = rooms[k].members
      BY <2>8 DEF Seated
    <3>2. Seats' = [Seats EXCEPT ![p] = 0]
      <4>1. Seats' = [q \in Player |-> IF q \in Seated(k)' THEN k
                                       ELSE IF q \in Seated(k) THEN 0 ELSE Seats[q]]
        BY <1>0, <2>5, SeatsFollow
      <4>2. \A q \in Player : q \in Seated(k) => Seats[q] = k
        BY <1>0, SeatIs
      <4>3. \A q \in Player : Seats'[q] = IF q = p THEN 0 ELSE Seats[q]
        BY <2>2, <2>6, <3>1, <4>1, <4>2
      <4> QED
        BY <4>1, <4>3 DEF Seats
    <3>3. Seats[p] # 0
      BY <1>0, <2>2, <3>1, SeatIs
    <3> QED
      BY <2>7, <3>2, <3>3 DEF Abstract, Matching!Next, Matching!StandUp
  <2>9. CASE ~IsActive(k)
    <3>1. Seated(k) = {} /\ Seated(k)' = {}
      BY <2>3, <2>6, <2>9 DEF Seated
    <3>2. Seats' = Seats
      BY <1>0, <2>5, <3>1, SeatsFollow DEF Seats
    <3> QED
      BY <2>7, <3>2 DEF Abstract
  <2> QED
    BY <2>8, <2>9
<1>4. ASSUME NEW k \in RoomId, CloseRoom(k) PROVE Abstract
  <2>1. \A r \in RoomId \ {k} : Seated(r)' = Seated(r)
    BY <1>4 DEF CloseRoom, Seated, IsActive, Typed, Room
  <2>2. Seated(k)' = {}
    BY <1>4 DEF CloseRoom, Seated, IsActive, Typed, Room
  <2>3. Seats' = [p \in Player |-> IF Seats[p] = k THEN 0 ELSE Seats[p]]
    BY <1>0, <2>1, <2>2, SeatsFollow, SeatIs
  <2>4. Waiting' = Waiting
    BY <1>4 DEF CloseRoom, Waiting, PlayersOf
  <2> QED
    BY <2>3, <2>4 DEF Abstract, Matching!Next, Matching!Dissolve, RoomId
<1>5. ASSUME NEW k \in RoomId, NEW p \in Player, NEW b \in BOOLEAN, SetReady(k, p, b)
      PROVE  Abstract
  <2>1. \A r \in RoomId : Seated(r)' = Seated(r)
    BY <1>5 DEF SetReady, Seated, IsActive, Typed, Room
  <2>2. Seats' = Seats
    BY <1>0, <2>1, SeatsFollow, SeatIs DEF Seats
  <2>3. Waiting' = Waiting
    BY <1>5 DEF SetReady, Waiting, PlayersOf
  <2> QED
    BY <2>2, <2>3 DEF Abstract
<1>6. ASSUME NEW p \in Player, NEW m \in Mode, NEW n \in RoomSize, EnqueueMatch(p, m, n)
      PROVE  Abstract
  <2>1. ~InActiveRoom(p) /\ UNCHANGED rooms /\ playerTickets[p] = 0
    BY <1>6 DEF EnqueueMatch
  <2>2. Waiting' = Waiting \cup {p}
    <3>1. PICK t : t.player = p /\ matchQueue' = matchQueue \cup {t}
      BY <1>6 DEF EnqueueMatch
    <3> QED
      BY <3>1 DEF Waiting, PlayersOf
  <2>3. p \notin Waiting
    <3>1. \A t \in matchQueue : t.id # 0
      BY BoundsNat DEF Typed, Ticket, TicketId
    <3> QED
      BY <2>1, <3>1 DEF Waiting, PlayersOf, TicketInv, TicketIndexMatchesQueue
  <2>4. Seats[p] = 0 /\ UNCHANGED Seats
    BY <1>0, <2>1, SeatIs, SeatsStay
  <2> QED
    BY <2>2, <2>3, <2>4 DEF Abstract, Matching!Next, Matching!Wait
<1>7. ASSUME NEW tickets \in SUBSET matchQueue, matchQueue' = matchQueue \ tickets, UNCHANGED rooms
      PROVE  Abstract
  <2>1. UNCHANGED Seats
    BY <1>7, SeatsStay
  <2> QED
    BY <1>7, <2>1, WaitingFollows DEF Abstract, Matching!Next, Matching!StopWaiting
<1>8. ASSUME NEW id \in TicketId, CancelMatch(id) PROVE Abstract
  <2>1. PICK t \in matchQueue : matchQueue' = matchQueue \ {t}
    BY <1>8 DEF CancelMatch
  <2> QED
    BY <1>7, <1>8, <2>1 DEF CancelMatch
<1>9. ASSUME NEW p \in Player, CancelMatchByPlayer(p) PROVE Abstract
  <2>1. PICK tickets \in SUBSET matchQueue : matchQueue' = matchQueue \ tickets
    <3>1. matchQueue' = matchQueue \ {t \in matchQueue : t.id = playerTickets[p]}
      BY <1>9 DEF CancelMatchByPlayer, RemovePlayerTicket
    <3> QED
      BY <3>1
  <2> QED
    BY <1>7, <1>9, <2>1 DEF CancelMatchByPlayer
<1>10. ASSUME NEW expired \in SUBSET matchQueue, TickExpire(expired) PROVE Abstract
  BY <1>7, <1>10 DEF TickExpire, DropTickets
<1>11. ASSUME NEW seed \in matchQueue, NEW group \in SUBSET matchQueue, MatchGroup(seed, group)
       PROVE  Abstract
  <2> DEFINE fresh == NewRoom(seed.player, seed.mode, seed.size, TRUE)
             full == [fresh EXCEPT !.members = @ \cup PlayersOf(group)]
  <2>1. seed.player \in Player /\ seed.mode \in Mode /\ seed.size \in RoomSize
    BY DEF Typed, Ticket
  <2>2. fresh \in Room /\ fresh.members = {seed.player}
    BY <2>1, NewRoomType
  <2>3. PlayersOf(group) \in SUBSET Player /\ seed.player \in PlayersOf(group)
    BY <1>11 DEF PlayersOf, Ticket, Typed, MatchGroup, IsMatchGroup
  <2> PICK k \in RoomId : k = nextRoomId
    BY <1>11, BoundsNat DEF MatchGroup, Typed, RoomId
  <2>4. rooms' = [rooms EXCEPT ![k] = Updated(full)]
    BY <1>11 DEF MatchGroup
  <2> HIDE DEF fresh
  <2>5. full \in Room /\ full.members = PlayersOf(group)
    BY <2>2, <2>3 DEF Room
  <2> HIDE DEF full
  <2>6. /\ Updated(full).members = PlayersOf(group)
        /\ Updated(full).state \in {"waiting", "playing"}
    <3>1. UpdatedState(full) \in {"waiting", "playing"}
      BY <2>3, <2>5 DEF UpdatedState
    <3> QED
      BY <2>5, <3>1, UpdatedType DEF Room, RoomState
  <2>7. \A r \in RoomId \ {k} : Seated(r)' = Seated(r)
    BY <2>4 DEF Typed, Seated, IsActive
  <2>8. Seated(k)' = PlayersOf(group) /\ Seated(k) = {}
    <3>1. rooms[k].state = "absent"
      BY BoundsNat DEF RoomInv, RoomsAreFresh, RoomId
    <3> QED
      BY <2>4, <2>6, <3>1 DEF Typed, Seated, IsActive
  <2>9. Seats' = [p \in Player |-> IF p \in PlayersOf(group) THEN k ELSE Seats[p]]
    BY <1>0, <2>7, <2>8, SeatsFollow
  <2>10. Matching!Occupants(k) = {}
    BY <1>0, <2>8, SeatIs DEF Matching!Occupants
  <2>11. Waiting' = Waiting \ PlayersOf(group) /\ PlayersOf(group) \in SUBSET Waiting
    BY <1>11, WaitingFollows DEF MatchGroup, DropTickets
  <2>12. Cardinality(PlayersOf(group)) <= MaxPlayers
    <3>1. Cardinality(group) = seed.size /\ seed.size \in Nat /\ seed.size <= MaxPlayers
      BY <1>11, <2>1, BoundsNat DEF MatchGroup, IsMatchGroup, RoomSize
    <3>2. IsFiniteSet(PlayersOf(group)) /\ Cardinality(PlayersOf(group)) \in Nat
      BY <2>3, PlayerFinite, FS_Subset, FS_CardinalityType
    <3> QED
      BY <3>1, <3>2, GroupsAreFinite, BoundsNat
  <2>13. PlayersOf(group) # {}
    BY <2>3
  <2>14. Matching!SeatGroup(PlayersOf(group), k)
    BY <2>9, <2>10, <2>11, <2>12, <2>13, SameCount DEF Matching!SeatGroup
  <2> QED
    BY <2>11, <2>14 DEF Abstract, Matching!Next, RoomId
<1>12. ASSUME NEW seed \in matchQueue, NEW group \in SUBSET matchQueue, LoseGroup(seed, group)
       PROVE  FALSE
  BY <1>12 DEF LoseGroup, PlacementInv, QueueIsRoomless
<1>13. CASE TickDone \/ UNCHANGED vars
  <2>1. UNCHANGED <<rooms, matchQueue>>
    BY <1>13 DEF TickDone, vars
  <2> QED
    BY <2>1, SeatsStay DEF Abstract, Waiting, PlayersOf
<1> QED
  BY <1>1, <1>2, <1>3, <1>4, <1>5, <1>6, <1>8, <1>9, <1>10, <1>11, <1>12, <1>13 DEF Next

\* Rooms and queue keep the promise of Matchmaking until leaveRoom brings a closed room back: each
\* call is one of its steps or none, and a match seats its whole group in one empty room at once.
THEOREM RoomsImplementMatchmaking == Spec => ImplementsMatchmaking
<1>1. Inv /\ RoomInv /\ [Next]_vars => [~reopened' => [Matching!Next]_<<Waiting, Seats>>]_vars
  <2> SUFFICES ASSUME Inv, RoomInv, [Next]_vars, ~reopened'
               PROVE  [Matching!Next]_<<Waiting, Seats>>
    OBVIOUS
  <2>1. ~reopened
    BY ReopenedStays DEF Inv
  <2>2. PlacementInv /\ PlacementInv'
    BY <2>1, PlacementStep DEF Inv
  <2> QED
    BY <2>2, StepImplements DEF Inv, Abstract
<1>2. Inv /\ RoomInv /\ [Next]_vars => RoomInv'
  BY RoomStep DEF Inv
<1>3. Spec => [](Inv /\ RoomInv)
  BY <1>2, InvHolds, RoomInit, PTL DEF Spec
<1> QED
  BY <1>1, <1>3, InitImplements, PTL DEF Spec, ImplementsMatchmaking

================================================================================
