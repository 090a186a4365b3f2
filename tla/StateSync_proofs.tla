--------------------------- MODULE StateSync_proofs ----------------------------
(***************************************************************************)
(* Theorems about StateSync for every set of rooms, players and positions  *)
(* and every value of the limits.                                          *)
(***************************************************************************)
EXTENDS StateSync, TLAPS

LEMMA ConstantsTyped ==
    /\ MaxStep \in Nat /\ Speed \in Nat /\ Tolerance \in Nat /\ SnapshotInterval \in Nat
    /\ MaxDeltas \in Nat /\ MaxInput \in Nat /\ MaxVersion \in Nat /\ MaxClock \in Nat
    /\ Position \subseteq Int /\ Origin \in Position
BY LimitsNatural, PositionsOnALine DEF Origin

LEMMA BlankTyped == Nowhere \in PlayerState /\ NoStay \in Stay /\ NoInput \in Input
BY ConstantsTyped DEF Nowhere, NoStay, NoInput, PlayerState, Stay, Input, Fate

\* What accept() leaves of a list that has grown by one: the list without its first k
\* entries, and k is 1 only if the result is full.
LEMMA TrimmedShift ==
    ASSUME NEW ds \in Seq(Delta), Len(ds) <= MaxDeltas + 1
    PROVE  /\ Trimmed(ds) \in Seq(Delta)
           /\ Len(Trimmed(ds)) <= MaxDeltas
           /\ \E k \in {0, 1} :
                /\ Len(Trimmed(ds)) = Len(ds) - k
                /\ k = 1 => Len(Trimmed(ds)) = MaxDeltas
                /\ \A i \in 1..Len(Trimmed(ds)) : Trimmed(ds)[i] = ds[i + k]
<1> USE ConstantsTyped
<1>1. CASE Len(ds) > MaxDeltas
  <2>1. Len(ds) = MaxDeltas + 1 /\ Len(ds) \in Nat
    BY <1>1
  <2>2. Trimmed(ds) = SubSeq(ds, 2, Len(ds))
    BY <1>1, <2>1 DEF Trimmed
  <2>3. /\ SubSeq(ds, 2, Len(ds)) \in Seq(Delta)
        /\ Len(SubSeq(ds, 2, Len(ds))) = Len(ds) - 1
        /\ \A i \in 1..(Len(ds) - 1) : SubSeq(ds, 2, Len(ds))[i] = ds[i + 1]
    BY <2>1
  <2> QED
    BY <2>1, <2>2, <2>3
<1>2. CASE ~(Len(ds) > MaxDeltas)
  <2>1. Trimmed(ds) = ds /\ Len(ds) \in Nat
    BY <1>2 DEF Trimmed
  <2> QED
    BY <1>2, <2>1
<1> QED
  BY <1>1, <1>2

LEMMA AcceptedType ==
    ASSUME TypeOK, NEW r \in Room, NEW p \in Player, NEW x \in Position, NEW n \in 1..MaxInput
    PROVE  /\ Accepted(r, p, x, n) \in Seq(Delta)
           /\ Len(Accepted(r, p, x, n)) = Len(deltas[r]) + 1
           /\ Len(deltas[r]) \in Nat
           /\ \A i \in 1..Len(deltas[r]) : Accepted(r, p, x, n)[i] = deltas[r][i]
           /\ Accepted(r, p, x, n)[Len(deltas[r]) + 1] =
                [player |-> p, pos |-> x, seq |-> n, version |-> version[r] + 1]
<1> DEFINE d == [player |-> p, pos |-> x, seq |-> n, version |-> version[r] + 1]
<1>1. d \in Delta
  BY DEF TypeOK, Delta
<1>2. deltas[r] \in Seq(Delta)
  BY DEF TypeOK
<1>3. Accepted(r, p, x, n) = Append(deltas[r], d)
  BY DEF Accepted
<1> HIDE DEF d
<1>4. /\ Append(deltas[r], d) \in Seq(Delta)
      /\ Len(Append(deltas[r], d)) = Len(deltas[r]) + 1
      /\ Len(deltas[r]) \in Nat
      /\ \A i \in 1..Len(deltas[r]) : Append(deltas[r], d)[i] = deltas[r][i]
      /\ Append(deltas[r], d)[Len(deltas[r]) + 1] = d
  BY <1>1, <1>2
<1> QED
  BY <1>3, <1>4 DEF d

\* TypeOK, entry by entry.
LEMMA EntriesTyped ==
    ASSUME TypeOK, NEW r \in Room
    PROVE  /\ clock \in Nat /\ version[r] \in Nat /\ handed[r] \in Nat
           /\ deltas[r] \in Seq(Delta) /\ Len(deltas[r]) \in Nat /\ Len(deltas[r]) <= MaxDeltas
           /\ players[r] \subseteq Player
           /\ \A p \in Player : /\ state[r][p] \in PlayerState /\ stay[r][p] \in Stay
                                /\ lastInput[r][p] \in Input
           /\ \A i \in 1..Len(deltas[r]) : deltas[r][i] \in Delta
BY DEF TypeOK

\* The last entry of a list that is not empty.
LEMMA LastDelta ==
    ASSUME TypeOK, NEW r \in Room, deltas[r] # <<>>
    PROVE  /\ Len(deltas[r]) \in Nat \ {0}
           /\ Last(deltas[r]) = deltas[r][Len(deltas[r])]
           /\ \A i \in 1..Len(deltas[r]) : deltas[r][i] \in Delta
           /\ Last(deltas[r]) \in Delta
<1>1. deltas[r] \in Seq(Delta)
  BY DEF TypeOK
<1>2. Len(deltas[r]) \in Nat \ {0} /\ \A i \in 1..Len(deltas[r]) : deltas[r][i] \in Delta
  BY <1>1
<1> QED
  BY <1>2 DEF Last

\* A drain settles what becomes of a pending input and writes nothing else of it.
LEMMA SettledTyped ==
    ASSUME NEW ds, NEW p, NEW u \in Input
    PROVE  /\ Settled(ds, p, u) \in Input
           /\ Settled(ds, p, u).pos = u.pos /\ Settled(ds, p, u).seq = u.seq
           /\ Settled(ds, p, u).version = u.version
BY DEF Settled, Input, Fate

------------------------------------------------------------------------------
LEMMA TypeInit == Init => TypeOK
BY ConstantsTyped, BlankTyped DEF Init, TypeOK

LEMMA TypeStep == TypeOK /\ [Next]_vars => TypeOK'
<1> SUFFICES ASSUME TypeOK, [Next]_vars PROVE TypeOK'
  OBVIOUS
<1> USE ConstantsTyped, BlankTyped
<1>1. CASE Tick
  BY <1>1 DEF Tick, roomVars, TypeOK
<1>2. CASE BuildDueSnapshots
  BY <1>2 DEF BuildDueSnapshots, TypeOK
<1>3. ASSUME NEW r \in Room, RegisterRoom(r) PROVE TypeOK'
  BY <1>3 DEF RegisterRoom, roomVars, TypeOK
<1>4. ASSUME NEW r \in Room, UnregisterRoom(r) PROVE TypeOK'
  BY <1>4 DEF UnregisterRoom, TypeOK
<1>5. ASSUME NEW r \in Room, DrainDeltas(r) PROVE TypeOK'
  <2>1. Last(deltas[r]).version \in Nat
    BY <1>5, LastDelta DEF DrainDeltas, Delta
  <2>2. \A p \in Player : Settled(deltas[r], p, lastInput[r][p]) \in Input
    BY SettledTyped, EntriesTyped
  <2>3. lastInput' \in [Room -> [Player -> Input]]
    BY <1>5, <2>2 DEF DrainDeltas, TypeOK
  <2> QED
    BY <1>5, <2>1, <2>3 DEF DrainDeltas, TypeOK
<1>6. ASSUME NEW r \in Room, NEW p \in Player, RemovePlayer(r, p) PROVE TypeOK'
  BY <1>6 DEF RemovePlayer, Bump, TypeOK
<1>7. ASSUME NEW r \in Room, NEW p \in Player, MarkPlayerOffline(r, p) PROVE TypeOK'
  <2>1. state' = [state EXCEPT ![r][p] = [@ EXCEPT !.online = FALSE, !.at = clock]]
    BY <1>7 DEF MarkPlayerOffline
  <2>2. [state[r][p] EXCEPT !.online = FALSE, !.at = clock] \in PlayerState
    BY EntriesTyped DEF PlayerState
  <2>3. state' \in [Room -> [Player -> PlayerState]]
    BY <2>1, <2>2 DEF TypeOK
  <2> QED
    BY <1>7, <2>3, SMTT(30) DEF MarkPlayerOffline, Bump, TypeOK
<1>8. ASSUME NEW r \in Room, NEW p \in Player, NEW x \in Position, AddPlayer(r, p, x)
      PROVE  TypeOK'
  <2>1. [NoStay EXCEPT !.start = x, !.since = clock] \in Stay
    BY DEF Stay, TypeOK
  <2>2. [pos |-> x, seq |-> state[r][p].seq, online |-> TRUE, at |-> clock] \in PlayerState
    BY DEF PlayerState, TypeOK
  <2>3. state' \in [Room -> [Player -> PlayerState]]
    BY <1>8, <2>2 DEF AddPlayer, TypeOK
  <2>4. stay' \in [Room -> [Player -> Stay]]
    BY <1>8, <2>1 DEF AddPlayer, TypeOK
  <2>5. rooms' \subseteq Room /\ players' \in [Room -> SUBSET Player]
    BY <1>8 DEF AddPlayer, TypeOK
  <2>6. version' \in [Room -> Nat]
    BY <1>8 DEF AddPlayer, Bump, TypeOK
  <2> QED
    BY <1>8, <2>3, <2>4, <2>5, <2>6, SMTT(30) DEF AddPlayer, TypeOK
<1>9. ASSUME NEW r \in Room, NEW p \in Player, NEW x \in Position, NEW n \in 1..MaxInput,
             SubmitState(r, p, x, n)
      PROVE  TypeOK'
  <2>1. /\ Trimmed(Accepted(r, p, x, n)) \in Seq(Delta)
        /\ Len(Trimmed(Accepted(r, p, x, n))) <= MaxDeltas
    <3>1. /\ Accepted(r, p, x, n) \in Seq(Delta)
          /\ Len(Accepted(r, p, x, n)) = Len(deltas[r]) + 1
      BY AcceptedType
    <3>2. Len(Accepted(r, p, x, n)) <= MaxDeltas + 1
      BY <3>1, EntriesTyped
    <3> QED
      BY <3>1, <3>2, TrimmedShift
  <2>2. deltas' \in [Room -> Seq(Delta)] /\ \A q \in Room : Len(deltas'[q]) <= MaxDeltas
    BY <1>9, <2>1 DEF SubmitState, TypeOK
  <2>3. [pos |-> x, seq |-> n, online |-> TRUE, at |-> clock] \in PlayerState
    BY DEF PlayerState, TypeOK
  <2>4. state' \in [Room -> [Player -> PlayerState]]
    BY <1>9, <2>3 DEF SubmitState, TypeOK
  <2>5. [stay[r][p] EXCEPT !.inputs = @ + 1] \in Stay
    <3>1. stay[r][p] \in Stay
      BY EntriesTyped
    <3>2. stay[r][p].inputs + 1 \in Nat
      BY <3>1 DEF Stay
    <3> QED
      BY <3>1, <3>2 DEF Stay
  <2>6. stay' \in [Room -> [Player -> Stay]]
    BY <1>9, <2>5 DEF SubmitState, TypeOK
  <2>9. lastInput' \in [Room -> [Player -> Input]]
    <3>1. [pos |-> x, seq |-> n, version |-> version[r] + 1, fate |-> "pending"] \in Input
      BY EntriesTyped DEF Input, Fate
    <3> QED
      BY <1>9, <3>1 DEF SubmitState, TypeOK
  <2>7. version' \in [Room -> Nat]
    BY <1>9, SMTT(30) DEF SubmitState, Bump, TypeOK
  <2>8. UNCHANGED <<clock, rooms, players, snapshotAt, handed>>
    BY <1>9 DEF SubmitState
  <2> QED
    BY <2>2, <2>4, <2>6, <2>7, <2>8, <2>9, Zenon DEF TypeOK
<1>10. CASE UNCHANGED vars
  BY <1>10 DEF vars, TypeOK
<1> QED
  BY <1>1, <1>2, <1>3, <1>4, <1>5, <1>6, <1>7, <1>8, <1>9, <1>10 DEF Next

\* Every reachable state is well typed, and accept() keeps pending_deltas within its limit.
THEOREM TypeCorrect == Spec => []TypeOK
BY TypeInit, TypeStep, PTL DEF Spec

------------------------------------------------------------------------------
(* Movement *)

\* distance() is a metric: the limits of single inputs can be added up.
LEMMA GapTriangle ==
    ASSUME NEW x \in Int, NEW y \in Int, NEW z \in Int
    PROVE  /\ Gap(x, y) \in Nat
           /\ Gap(x, x) = 0
           /\ Gap(x, z) <= Gap(x, y) + Gap(y, z)
BY DEF Gap

LEMMA Distribute ==
    ASSUME NEW a \in Nat, NEW b \in Nat, NEW c \in Nat
    PROVE  a * (b + c) = a * b + a * c /\ a * b \in Nat /\ b <= c => a * b <= a * c
OBVIOUS

\* WithinReach of one player, in terms of the entries of state and stay.
Reached(s, st) ==
    /\ s.since <= st.at
    /\ st.at <= clock
    /\ Gap(s.start, st.pos) <= Speed * (st.at - s.since) + Tolerance * s.inputs
    /\ Gap(s.start, st.pos) <= (MaxStep + Tolerance) * s.inputs

LEMMA ReachedAll ==
    WithinReach <=> \A r \in Room : \A p \in players[r] : Reached(stay[r][p], state[r][p])
BY DEF WithinReach, Reached

LEMMA ReachStep == TypeOK /\ WithinReach /\ [Next]_vars => WithinReach'
<1> SUFFICES ASSUME TypeOK, WithinReach, [Next]_vars PROVE WithinReach'
  OBVIOUS
<1> USE ConstantsTyped
<1>1. CASE Tick
  <2> SUFFICES ASSUME NEW r \in Room, NEW p \in players[r]
               PROVE  Reached(stay[r][p], state[r][p])'
    BY <1>1 DEF Tick, roomVars, WithinReach, Reached
  <2>1. Reached(stay[r][p], state[r][p])
    BY ReachedAll
  <2>2. state[r][p] \in PlayerState /\ clock \in Nat
    BY EntriesTyped
  <2> QED
    BY <1>1, <2>1, <2>2 DEF Tick, roomVars, Reached, PlayerState
<1>2. CASE BuildDueSnapshots
  BY <1>2 DEF BuildDueSnapshots, WithinReach
<1>3. ASSUME NEW r \in Room, RegisterRoom(r) PROVE WithinReach'
  BY <1>3 DEF RegisterRoom, roomVars, WithinReach
<1>4. ASSUME NEW r \in Room, UnregisterRoom(r) PROVE WithinReach'
  <2>1. players'[r] = {} /\ \A q \in Room \ {r} :
            players'[q] = players[q] /\ state'[q] = state[q] /\ stay'[q] = stay[q]
    BY <1>4 DEF UnregisterRoom, TypeOK
  <2>2. clock' = clock
    BY <1>4 DEF UnregisterRoom
  <2> QED
    BY <2>1, <2>2 DEF WithinReach
<1>5. ASSUME NEW r \in Room, DrainDeltas(r) PROVE WithinReach'
  BY <1>5 DEF DrainDeltas, WithinReach
<1>6. ASSUME NEW r \in Room, NEW p \in Player,
             clock' = clock,
             \A q \in Room, o \in Player : o \in players'[q] /\ <<q, o>> # <<r, p>> =>
                /\ o \in players[q]
                /\ state'[q][o] = state[q][o]
                /\ stay'[q][o] = stay[q][o],
             p \in players'[r] => Reached(stay'[r][p], state'[r][p]),
             TypeOK'
      PROVE  WithinReach'
  <2> SUFFICES ASSUME NEW q \in Room, NEW o \in players'[q]
               PROVE  Reached(stay'[q][o], state'[q][o])
    BY <1>6 DEF WithinReach, Reached
  <2>1. o \in Player
    BY <1>6 DEF TypeOK
  <2>2. CASE <<q, o>> = <<r, p>>
    BY <1>6, <2>2
  <2>3. CASE <<q, o>> # <<r, p>>
    BY <1>6, <2>1, <2>3, ReachedAll
  <2> QED
    BY <2>2, <2>3
<1>7. TypeOK'
  BY TypeStep
<1>8. ASSUME NEW r \in Room, NEW p \in Player, RemovePlayer(r, p) PROVE WithinReach'
  <2>1. \A q \in Room, o \in Player : o \in players'[q] /\ <<q, o>> # <<r, p>> =>
                /\ o \in players[q]
                /\ state'[q][o] = state[q][o]
                /\ stay'[q][o] = stay[q][o]
    BY <1>8 DEF RemovePlayer, TypeOK
  <2>2. p \notin players'[r] /\ clock' = clock
    BY <1>8 DEF RemovePlayer, TypeOK
  <2> QED
    BY <1>6, <1>7, <2>1, <2>2
<1>9. ASSUME NEW r \in Room, NEW p \in Player, MarkPlayerOffline(r, p) PROVE WithinReach'
  <2>1. \A q \in Room, o \in Player : o \in players'[q] /\ <<q, o>> # <<r, p>> =>
                /\ o \in players[q]
                /\ state'[q][o] = state[q][o]
                /\ stay'[q][o] = stay[q][o]
    BY <1>9 DEF MarkPlayerOffline, TypeOK
  <2>2. /\ p \in players[r] /\ clock' = clock /\ stay'[r][p] = stay[r][p]
        /\ state'[r][p].pos = state[r][p].pos /\ state'[r][p].at = clock
    BY <1>9 DEF MarkPlayerOffline, TypeOK, PlayerState
  <2>3. Reached(stay[r][p], state[r][p])
    BY <2>2, ReachedAll
  <2>4. state[r][p] \in PlayerState /\ stay[r][p] \in Stay /\ clock \in Nat
    BY EntriesTyped
  <2> DEFINE early == state[r][p].at - stay[r][p].since
             late  == clock - stay[r][p].since
  <2>5. early \in Nat /\ late \in Nat /\ early <= late
    BY <2>3, <2>4 DEF Reached, PlayerState, Stay
  <2>6. Speed * early <= Speed * late /\ Speed * early \in Nat /\ Speed * late \in Nat
    <3> HIDE DEF early, late
    <3> QED BY <2>5, Distribute
  <2>7. Tolerance * stay[r][p].inputs \in Nat
    BY <2>4, Distribute DEF Stay
  <2>8. Gap(stay[r][p].start, state[r][p].pos) \in Nat
    BY <2>4, GapTriangle DEF Stay, PlayerState
  <2>9. Gap(stay[r][p].start, state[r][p].pos) <= Speed * late + Tolerance * stay[r][p].inputs
    BY <2>3, <2>6, <2>7, <2>8 DEF Reached
  <2>10. Reached(stay'[r][p], state'[r][p])
    BY <2>2, <2>3, <2>5, <2>9, <2>4 DEF Reached, Stay, PlayerState
  <2> QED
    BY <1>6, <1>7, <2>1, <2>2, <2>10
<1>10. ASSUME NEW r \in Room, NEW p \in Player, NEW x \in Position, AddPlayer(r, p, x)
       PROVE  WithinReach'
  <2>1. \A q \in Room, o \in Player : o \in players'[q] /\ <<q, o>> # <<r, p>> =>
                /\ o \in players[q]
                /\ state'[q][o] = state[q][o]
                /\ stay'[q][o] = stay[q][o]
    BY <1>10 DEF AddPlayer, TypeOK
  <2>2. stay'[r][p] = [NoStay EXCEPT !.start = x, !.since = clock]
    BY <1>10 DEF AddPlayer, TypeOK
  <2>3. /\ clock' = clock
        /\ stay'[r][p].start = x /\ stay'[r][p].since = clock /\ stay'[r][p].inputs = 0
        /\ state'[r][p].pos = x /\ state'[r][p].at = clock
    BY <1>10, <2>2 DEF AddPlayer, TypeOK, NoStay
  <2>4. x \in Int /\ clock \in Nat /\ Gap(x, x) = 0
    BY EntriesTyped, GapTriangle
  <2>5. Speed * (clock - clock) = 0 /\ Tolerance * 0 = 0 /\ (MaxStep + Tolerance) * 0 = 0
    BY <2>4
  <2>6. Reached(stay'[r][p], state'[r][p])
    BY <2>3, <2>4, <2>5 DEF Reached
  <2> QED
    BY <1>6, <1>7, <2>1, <2>3, <2>6
<1>11. ASSUME NEW r \in Room, NEW p \in Player, NEW x \in Position, NEW n \in 1..MaxInput,
              SubmitState(r, p, x, n)
       PROVE  WithinReach'
  <2>1. \A q \in Room, o \in Player : o \in players'[q] /\ <<q, o>> # <<r, p>> =>
                /\ o \in players[q]
                /\ state'[q][o] = state[q][o]
                /\ stay'[q][o] = stay[q][o]
    BY <1>11 DEF SubmitState, TypeOK
  <2> DEFINE s == stay[r][p]  st == state[r][p]
             early == st.at - s.since
             later == clock - st.at
             moved == Gap(s.start, st.pos)
             step  == Gap(st.pos, x)
  <2>2. stay'[r][p] = [s EXCEPT !.inputs = @ + 1]
    BY <1>11 DEF SubmitState, TypeOK
  <2>3. s \in Stay /\ st \in PlayerState /\ clock \in Nat
    BY EntriesTyped
  <2>4. /\ clock' = clock
        /\ stay'[r][p].start = s.start /\ stay'[r][p].since = s.since
        /\ stay'[r][p].inputs = s.inputs + 1
        /\ state'[r][p].pos = x /\ state'[r][p].at = clock
    BY <1>11, <2>2, <2>3 DEF SubmitState, TypeOK, Stay
  <2>5. p \in players[r] /\ Reached(s, st)
    BY <1>11, ReachedAll DEF SubmitState
  <2>6. /\ moved <= Speed * early + Tolerance * s.inputs
        /\ moved <= (MaxStep + Tolerance) * s.inputs
        /\ s.since <= st.at /\ st.at <= clock
    BY <2>5 DEF Reached
  <2>7. step <= MaxStep + Tolerance /\ step <= Speed * later + Tolerance
    BY <1>11 DEF SubmitState, IsMovementAllowed
  <2>8. /\ s.start \in Int /\ st.pos \in Int /\ x \in Int
        /\ s.inputs \in Nat /\ st.at \in Nat /\ s.since \in Nat
    BY <2>3 DEF Stay, PlayerState
  <2>9. /\ moved \in Nat /\ step \in Nat
        /\ Gap(s.start, x) \in Nat /\ Gap(s.start, x) <= moved + step
    BY <2>8, GapTriangle
  <2>10. early \in Nat /\ later \in Nat /\ clock - s.since = early + later
    BY <2>3, <2>6, <2>8
  <2>11. /\ Speed * (early + later) = Speed * early + Speed * later
         /\ Speed * early \in Nat /\ Speed * later \in Nat
    <3> HIDE DEF early, later
    <3> QED BY <2>10, Distribute
  <2>12. /\ Tolerance * (s.inputs + 1) = Tolerance * s.inputs + Tolerance
         /\ Tolerance * s.inputs \in Nat
    BY <2>8
  <2>13. /\ (MaxStep + Tolerance) * (s.inputs + 1)
                = (MaxStep + Tolerance) * s.inputs + (MaxStep + Tolerance)
         /\ (MaxStep + Tolerance) * s.inputs \in Nat
    BY <2>8
  <2> HIDE DEF early, later, moved, step
  <2>14. Gap(s.start, x) <= Speed * (early + later) + Tolerance * (s.inputs + 1)
    BY <2>6, <2>7, <2>9, <2>11, <2>12
  <2>15. Gap(s.start, x) <= (MaxStep + Tolerance) * (s.inputs + 1)
    BY <2>6, <2>7, <2>9, <2>13
  <2>16. s.since <= clock
    BY <2>3, <2>6, <2>8
  <2>17. Gap(s.start, x) <= Speed * (clock - s.since) + Tolerance * (s.inputs + 1)
    BY <2>10, <2>14
  <2> HIDE DEF s, st
  <2>18. Reached(stay'[r][p], state'[r][p])
    BY <2>3, <2>4, <2>15, <2>16, <2>17 DEF Reached
  <2> QED
    BY <1>6, <1>7, <2>1, <2>4, <2>18
<1>12. CASE UNCHANGED vars
  BY <1>12 DEF vars, WithinReach
<1> QED
  BY <1>1, <1>2, <1>3, <1>4, <1>5, <1>8, <1>9, <1>10, <1>11, <1>12 DEF Next

\* isMovementAllowed looks at one input at a time; over a whole stay a player still moves no
\* further than the speed limit allows, plus one tolerance per accepted input.
THEOREM MovementAddsUp == Spec => []WithinReach
<1>1. Init => WithinReach
  BY DEF Init, WithinReach
<1> QED
  BY <1>1, TypeInit, TypeStep, ReachStep, PTL DEF Spec

------------------------------------------------------------------------------
(* The delta stream *)

\* DeltasInOrder of one room.
Ordered(ds, h, v) ==
    /\ h <= v
    /\ \A i \in 1..Len(ds) :
        /\ h < ds[i].version
        /\ ds[i].version <= v
        /\ \A j \in 1..Len(ds) : i < j => ds[i].version < ds[j].version

LEMMA OrderedAll == DeltasInOrder <=> \A r \in Room : Ordered(deltas[r], handed[r], version[r])
BY DEF DeltasInOrder, Ordered

\* A list stays in order when the version grows without it.
LEMMA OrderedLater ==
    ASSUME TypeOK, NEW r \in Room, Ordered(deltas[r], handed[r], version[r])
    PROVE  Ordered(deltas[r], handed[r], version[r] + 1)
<1>1. \A i \in 1..Len(deltas[r]) : deltas[r][i].version \in Nat
  BY EntriesTyped DEF Delta
<1> QED
  BY <1>1, EntriesTyped DEF Ordered

\* Pushing a delta of the next version keeps a list in order ...
LEMMA OrderedAppend ==
    ASSUME NEW ds \in Seq(Delta), NEW es \in Seq(Delta), NEW h \in Nat, NEW v \in Nat,
           Ordered(ds, h, v), Len(es) = Len(ds) + 1,
           \A i \in 1..Len(ds) : es[i] = ds[i],
           es[Len(ds) + 1].version = v + 1
    PROVE  Ordered(es, h, v + 1)
<1>1. Len(ds) \in Nat /\ \A i \in 1..Len(ds) : ds[i].version \in Nat
  <2>1. Len(ds) \in Nat /\ \A i \in 1..Len(ds) : ds[i] \in Delta
    OBVIOUS
  <2> QED
    BY <2>1 DEF Delta
<1>2. /\ h <= v
      /\ \A i \in 1..Len(ds) : h < ds[i].version /\ ds[i].version <= v
      /\ \A i, j \in 1..Len(ds) : i < j => ds[i].version < ds[j].version
  BY DEF Ordered
<1>3. ASSUME NEW i \in 1..Len(es) PROVE h < es[i].version /\ es[i].version <= v + 1
  <2>1. CASE i = Len(ds) + 1
    BY <1>2, <2>1
  <2>2. CASE i # Len(ds) + 1
    <3>1. i \in 1..Len(ds) /\ es[i] = ds[i]
      BY <1>1, <2>2
    <3> QED
      BY <1>1, <1>2, <3>1
  <2> QED
    BY <2>1, <2>2
<1>4. ASSUME NEW i \in 1..Len(es), NEW j \in 1..Len(es), i < j
      PROVE  es[i].version < es[j].version
  <2>1. i \in 1..Len(ds) /\ es[i] = ds[i]
    BY <1>1, <1>4
  <2>2. ds[i].version \in Nat /\ ds[i].version <= v
    BY <1>1, <1>2, <2>1
  <2>3. CASE j = Len(ds) + 1
    BY <2>1, <2>2, <2>3
  <2>4. CASE j # Len(ds) + 1
    <3>1. j \in 1..Len(ds) /\ es[j] = ds[j]
      BY <1>1, <2>4
    <3> QED
      BY <1>2, <1>4, <2>1, <3>1
  <2> QED
    BY <2>3, <2>4
<1> QED
  BY <1>2, <1>3, <1>4 DEF Ordered

\* ... and so does dropping entries at the front.
LEMMA OrderedDrop ==
    ASSUME NEW es \in Seq(Delta), NEW ts \in Seq(Delta), NEW h \in Nat, NEW v \in Nat,
           NEW k \in Nat, Ordered(es, h, v), Len(ts) = Len(es) - k,
           \A i \in 1..Len(ts) : ts[i] = es[i + k]
    PROVE  Ordered(ts, h, v)
<1>1. Len(es) \in Nat /\ Len(ts) \in Nat
  OBVIOUS
<1>2. \A i \in 1..Len(ts) : i + k \in 1..Len(es)
  BY <1>1
<1>3. ASSUME NEW i \in 1..Len(ts), NEW j \in 1..Len(ts), i < j
      PROVE  ts[i].version < ts[j].version
  <2>1. i + k \in 1..Len(es) /\ j + k \in 1..Len(es) /\ i + k < j + k
    BY <1>1, <1>2, <1>3
  <2> QED
    BY <2>1 DEF Ordered
<1> QED
  BY <1>2, <1>3 DEF Ordered

\* accept() does the one and then, when the list is too long, the other.
LEMMA OrderedPush ==
    ASSUME TypeOK, NEW r \in Room, NEW p \in Player, NEW x \in Position,
           NEW n \in 1..MaxInput, Ordered(deltas[r], handed[r], version[r])
    PROVE  Ordered(Trimmed(Accepted(r, p, x, n)), handed[r], version[r] + 1)
<1>1. /\ Accepted(r, p, x, n) \in Seq(Delta)
      /\ Len(Accepted(r, p, x, n)) = Len(deltas[r]) + 1
  BY AcceptedType
<1>2. \A i \in 1..Len(deltas[r]) : Accepted(r, p, x, n)[i] = deltas[r][i]
  BY AcceptedType
<1>3. Accepted(r, p, x, n)[Len(deltas[r]) + 1].version = version[r] + 1
  <2>1. Accepted(r, p, x, n)[Len(deltas[r]) + 1] =
            [player |-> p, pos |-> x, seq |-> n, version |-> version[r] + 1]
    BY AcceptedType
  <2> QED
    BY <2>1
<1>4. /\ deltas[r] \in Seq(Delta) /\ handed[r] \in Nat /\ version[r] + 1 \in Nat
      /\ version[r] \in Nat /\ Len(deltas[r]) \in Nat /\ Len(deltas[r]) <= MaxDeltas
  BY EntriesTyped
<1>5. Ordered(Accepted(r, p, x, n), handed[r], version[r] + 1)
  BY <1>1, <1>2, <1>3, <1>4, OrderedAppend
<1>6. Len(Accepted(r, p, x, n)) <= MaxDeltas + 1
  BY <1>1, <1>4, ConstantsTyped
<1>7. Trimmed(Accepted(r, p, x, n)) \in Seq(Delta)
  BY <1>1, <1>6, TrimmedShift
<1>8. PICK k \in {0, 1} :
        /\ Len(Trimmed(Accepted(r, p, x, n))) = Len(Accepted(r, p, x, n)) - k
        /\ \A i \in 1..Len(Trimmed(Accepted(r, p, x, n))) :
                Trimmed(Accepted(r, p, x, n))[i] = Accepted(r, p, x, n)[i + k]
  BY <1>1, <1>6, TrimmedShift
<1>9. k \in Nat
  OBVIOUS
<1> QED
  BY <1>1, <1>4, <1>5, <1>7, <1>8, <1>9, OrderedDrop

LEMMA OrderStep == TypeOK /\ DeltasInOrder /\ [Next]_vars => DeltasInOrder'
<1> SUFFICES ASSUME TypeOK, DeltasInOrder, [Next]_vars PROVE DeltasInOrder'
  OBVIOUS
<1>1. CASE Tick
  BY <1>1 DEF Tick, roomVars, DeltasInOrder
<1>2. CASE BuildDueSnapshots
  BY <1>2 DEF BuildDueSnapshots, DeltasInOrder
<1>3. ASSUME NEW r \in Room, RegisterRoom(r) PROVE DeltasInOrder'
  BY <1>3 DEF RegisterRoom, roomVars, DeltasInOrder
<1>4. ASSUME NEW r \in Room,
             \A q \in Room \ {r} : /\ deltas'[q] = deltas[q] /\ handed'[q] = handed[q]
                                   /\ version'[q] = version[q],
             Ordered(deltas'[r], handed'[r], version'[r])
      PROVE  DeltasInOrder'
  <2> SUFFICES ASSUME NEW q \in Room PROVE Ordered(deltas'[q], handed'[q], version'[q])
    BY DEF DeltasInOrder, Ordered
  <2> QED
    BY <1>4, OrderedAll
<1>5. ASSUME NEW r \in Room, Bump(r), UNCHANGED <<deltas, handed>> PROVE DeltasInOrder'
  <2>1. version'[r] = version[r] + 1 /\ \A q \in Room \ {r} : version'[q] = version[q]
    BY <1>5 DEF Bump, TypeOK
  <2>2. Ordered(deltas[r], handed[r], version[r] + 1)
    BY OrderedAll, OrderedLater
  <2> QED
    BY <1>4, <1>5, <2>1, <2>2
<1>6. ASSUME NEW r \in Room, UnregisterRoom(r) PROVE DeltasInOrder'
  <2>1. deltas'[r] = <<>> /\ handed'[r] = 0 /\ version'[r] = 0
    BY <1>6 DEF UnregisterRoom, TypeOK
  <2>2. Ordered(deltas'[r], handed'[r], version'[r])
    BY <2>1 DEF Ordered
  <2>3. \A q \in Room \ {r} : /\ deltas'[q] = deltas[q] /\ handed'[q] = handed[q]
                              /\ version'[q] = version[q]
    BY <1>6 DEF UnregisterRoom, TypeOK
  <2> QED
    BY <1>4, <2>2, <2>3
<1>7. ASSUME NEW r \in Room, DrainDeltas(r) PROVE DeltasInOrder'
  <2>1. Last(deltas[r]) = deltas[r][Len(deltas[r])] /\ Len(deltas[r]) \in 1..Len(deltas[r])
    BY <1>7, LastDelta DEF DrainDeltas
  <2>2. Last(deltas[r]).version <= version[r]
    BY <2>1 DEF DeltasInOrder
  <2>3. deltas'[r] = <<>> /\ handed'[r] = Last(deltas[r]).version /\ version'[r] = version[r]
    BY <1>7 DEF DrainDeltas, TypeOK
  <2>4. Ordered(deltas'[r], handed'[r], version'[r])
    BY <2>2, <2>3 DEF Ordered
  <2>5. \A q \in Room \ {r} : /\ deltas'[q] = deltas[q] /\ handed'[q] = handed[q]
                              /\ version'[q] = version[q]
    BY <1>7 DEF DrainDeltas, TypeOK
  <2> QED
    BY <1>4, <2>4, <2>5
<1>8. ASSUME NEW r \in Room, NEW p \in Player, RemovePlayer(r, p) PROVE DeltasInOrder'
  BY <1>5, <1>8 DEF RemovePlayer
<1>9. ASSUME NEW r \in Room, NEW p \in Player, MarkPlayerOffline(r, p) PROVE DeltasInOrder'
  BY <1>5, <1>9 DEF MarkPlayerOffline
<1>10. ASSUME NEW r \in Room, NEW p \in Player, NEW x \in Position, AddPlayer(r, p, x)
       PROVE  DeltasInOrder'
  BY <1>5, <1>10 DEF AddPlayer
<1>11. ASSUME NEW r \in Room, NEW p \in Player, NEW x \in Position, NEW n \in 1..MaxInput,
              SubmitState(r, p, x, n)
       PROVE  DeltasInOrder'
  <2>1. /\ deltas'[r] = Trimmed(Accepted(r, p, x, n)) /\ version'[r] = version[r] + 1
        /\ handed'[r] = handed[r]
        /\ \A q \in Room \ {r} : /\ deltas'[q] = deltas[q] /\ handed'[q] = handed[q]
                                 /\ version'[q] = version[q]
    BY <1>11 DEF SubmitState, Bump, TypeOK
  <2>2. Ordered(Trimmed(Accepted(r, p, x, n)), handed[r], version[r] + 1)
    BY OrderedAll, OrderedPush
  <2> QED
    BY <1>4, <2>1, <2>2
<1>12. CASE UNCHANGED vars
  BY <1>12 DEF vars, DeltasInOrder
<1> QED
  BY <1>1, <1>2, <1>3, <1>6, <1>7, <1>8, <1>9, <1>10, <1>11, <1>12 DEF Next

LEMMA OrderInit == Init => DeltasInOrder
BY DEF Init, DeltasInOrder

\* However calls interleave, drainDeltas hands out each delta once, in the order of versions.
THEOREM DeltasAreOrdered == Spec => []DeltasInOrder
BY OrderInit, OrderStep, TypeInit, TypeStep, PTL DEF Spec

------------------------------------------------------------------------------
(* The reports of accepted inputs *)

\* What the server holds of a player against u, the last accepted input.
Held(present, s, st, u) ==
    IF present THEN st.seq = u.seq /\ (s.inputs > 0 => st.pos = u.pos)
    ELSE st.seq = 0 /\ u = NoInput

InputsHeld ==
    \A r \in Room : \A p \in Player :
        Held(p \in players[r], stay[r][p], state[r][p], lastInput[r][p])

LEMMA HeldStep == TypeOK /\ InputsHeld /\ [Next]_vars => InputsHeld'
<1> SUFFICES ASSUME TypeOK, InputsHeld, [Next]_vars PROVE InputsHeld'
  OBVIOUS
<1>1. \A q \in Room : \A o \in Player :
         Held(o \in players[q], stay[q][o], state[q][o], lastInput[q][o])
  BY DEF InputsHeld
\* A step that writes one player of one room.
<1>2. ASSUME NEW r \in Room, NEW p \in Player,
             \A q \in Room, o \in Player : <<q, o>> # <<r, p>> =>
                /\ o \in players'[q] <=> o \in players[q]
                /\ stay'[q][o] = stay[q][o] /\ state'[q][o] = state[q][o]
                /\ lastInput'[q][o] = lastInput[q][o],
             Held(p \in players'[r], stay'[r][p], state'[r][p], lastInput'[r][p])
      PROVE  InputsHeld'
  <2> SUFFICES ASSUME NEW q \in Room, NEW o \in Player
               PROVE  Held(o \in players'[q], stay'[q][o], state'[q][o], lastInput'[q][o])
    BY DEF InputsHeld, Held
  <2>1. CASE <<q, o>> = <<r, p>>
    BY <1>2, <2>1
  <2>2. CASE <<q, o>> # <<r, p>>
    BY <1>1, <1>2, <2>2 DEF Held
  <2> QED
    BY <2>1, <2>2
<1>3. CASE Tick \/ BuildDueSnapshots \/ UNCHANGED vars
  BY <1>3 DEF Tick, BuildDueSnapshots, vars, roomVars, InputsHeld, Held
<1>4. ASSUME NEW r \in Room, RegisterRoom(r) PROVE InputsHeld'
  BY <1>4 DEF RegisterRoom, roomVars, InputsHeld, Held
<1>5. ASSUME NEW r \in Room, UnregisterRoom(r) PROVE InputsHeld'
  <2>1. /\ players'[r] = {}
        /\ \A p \in Player : lastInput'[r][p] = NoInput /\ state'[r][p] = Nowhere
        /\ \A q \in Room \ {r} : /\ players'[q] = players[q] /\ state'[q] = state[q]
                                 /\ stay'[q] = stay[q] /\ lastInput'[q] = lastInput[q]
    BY <1>5 DEF UnregisterRoom, TypeOK
  <2>2. ASSUME NEW q \in Room, NEW o \in Player
        PROVE  Held(o \in players'[q], stay'[q][o], state'[q][o], lastInput'[q][o])
    <3>1. CASE q = r
      BY <2>1, <3>1 DEF Held, Nowhere
    <3>2. CASE q # r
      BY <1>1, <2>1, <3>2 DEF Held
    <3> QED
      BY <3>1, <3>2
  <2> QED
    BY <2>2 DEF InputsHeld, Held
<1>6. ASSUME NEW r \in Room, DrainDeltas(r) PROVE InputsHeld'
  <2>1. /\ UNCHANGED <<players, state, stay>>
        /\ \A p \in Player : lastInput'[r][p] = Settled(deltas[r], p, lastInput[r][p])
        /\ \A q \in Room \ {r} : lastInput'[q] = lastInput[q]
    BY <1>6 DEF DrainDeltas, TypeOK
  <2>2. ASSUME NEW q \in Room, NEW o \in Player
        PROVE  Held(o \in players'[q], stay'[q][o], state'[q][o], lastInput'[q][o])
    <3>1. CASE q = r
      <4>1. lastInput[r][o] \in Input
        BY EntriesTyped
      <4>2. /\ lastInput'[r][o].seq = lastInput[r][o].seq
            /\ lastInput'[r][o].pos = lastInput[r][o].pos
        BY <2>1, <4>1, SettledTyped
      <4>3. ASSUME lastInput[r][o] = NoInput PROVE lastInput'[r][o] = NoInput
        <5>1. lastInput[r][o].fate # "pending"
          BY <4>3 DEF NoInput
        <5> QED
          BY <2>1, <4>3, <5>1 DEF Settled
      <4> QED
        BY <1>1, <2>1, <3>1, <4>2, <4>3 DEF Held
    <3>2. CASE q # r
      BY <1>1, <2>1, <3>2 DEF Held
    <3> QED
      BY <3>1, <3>2
  <2> QED
    BY <2>2 DEF InputsHeld, Held
<1>7. ASSUME NEW r \in Room, NEW p \in Player, RemovePlayer(r, p) PROVE InputsHeld'
  <2>1. /\ p \notin players'[r] /\ lastInput'[r][p] = NoInput /\ state'[r][p] = Nowhere
        /\ \A q \in Room, o \in Player : <<q, o>> # <<r, p>> =>
                /\ o \in players'[q] <=> o \in players[q]
                /\ stay'[q][o] = stay[q][o] /\ state'[q][o] = state[q][o]
                /\ lastInput'[q][o] = lastInput[q][o]
    BY <1>7 DEF RemovePlayer, TypeOK
  <2>2. Held(p \in players'[r], stay'[r][p], state'[r][p], lastInput'[r][p])
    BY <2>1 DEF Held, Nowhere
  <2> QED
    BY <1>2, <2>1, <2>2
<1>8. ASSUME NEW r \in Room, NEW p \in Player, MarkPlayerOffline(r, p) PROVE InputsHeld'
  <2>1. /\ UNCHANGED <<players, stay, lastInput>>
        /\ \A q \in Room, o \in Player : <<q, o>> # <<r, p>> => state'[q][o] = state[q][o]
    BY <1>8 DEF MarkPlayerOffline, TypeOK
  <2>2. state'[r][p].seq = state[r][p].seq /\ state'[r][p].pos = state[r][p].pos
    BY <1>8 DEF MarkPlayerOffline, TypeOK, PlayerState
  <2>3. Held(p \in players'[r], stay'[r][p], state'[r][p], lastInput'[r][p])
    BY <1>1, <2>1, <2>2 DEF Held
  <2> QED
    BY <1>2, <2>1, <2>3
<1>9. ASSUME NEW r \in Room, NEW p \in Player, NEW x \in Position, AddPlayer(r, p, x)
      PROVE  InputsHeld'
  <2>1. /\ UNCHANGED lastInput /\ p \in players'[r]
        /\ state'[r][p].seq = state[r][p].seq
        /\ stay'[r][p] = [NoStay EXCEPT !.start = x, !.since = clock]
        /\ \A q \in Room, o \in Player : <<q, o>> # <<r, p>> =>
                /\ o \in players'[q] <=> o \in players[q]
                /\ stay'[q][o] = stay[q][o] /\ state'[q][o] = state[q][o]
    BY <1>9 DEF AddPlayer, TypeOK
  <2>2. state[r][p].seq = lastInput[r][p].seq
    BY <1>1 DEF Held, NoInput
  <2>3. ~(stay'[r][p].inputs > 0)
    BY <2>1 DEF NoStay
  <2>4. Held(p \in players'[r], stay'[r][p], state'[r][p], lastInput'[r][p])
    BY <2>1, <2>2, <2>3 DEF Held
  <2> QED
    BY <1>2, <2>1, <2>4
<1>10. ASSUME NEW r \in Room, NEW p \in Player, NEW x \in Position, NEW n \in 1..MaxInput,
              SubmitState(r, p, x, n)
       PROVE  InputsHeld'
  <2>1. /\ UNCHANGED players /\ p \in players[r]
        /\ state'[r][p].seq = n /\ state'[r][p].pos = x
        /\ lastInput'[r][p].seq = n /\ lastInput'[r][p].pos = x
        /\ \A q \in Room, o \in Player : <<q, o>> # <<r, p>> =>
                /\ stay'[q][o] = stay[q][o] /\ state'[q][o] = state[q][o]
                /\ lastInput'[q][o] = lastInput[q][o]
    BY <1>10 DEF SubmitState, TypeOK
  <2>2. Held(p \in players'[r], stay'[r][p], state'[r][p], lastInput'[r][p])
    BY <2>1 DEF Held
  <2> QED
    BY <1>2, <2>1, <2>2
<1> QED
  BY <1>3, <1>4, <1>5, <1>6, <1>7, <1>8, <1>9, <1>10 DEF Next

LEMMA HeldInit == Init => InputsHeld
BY DEF Init, InputsHeld, Held, Nowhere

\* No input was accepted under a version that the room has not reached.
ChangesHappened == \A r \in Room : \A p \in Player : lastInput[r][p].version <= version[r]

\* What AcceptedInputsAreTold says of the delta of one input.
Told(ds, p, u) == u.fate = "pending" => Waits(ds, p, u) \/ GaveWay(ds, u)

PendingTold == \A r \in Room : \A p \in Player : Told(deltas[r], p, lastInput[r][p])

ReportInv == TypeOK /\ DeltasInOrder /\ InputsHeld /\ ChangesHappened /\ PendingTold

\* es is ds and one more delta, ts is what is left of es when k old ones give way.
Pushed(ds, es, ts, k, h, v) ==
    /\ {ds, es, ts} \subseteq Seq(Delta) /\ k \in {0, 1} /\ {h, v} \subseteq Nat
    /\ Ordered(es, h, v) /\ es[Len(es)].version = v
    /\ Len(ds) <= MaxDeltas
    /\ Len(es) = Len(ds) + 1 /\ \A i \in 1..Len(ds) : es[i] = ds[i]
    /\ Len(ts) = Len(es) - k /\ \A i \in 1..Len(ts) : ts[i] = es[i + k]
    /\ k = 1 => Len(ts) = MaxDeltas
    /\ k = 0 => Len(es) <= MaxDeltas

\* Pushing a newer delta loses a report only by MaxDeltas.
LEMMA ToldPush ==
    ASSUME NEW ds, NEW es, NEW ts, NEW k, NEW h, NEW v, Pushed(ds, es, ts, k, h, v),
           NEW p, NEW u \in Input, u.version < v, Told(ds, p, u)
    PROVE  Told(ts, p, u)
<1> ds \in Seq(Delta) /\ es \in Seq(Delta) /\ ts \in Seq(Delta) /\ k \in {0, 1} /\ h \in Nat /\ v \in Nat
  BY DEF Pushed
<1> Ordered(es, h, v) /\ es[Len(es)].version = v
  BY DEF Pushed
<1>1. /\ Len(ds) \in Nat /\ Len(es) \in Nat /\ Len(ts) \in Nat /\ MaxDeltas \in Nat /\ u.version \in Nat
      /\ Len(ds) <= MaxDeltas
      /\ Len(es) = Len(ds) + 1 /\ \A i \in 1..Len(ds) : es[i] = ds[i]
      /\ Len(ts) = Len(es) - k /\ \A i \in 1..Len(ts) : ts[i] = es[i + k]
      /\ k = 1 => Len(ts) = MaxDeltas
      /\ k = 0 => Len(es) <= MaxDeltas
  BY ConstantsTyped DEF Input, Pushed
<1> SUFFICES ASSUME u.fate = "pending"
             PROVE  \/ \E i \in 1..Len(ts) : ts[i] = Report(p, u)
                    \/ Len(ts) = MaxDeltas /\ \A i \in 1..Len(ts) : u.version < ts[i].version
  BY DEF Told, Waits, GaveWay
<1>2. \A i \in 1..Len(es) : es[i].version \in Nat
  <2>1. \A i \in 1..Len(es) : es[i] \in Delta
    OBVIOUS
  <2> QED
    BY <2>1 DEF Delta
<1>3. CASE \E i \in 1..Len(ds) : ds[i] = Report(p, u)
  <2>1. PICK i \in 1..Len(ds) : ds[i] = Report(p, u)
    BY <1>3
  <2>2. i \in 1..Len(es) /\ es[i] = Report(p, u)
    BY <1>1, <2>1
  <2>3. CASE i - k \in 1..Len(ts)
    <3>1. ts[i - k] = es[(i - k) + k] /\ (i - k) + k = i
      BY <1>1, <2>3
    <3> QED
      BY <2>2, <2>3, <3>1
  <2>4. CASE i - k \notin 1..Len(ts)
    <3>1. k = 1 /\ i = 1
      BY <1>1, <2>4
    <3>2. ASSUME NEW j \in 1..Len(ts) PROVE u.version < ts[j].version
      <4>1. j + 1 \in 1..Len(es) /\ 1 < j + 1 /\ ts[j] = es[j + 1]
        BY <1>1, <3>1
      <4>2. es[1].version = u.version
        BY <2>2, <3>1 DEF Report
      <4> QED
        BY <2>2, <3>1, <4>1, <4>2 DEF Ordered
    <3> QED
      BY <1>1, <3>1, <3>2
  <2> QED
    BY <2>3, <2>4
<1>4. CASE Len(ds) = MaxDeltas /\ \A i \in 1..Len(ds) : u.version < ds[i].version
  <2>1. k = 1 /\ Len(ts) = MaxDeltas
    BY <1>1, <1>4
  <2>2. ASSUME NEW j \in 1..Len(ts) PROVE u.version < ts[j].version
    <3>1. j + 1 \in 1..Len(es) /\ ts[j] = es[j + 1]
      BY <1>1, <2>1
    <3>2. CASE j + 1 \in 1..Len(ds)
      BY <1>1, <1>4, <3>1, <3>2
    <3>3. CASE j + 1 = Len(es)
      BY <3>1, <3>3
    <3> QED
      BY <1>1, <3>1, <3>2, <3>3
  <2> QED
    BY <2>1, <2>2
<1> QED
  BY <1>3, <1>4 DEF Told, Waits, GaveWay

\* accept() pushes the delta of the input itself last, where only a limit of zero drops it.
LEMMA PushedIsTold ==
    ASSUME NEW es \in Seq(Delta), NEW ts \in Seq(Delta), NEW k \in {0, 1}, Len(es) >= 1,
           Len(ts) = Len(es) - k, k = 1 => Len(ts) = MaxDeltas,
           \A i \in 1..Len(ts) : ts[i] = es[i + k],
           NEW p, NEW u, es[Len(es)] = Report(p, u)
    PROVE  Told(ts, p, u)
<1>1. Len(es) \in Nat /\ Len(ts) \in Nat
  OBVIOUS
<1>2. CASE Len(ts) >= 1
  <2>1. Len(ts) \in 1..Len(ts) /\ Len(ts) + k = Len(es)
    BY <1>1, <1>2
  <2>2. ts[Len(ts)] = Report(p, u)
    BY <2>1
  <2> QED
    BY <2>1, <2>2 DEF Told, Waits
<1>3. CASE Len(ts) = 0
  <2>1. k = 1 /\ Len(ts) = MaxDeltas
    BY <1>1, <1>3
  <2> QED
    BY <1>3, <2>1 DEF Told, GaveWay
<1> QED
  BY <1>1, <1>2, <1>3

\* After a drain nothing is pending but what has nothing to wait for.
LEMMA SettledIsTold ==
    ASSUME NEW ds, NEW p, NEW u \in Input, Told(ds, p, u)
    PROVE  Settled(ds, p, u).fate # "pending"
BY DEF Settled, Told, Input, Fate

LEMMA ReportsStep == ReportInv /\ [Next]_vars => PendingTold' /\ ChangesHappened'
<1> SUFFICES ASSUME ReportInv, [Next]_vars PROVE PendingTold' /\ ChangesHappened'
  OBVIOUS
<1>1. /\ TypeOK /\ TypeOK' /\ DeltasInOrder /\ InputsHeld
      /\ \A r \in Room : \A p \in Player : lastInput[r][p].version <= version[r]
      /\ \A r \in Room : \A p \in Player : Told(deltas[r], p, lastInput[r][p])
  BY TypeStep DEF ReportInv, ChangesHappened, PendingTold
<1>2. \A r \in Room, p \in Player : /\ lastInput[r][p] \in Input /\ lastInput[r][p].version \in Nat
                                    /\ version[r] \in Nat
  BY <1>1, EntriesTyped DEF Input
\* A step writes one room r.
<1>3. ASSUME NEW r \in Room,
             \A q \in Room \ {r} : /\ deltas'[q] = deltas[q] /\ version'[q] = version[q]
                                   /\ lastInput'[q] = lastInput[q],
             \A p \in Player : lastInput'[r][p].version <= version'[r],
             \A p \in Player : Told(deltas'[r], p, lastInput'[r][p])
      PROVE  PendingTold' /\ ChangesHappened'
  <2>1. ASSUME NEW q \in Room, NEW p \in Player PROVE lastInput'[q][p].version <= version'[q]
    BY <1>1, <1>3
  <2>2. ASSUME NEW q \in Room, NEW p \in Player PROVE Told(deltas'[q], p, lastInput'[q][p])
    BY <1>1, <1>3
  <2> QED
    BY <2>1, <2>2 DEF ChangesHappened, PendingTold, Told, Waits, GaveWay
\* No delta moves, and each player of r keeps the last input or loses it.
<1>4. ASSUME NEW r \in Room, Bump(r), UNCHANGED deltas,
             \A q \in Room \ {r} : lastInput'[q] = lastInput[q],
             \A p \in Player : lastInput'[r][p] \in {NoInput, lastInput[r][p]}
      PROVE  PendingTold' /\ ChangesHappened'
  <2>1. version'[r] = version[r] + 1 /\ \A q \in Room \ {r} : version'[q] = version[q]
    BY <1>1, <1>4 DEF Bump, TypeOK
  <2>2. ASSUME NEW p \in Player PROVE lastInput'[r][p].version <= version'[r]
    <3>1. lastInput'[r][p].version \in {0, lastInput[r][p].version}
      BY <1>4 DEF NoInput
    <3>2. lastInput[r][p].version <= version[r] /\ lastInput[r][p].version \in Nat /\ version[r] \in Nat
      BY <1>1, <1>2
    <3> QED
      BY <2>1, <3>1, <3>2
  <2>3. ASSUME NEW p \in Player PROVE Told(deltas'[r], p, lastInput'[r][p])
    <3>1. CASE lastInput'[r][p] = NoInput
      BY <3>1 DEF Told, NoInput
    <3>2. CASE lastInput'[r][p] = lastInput[r][p]
      BY <1>1, <1>4, <3>2
    <3> QED
      BY <1>4, <3>1, <3>2
  <2> QED
    BY <1>3, <1>4, <2>1, <2>2, <2>3
<1>5. CASE Tick \/ BuildDueSnapshots \/ UNCHANGED vars
  <2>1. UNCHANGED <<version, deltas, lastInput>>
    BY <1>5 DEF Tick, BuildDueSnapshots, vars, roomVars
  <2> QED
    BY <2>1 DEF ReportInv, ChangesHappened, PendingTold, Told, Waits, GaveWay
<1>6. ASSUME NEW r \in Room, RegisterRoom(r) PROVE PendingTold' /\ ChangesHappened'
  <2>1. UNCHANGED <<version, deltas, lastInput>>
    BY <1>6 DEF RegisterRoom, roomVars
  <2> QED
    BY <2>1 DEF ReportInv, ChangesHappened, PendingTold, Told, Waits, GaveWay
<1>7. ASSUME NEW r \in Room, UnregisterRoom(r) PROVE PendingTold' /\ ChangesHappened'
  <2>1. /\ version'[r] = 0 /\ \A p \in Player : lastInput'[r][p] = NoInput
        /\ \A q \in Room \ {r} : /\ deltas'[q] = deltas[q] /\ version'[q] = version[q]
                                 /\ lastInput'[q] = lastInput[q]
    BY <1>1, <1>7 DEF UnregisterRoom, TypeOK
  <2>2. \A p \in Player : lastInput'[r][p].version <= version'[r]
    BY <2>1 DEF NoInput
  <2>3. \A p \in Player : Told(deltas'[r], p, lastInput'[r][p])
    BY <2>1 DEF NoInput, Told
  <2> QED
    BY <1>3, <2>1, <2>2, <2>3
<1>8. ASSUME NEW r \in Room, DrainDeltas(r) PROVE PendingTold' /\ ChangesHappened'
  <2>1. /\ UNCHANGED version
        /\ \A p \in Player : lastInput'[r][p] = Settled(deltas[r], p, lastInput[r][p])
        /\ \A q \in Room \ {r} : deltas'[q] = deltas[q] /\ lastInput'[q] = lastInput[q]
    BY <1>1, <1>8 DEF DrainDeltas, TypeOK
  <2>2. ASSUME NEW p \in Player PROVE lastInput'[r][p].version <= version'[r]
    BY <1>1, <1>2, <2>1, SettledTyped
  <2>3. ASSUME NEW p \in Player PROVE Told(deltas'[r], p, lastInput'[r][p])
    <3>1. Told(deltas[r], p, lastInput[r][p]) /\ lastInput[r][p] \in Input
      BY <1>1, <1>2
    <3>2. lastInput'[r][p].fate # "pending"
      BY <2>1, <3>1, SettledIsTold
    <3> QED
      BY <3>2 DEF Told
  <2> QED
    BY <1>3, <2>1, <2>2, <2>3
<1>9. ASSUME NEW r \in Room, NEW p \in Player, RemovePlayer(r, p)
      PROVE  PendingTold' /\ ChangesHappened'
  <2>1. /\ \A o \in Player : lastInput'[r][o] \in {NoInput, lastInput[r][o]}
        /\ \A q \in Room \ {r} : lastInput'[q] = lastInput[q]
    BY <1>1, <1>9 DEF RemovePlayer, TypeOK
  <2>2. Bump(r) /\ UNCHANGED deltas
    BY <1>9 DEF RemovePlayer
  <2> QED
    BY <1>4, <2>1, <2>2
<1>10. ASSUME NEW r \in Room, NEW p \in Player, MarkPlayerOffline(r, p)
       PROVE  PendingTold' /\ ChangesHappened'
  <2>1. UNCHANGED <<lastInput, deltas>> /\ Bump(r)
    BY <1>10 DEF MarkPlayerOffline
  <2> QED
    BY <1>4, <2>1
<1>11. ASSUME NEW r \in Room, NEW p \in Player, NEW x \in Position, AddPlayer(r, p, x)
       PROVE  PendingTold' /\ ChangesHappened'
  <2>1. UNCHANGED <<lastInput, deltas>> /\ Bump(r)
    BY <1>11 DEF AddPlayer
  <2> QED
    BY <1>4, <2>1
<1>12. ASSUME NEW r \in Room, NEW p \in Player, NEW x \in Position, NEW n \in 1..MaxInput,
              SubmitState(r, p, x, n)
       PROVE  PendingTold' /\ ChangesHappened'
  <2>1. PICK es, ts, d, v : /\ es = Accepted(r, p, x, n) /\ ts = Trimmed(Accepted(r, p, x, n))
                            /\ d = [player |-> p, pos |-> x, seq |-> n, version |-> version[r] + 1]
                            /\ v = version[r] + 1
    OBVIOUS
  <2>2. /\ es \in Seq(Delta) /\ Len(es) = Len(deltas[r]) + 1 /\ Len(deltas[r]) \in Nat
        /\ \A i \in 1..Len(deltas[r]) : es[i] = deltas[r][i]
        /\ es[Len(deltas[r]) + 1] = d
    BY <1>1, <2>1, AcceptedType
  <2>3. /\ deltas[r] \in Seq(Delta) /\ Len(deltas[r]) <= MaxDeltas /\ handed[r] \in Nat
        /\ version[r] \in Nat /\ v \in Nat /\ MaxDeltas \in Nat
    BY <1>1, <2>1, EntriesTyped, ConstantsTyped
  <2>4. Len(es) <= MaxDeltas + 1
    BY <2>2, <2>3
  <2>5. ts = Trimmed(es)
    BY <2>1
  <2>6. ts \in Seq(Delta)
    BY <2>2, <2>4, <2>5, TrimmedShift
  <2>7. PICK k \in {0, 1} : /\ Len(ts) = Len(es) - k /\ (k = 1 => Len(ts) = MaxDeltas)
                            /\ \A i \in 1..Len(ts) : ts[i] = es[i + k]
    BY <2>2, <2>4, <2>5, TrimmedShift
  <2>8. k = 0 => Len(es) <= MaxDeltas
    <3>1. Len(ts) <= MaxDeltas
      BY <2>2, <2>4, <2>5, TrimmedShift
    <3> QED
      BY <2>2, <2>7, <3>1
  <2>9. Ordered(es, handed[r], v)
    <3>1. Ordered(deltas[r], handed[r], version[r])
      BY <1>1, OrderedAll
    <3>2. es[Len(deltas[r]) + 1].version = version[r] + 1
      BY <2>1, <2>2
    <3> QED
      BY <2>1, <2>2, <2>3, <3>1, <3>2, OrderedAppend
  <2>10. es[Len(es)] = d /\ d.version = v /\ Len(es) >= 1
    BY <2>1, <2>2
  <2>push. Pushed(deltas[r], es, ts, k, handed[r], v)
    BY <2>2, <2>3, <2>6, <2>7, <2>8, <2>9, <2>10 DEF Pushed
  <2>11. /\ deltas'[r] = ts /\ version'[r] = v
         /\ \A q \in Room \ {r} : deltas'[q] = deltas[q] /\ version'[q] = version[q]
    <3>1. /\ version' = [version EXCEPT ![r] = version[r] + 1]
          /\ deltas' = [deltas EXCEPT ![r] = Trimmed(Accepted(r, p, x, n))]
      BY <1>12 DEF SubmitState, Bump
    <3>2. deltas'[r] = ts /\ \A q \in Room \ {r} : deltas'[q] = deltas[q]
      BY <1>1, <2>1, <3>1 DEF TypeOK
    <3>3. version'[r] = v /\ \A q \in Room \ {r} : version'[q] = version[q]
      BY <1>1, <2>1, <3>1 DEF TypeOK
    <3> QED
      BY <3>2, <3>3
  <2>12. PICK u : u = [pos |-> x, seq |-> n, version |-> v, fate |-> "pending"]
    OBVIOUS
  <2>13. /\ lastInput'[r][p] = u /\ u.version = v /\ d = Report(p, u)
         /\ \A o \in Player \ {p} : lastInput'[r][o] = lastInput[r][o]
         /\ \A q \in Room \ {r} : lastInput'[q] = lastInput[q]
    BY <1>1, <1>12, <2>1, <2>12 DEF SubmitState, TypeOK, Report
  <2>14. ASSUME NEW o \in Player PROVE lastInput'[r][o].version <= version'[r]
    <3>1. CASE o = p
      BY <2>3, <2>11, <2>13, <3>1
    <3>2. CASE o # p
      BY <1>1, <1>2, <2>1, <2>3, <2>11, <2>13, <3>2
    <3> QED
      BY <3>1, <3>2
  <2>15. ASSUME NEW o \in Player PROVE Told(deltas'[r], o, lastInput'[r][o])
    <3>1. CASE o = p
      <4>1. Told(ts, p, u)
        BY <2>2, <2>6, <2>7, <2>10, <2>13, PushedIsTold
      <4> QED
        BY <2>11, <2>13, <3>1, <4>1
    <3>2. CASE o # p
      <4>1. lastInput[r][o] \in Input /\ lastInput[r][o].version < v
        BY <1>1, <1>2, <2>1
      <4>2. Told(deltas[r], o, lastInput[r][o])
        BY <1>1
      <4>3. Told(ts, o, lastInput[r][o])
        BY <2>push, <4>1, <4>2, ToldPush
      <4> QED
        BY <2>11, <2>13, <3>2, <4>3
    <3> QED
      BY <3>1, <3>2
  <2> QED
    BY <1>3, <2>11, <2>13, <2>14, <2>15
<1> QED
  BY <1>5, <1>6, <1>7, <1>8, <1>9, <1>10, <1>11, <1>12 DEF Next, ReportInv

\* The delta of every player's last accepted input reaches whoever drains, unless
\* max_pending_deltas_per_room newer ones pushed it out, and says what the server holds, for
\* as long as addPlayer does not place the player elsewhere.
THEOREM InputsAreReported == Spec => []AcceptedInputsAreTold
<1>1. Init => ReportInv
  <2> SUFFICES ASSUME Init PROVE ReportInv
    OBVIOUS
  <2>1. TypeOK /\ DeltasInOrder /\ InputsHeld
    BY TypeInit, OrderInit, HeldInit
  <2>2. ChangesHappened /\ PendingTold
    BY DEF Init, ChangesHappened, PendingTold, Told, NoInput
  <2> QED
    BY <2>1, <2>2 DEF ReportInv
<1>2. ReportInv /\ [Next]_vars => ReportInv'
  BY TypeStep, OrderStep, HeldStep, ReportsStep DEF ReportInv
<1>3. ReportInv => AcceptedInputsAreTold
  <2> SUFFICES ASSUME ReportInv, NEW r \in Room, NEW p \in players[r]
               PROVE  /\ Told(deltas[r], p, lastInput[r][p])
                      /\ Held(TRUE, stay[r][p], state[r][p], lastInput[r][p])
    BY DEF AcceptedInputsAreTold, Told, Held
  <2>1. p \in Player
    BY DEF ReportInv, TypeOK
  <2> QED
    BY <2>1 DEF ReportInv, PendingTold, InputsHeld, Held
<1> QED
  BY <1>1, <1>2, <1>3, PTL DEF Spec

------------------------------------------------------------------------------
(* Versions and sequence numbers only grow *)

\* What a step does that nobody has to hear of: r keeps its players and their
\* states, and at most loses its deltas.
Quiet(r) ==
    /\ players'[r] = players[r] /\ state'[r] = state[r]
    /\ deltas'[r] \in {deltas[r], <<>>}

\* ChangesMoveForward of one room.
Forward(r) ==
    /\ r \in rooms \cap rooms' =>
        \/ version'[r] > version[r]
        \/ /\ players'[r] = players[r]
           /\ \A p \in players[r] : state'[r][p] = state[r][p]
           /\ \A i \in 1..Len(deltas'[r]) : ~(deltas'[r][i].version > version[r])
    /\ \A p \in players[r] \cap players'[r] : state'[r][p].seq >= state[r][p].seq

LEMMA QuietIsForward ==
    ASSUME TypeOK, DeltasInOrder, NEW r \in Room, Quiet(r) PROVE Forward(r)
<1>1. /\ version[r] \in Nat /\ players[r] \subseteq Player
      /\ \A p \in Player : state[r][p].seq \in Nat
  BY EntriesTyped DEF TypeOK, PlayerState
<1>2. ASSUME NEW i \in 1..Len(deltas'[r]) PROVE ~(deltas'[r][i].version > version[r])
  <2>1. CASE deltas'[r] = deltas[r]
    <3>1. deltas[r][i] \in Delta /\ deltas[r][i].version <= version[r]
      BY <1>2, <2>1 DEF TypeOK, DeltasInOrder
    <3> QED
      BY <1>1, <2>1, <3>1 DEF Delta
  <2>2. CASE deltas'[r] = <<>>
    BY <1>2, <2>2
  <2> QED
    BY <2>1, <2>2 DEF Quiet
<1>3. \A p \in players[r] \cap players'[r] : state'[r][p].seq >= state[r][p].seq
  BY <1>1 DEF Quiet
<1> QED
  BY <1>2, <1>3 DEF Quiet, Forward

\* A method that advances the version only has to keep the sequence numbers.
LEMMA BumpIsForward ==
    ASSUME TypeOK, NEW r \in Room, Bump(r),
           \A p \in players[r] \cap players'[r] : state'[r][p].seq >= state[r][p].seq
    PROVE  Forward(r)
<1>1. version[r] \in Nat /\ version'[r] = version[r] + 1
  BY EntriesTyped DEF Bump, TypeOK
<1>2. version'[r] > version[r]
  BY <1>1
<1> QED
  BY <1>2 DEF Forward

LEMMA StepIsForward ==
    ASSUME TypeOK, DeltasInOrder, [Next]_vars, NEW q \in Room PROVE Forward(q)
<1>1. \A r \in Room : \A p \in Player : state[r][p] \in PlayerState /\ state[r][p].seq \in Nat
  BY DEF TypeOK, PlayerState
<1>2. CASE Tick \/ BuildDueSnapshots \/ UNCHANGED vars
  BY <1>2, QuietIsForward DEF Tick, BuildDueSnapshots, vars, roomVars, Quiet
<1>3. ASSUME NEW r \in Room, RegisterRoom(r) PROVE Forward(q)
  BY <1>3, QuietIsForward DEF RegisterRoom, roomVars, Quiet
<1>4. ASSUME NEW r \in Room, UnregisterRoom(r) PROVE Forward(q)
  <2>1. CASE q = r
    BY <1>4, <2>1 DEF UnregisterRoom, TypeOK, Forward
  <2>2. CASE q # r
    BY <1>4, <2>2, QuietIsForward DEF UnregisterRoom, TypeOK, Quiet
  <2> QED
    BY <2>1, <2>2
<1>5. ASSUME NEW r \in Room, DrainDeltas(r) PROVE Forward(q)
  BY <1>5, QuietIsForward DEF DrainDeltas, TypeOK, Quiet
<1>6. ASSUME NEW r \in Room, NEW p \in Player, RemovePlayer(r, p) PROVE Forward(q)
  <2>1. CASE q = r
    <3>1. \A o \in players[r] \cap players'[r] : state'[r][o].seq >= state[r][o].seq
      BY <1>1, <1>6 DEF RemovePlayer, TypeOK
    <3> QED
      BY <1>6, <2>1, <3>1, BumpIsForward DEF RemovePlayer
  <2>2. CASE q # r
    BY <1>6, <2>2, QuietIsForward DEF RemovePlayer, TypeOK, Quiet
  <2> QED
    BY <2>1, <2>2
<1>7. ASSUME NEW r \in Room, NEW p \in Player, MarkPlayerOffline(r, p) PROVE Forward(q)
  <2>1. CASE q = r
    <3>1. \A o \in Player : state'[r][o].seq = state[r][o].seq
      BY <1>1, <1>7, SMTT(30) DEF MarkPlayerOffline, TypeOK, PlayerState
    <3>2. \A o \in players[r] \cap players'[r] : state'[r][o].seq >= state[r][o].seq
      BY <1>1, <3>1 DEF TypeOK
    <3> QED
      BY <1>7, <2>1, <3>2, BumpIsForward DEF MarkPlayerOffline
  <2>2. CASE q # r
    BY <1>7, <2>2, QuietIsForward DEF MarkPlayerOffline, TypeOK, Quiet
  <2> QED
    BY <2>1, <2>2
<1>8. ASSUME NEW r \in Room, NEW p \in Player, NEW x \in Position, AddPlayer(r, p, x)
      PROVE  Forward(q)
  <2>1. CASE q = r
    <3>1. \A o \in Player : state'[r][o].seq = state[r][o].seq
      BY <1>1, <1>8 DEF AddPlayer, TypeOK
    <3>2. \A o \in players[r] \cap players'[r] : state'[r][o].seq >= state[r][o].seq
      BY <1>1, <3>1 DEF TypeOK
    <3> QED
      BY <1>8, <2>1, <3>2, BumpIsForward DEF AddPlayer
  <2>2. CASE q # r
    BY <1>8, <2>2, QuietIsForward DEF AddPlayer, TypeOK, Quiet
  <2> QED
    BY <2>1, <2>2
<1>9. ASSUME NEW r \in Room, NEW p \in Player, NEW x \in Position, NEW n \in 1..MaxInput,
             SubmitState(r, p, x, n)
      PROVE  Forward(q)
  <2>1. CASE q = r
    <3>1. /\ n > state[r][p].seq /\ state'[r][p].seq = n
          /\ \A o \in Player \ {p} : state'[r][o].seq = state[r][o].seq
      BY <1>9 DEF SubmitState, TypeOK
    <3>2. \A o \in players[r] \cap players'[r] : state'[r][o].seq >= state[r][o].seq
      <4> SUFFICES ASSUME NEW o \in players[r] PROVE state'[r][o].seq >= state[r][o].seq
        OBVIOUS
      <4>1. o \in Player /\ state[r][o].seq \in Nat
        BY <1>1 DEF TypeOK
      <4>2. CASE o = p
        BY <3>1, <4>1, <4>2
      <4>3. CASE o # p
        BY <3>1, <4>1, <4>3
      <4> QED
        BY <4>2, <4>3
    <3> QED
      BY <1>9, <2>1, <3>2, BumpIsForward DEF SubmitState
  <2>2. CASE q # r
    BY <1>9, <2>2, QuietIsForward DEF SubmitState, TypeOK, Quiet
  <2> QED
    BY <2>1, <2>2
<1> QED
  BY <1>2, <1>3, <1>4, <1>5, <1>6, <1>7, <1>8, <1>9 DEF Next

\* No method changes what a snapshot shows, or queues a delta, under the version a client has
\* seen, and a player's sequence number never falls back while the player stays.
THEOREM ClientsOnlyMoveForward == Spec => ChangesMoveForward
<1>1. TypeOK /\ DeltasInOrder /\ [Next]_vars =>
        [/\ \A r \in rooms \cap rooms' :
               \/ players'[r] # players[r]
               \/ \E p \in players[r] : state'[r][p] # state[r][p]
               \/ \E i \in 1..Len(deltas'[r]) : deltas'[r][i].version > version[r]
               => version'[r] > version[r]
         /\ \A r \in Room : \A p \in players[r] \cap players'[r] :
               state'[r][p].seq >= state[r][p].seq]_vars
  <2>1. SUFFICES ASSUME TypeOK, DeltasInOrder, [Next]_vars
                 PROVE  /\ \A r \in rooms \cap rooms' :
                              \/ players'[r] # players[r]
                              \/ \E p \in players[r] : state'[r][p] # state[r][p]
                              \/ \E i \in 1..Len(deltas'[r]) : deltas'[r][i].version > version[r]
                              => version'[r] > version[r]
                        /\ \A r \in Room : \A p \in players[r] \cap players'[r] :
                              state'[r][p].seq >= state[r][p].seq
    OBVIOUS
  <2>2. \A r \in Room : Forward(r)
    BY <2>1, StepIsForward
  <2>3. rooms \subseteq Room
    BY <2>1 DEF TypeOK
  <2> QED
    BY <2>2, <2>3 DEF Forward
<1> QED
  BY <1>1, TypeInit, TypeStep, OrderInit, OrderStep, PTL DEF Spec, ChangesMoveForward

================================================================================
