------------------------- MODULE NetworkGateway_proofs -------------------------
(***************************************************************************)
(* Theorems about NetworkGateway for every value of the limits and bounds  *)
(* and every set of messages that are too large.                           *)
(***************************************************************************)
EXTENDS NetworkGateway, FiniteSetTheorems, SequenceTheorems, TLAPS

\* The handlers of some kinds, and how many of them a strand holds.
Places(s, jobs) == {i \in 1..Len(s) : s[i] \in jobs}
Count(s, jobs)  == Cardinality(Places(s, jobs))

GatewayJobs(kinds) == {j \in GatewayJob : j.kind \in kinds}
JobsOf(kinds)      == {j \in Job : j.kind \in kinds}
Forgets(c)         == {j \in GatewayJob : j.kind = "forget" /\ j.id = c}

\* Counting in a queue: what Append, Tail and a row of equal handlers do to it.
LEMMA CountTyped ==
    ASSUME NEW S, NEW s \in Seq(S), NEW jobs
    PROVE  IsFiniteSet(Places(s, jobs)) /\ Count(s, jobs) \in Nat
<1>1. Len(s) \in Nat
  BY LenProperties
<1>2. IsFiniteSet(1..Len(s))
  BY <1>1, FS_Interval
<1>3. IsFiniteSet(Places(s, jobs))
  BY <1>2, FS_Subset DEF Places
<1> QED
  BY <1>3, FS_CardinalityType DEF Count

LEMMA CountNone ==
    ASSUME NEW jobs PROVE Count(<<>>, jobs) = 0
<1>1. Places(<<>>, jobs) = {}
  BY DEF Places
<1> QED
  BY <1>1, FS_EmptySet DEF Count

LEMMA CountAppend ==
    ASSUME NEW S, NEW s \in Seq(S), NEW x \in S, NEW jobs
    PROVE  Count(Append(s, x), jobs) = Count(s, jobs) + (IF x \in jobs THEN 1 ELSE 0)
<1>1. /\ Len(s) \in Nat /\ Len(Append(s, x)) = Len(s) + 1
      /\ \A i \in 1..Len(s) : Append(s, x)[i] = s[i]
      /\ Append(s, x)[Len(s) + 1] = x
  BY AppendProperties, LenProperties
<1>2. CASE x \in jobs
  <2>1. Places(Append(s, x), jobs) = Places(s, jobs) \cup {Len(s) + 1}
    BY <1>1, <1>2 DEF Places
  <2>2. Len(s) + 1 \notin Places(s, jobs)
    BY <1>1 DEF Places
  <2>3. IsFiniteSet(Places(s, jobs))
    BY CountTyped
  <2>4. Cardinality(Places(s, jobs) \cup {Len(s) + 1}) = Cardinality(Places(s, jobs)) + 1
    BY <2>2, <2>3, FS_AddElement
  <2> QED
    BY <1>2, <2>1, <2>4 DEF Count
<1>3. CASE x \notin jobs
  <2>1. Places(Append(s, x), jobs) = Places(s, jobs)
    BY <1>1, <1>3 DEF Places
  <2>2. Count(s, jobs) \in Nat
    BY CountTyped
  <2> QED
    BY <1>3, <2>1, <2>2 DEF Count
<1> QED
  BY <1>2, <1>3

LEMMA CountTail ==
    ASSUME NEW S, NEW s \in Seq(S), s # <<>>, NEW jobs
    PROVE  Count(s, jobs) = Count(Tail(s), jobs) + (IF Head(s) \in jobs THEN 1 ELSE 0)
<1>1. /\ Len(s) \in Nat /\ Len(s) >= 1 /\ Head(s) = s[1]
      /\ Tail(s) \in Seq(S) /\ Len(Tail(s)) = Len(s) - 1
      /\ \A i \in 1..Len(Tail(s)) : Tail(s)[i] = s[i + 1]
  BY HeadTailProperties, EmptySeq, LenProperties
<1> DEFINE rest == {i \in 2..Len(s) : s[i] \in jobs}
           next == [i \in Places(Tail(s), jobs) |-> i + 1]
<1>2. Cardinality(rest) = Count(Tail(s), jobs) /\ IsFiniteSet(rest)
  <2>1. next \in [Places(Tail(s), jobs) -> rest]
    BY <1>1 DEF Places
  <2>2. \A r \in rest : \E i \in Places(Tail(s), jobs) : next[i] = r
    <3> SUFFICES ASSUME NEW r \in rest PROVE \E i \in Places(Tail(s), jobs) : next[i] = r
      OBVIOUS
    <3>1. r - 1 \in Places(Tail(s), jobs)
      BY <1>1 DEF Places
    <3>2. next[r - 1] = (r - 1) + 1 /\ r \in Int
      BY <1>1, <3>1
    <3> QED
      BY <3>1, <3>2
  <2>3. \A i, j \in Places(Tail(s), jobs) : next[i] = next[j] => i = j
    BY <1>1 DEF Places
  <2>4. next \in Bijection(Places(Tail(s), jobs), rest)
    BY <2>1, <2>2, <2>3 DEF Bijection, Injection, Surjection, IsInjective
  <2>5. IsFiniteSet(Places(Tail(s), jobs))
    BY <1>1, CountTyped
  <2> QED
    BY <2>4, <2>5, FS_Bijection DEF Count, ExistsBijection
<1>3. CASE Head(s) \in jobs
  <2>1. Places(s, jobs) = rest \cup {1} /\ 1 \notin rest
    BY <1>1, <1>3 DEF Places
  <2>2. Cardinality(rest \cup {1}) = Cardinality(rest) + 1
    BY <1>2, <2>1, FS_AddElement
  <2> QED
    BY <1>2, <1>3, <2>1, <2>2 DEF Count
<1>4. CASE Head(s) \notin jobs
  <2>1. Places(s, jobs) = rest
    BY <1>1, <1>4 DEF Places
  <2>2. Count(Tail(s), jobs) \in Nat
    BY <1>1, CountTyped
  <2> QED
    BY <1>2, <1>4, <2>1, <2>2 DEF Count
<1> QED
  BY <1>3, <1>4

LEMMA CountRow ==
    ASSUME NEW S, NEW s \in Seq(S), NEW n \in Nat, NEW x \in S, NEW jobs,
           NEW row, row = [i \in 1..n |-> x]
    PROVE  /\ s \o row \in Seq(S)
           /\ Count(s \o row, jobs) = Count(s, jobs) + (IF x \in jobs THEN n ELSE 0)
           /\ Len(s \o row) = Len(s) + n
           /\ \A i \in 1..Len(s) + n : (s \o row)[i] = IF i <= Len(s) THEN s[i] ELSE x
<1> DEFINE all == s \o row
<1>1. row \in Seq(S) /\ Len(row) = n /\ \A i \in 1..n : row[i] = x
  OBVIOUS
<1>2. /\ all \in Seq(S) /\ Len(all) = Len(s) + n /\ Len(s) \in Nat
      /\ \A i \in 1..Len(s) + n : all[i] = IF i <= Len(s) THEN s[i] ELSE row[i - Len(s)]
  BY <1>1, ConcatProperties, LenProperties
<1> HIDE DEF all
<1>3. \A i \in 1..Len(s) + n : all[i] = IF i <= Len(s) THEN s[i] ELSE x
  BY <1>1, <1>2
<1>4. Count(all, jobs) = Count(s, jobs) + (IF x \in jobs THEN n ELSE 0)
  <2>1. CASE x \in jobs
    <3> DEFINE new == (Len(s) + 1)..(Len(s) + n)
    <3>1. IsFiniteSet(new) /\ Cardinality(new) = n
      BY <1>2, FS_Interval
    <3>2. Places(all, jobs) = Places(s, jobs) \cup new /\ Places(s, jobs) \cap new = {}
      BY <1>2, <1>3, <2>1 DEF Places
    <3>3. IsFiniteSet(Places(s, jobs)) /\ Cardinality(Places(s, jobs)) \in Nat
      BY CountTyped DEF Count
    <3> HIDE DEF new
    <3>4. Cardinality(Places(s, jobs) \cup new) = Cardinality(Places(s, jobs)) + n
      <4>1. Cardinality(Places(s, jobs) \cup new)
               = Cardinality(Places(s, jobs)) + Cardinality(new) - Cardinality(Places(s, jobs) \cap new)
        BY <3>1, <3>3, FS_Union
      <4>2. Cardinality(Places(s, jobs) \cap new) = 0
        BY <3>2, FS_EmptySet
      <4> QED
        BY <3>1, <3>3, <4>1, <4>2
    <3> QED
      BY <2>1, <3>2, <3>4 DEF Count
  <2>2. CASE x \notin jobs
    <3>1. Places(all, jobs) = Places(s, jobs)
      BY <1>2, <1>3, <2>2 DEF Places
    <3>2. Count(s, jobs) \in Nat
      BY CountTyped
    <3> QED
      BY <2>2, <3>1, <3>2 DEF Count
  <2> QED
    BY <2>1, <2>2
<1> QED
  BY <1>2, <1>3, <1>4 DEF all

------------------------------------------------------------------------------
(* The gateway's strand *)

\* A loop of accepts has one accept outstanding or one handler waiting, and each client that waits
\* has an id left.
AcceptsInv ==
    /\ accepting + Count(gateway, GatewayJobs({"accepted", "acceptFailed"})) <= starts
    /\ running => accepting + Count(gateway, GatewayJobs({"accepted", "acceptFailed"})) >= 1
    /\ nextId + Count(gateway, GatewayJobs({"accepted"})) <= MaxIds + 1

------------------------------------------------------------------------------
(* The connections *)

\* Ids that next_connection_id_ has not reached name nothing.
ConnectionsAreFresh ==
    \A c \in Id : c >= nextId => conn[c] = Fresh /\ late[c] = 0

\* doReadHeader and doReadBody follow one another: one read is outstanding, or its handler waits.
OneReadEach ==
    \A c \in Id :
        Count(conn[c].jobs, JobsOf({"header", "body", "readFailed"}))
            + (IF conn[c].reading = "none" THEN 0 ELSE 1) <= 1

\* One write is outstanding, or its handler waits, while the connection is open and has something
\* to write; a closed one starts no other.
Writes(c) == Len(conn[c].writing) + Count(conn[c].jobs, JobsOf({"written", "writeFailed"}))

OneWriteEach ==
    \A c \in Id :
        /\ conn[c].out = <<>> => Writes(c) = 0
        /\ Writes(c) <= 1
        /\ ~conn[c].closed /\ conn[c].out # <<>> => Writes(c) = 1

\* What a closed connection may still deliver: a message whose header was read before it closed.
OneMessageLate ==
    \A c \in Id :
        /\ ~conn[c].closed => late[c] = 0
        /\ conn[c].closed =>
            late[c] + Count(conn[c].jobs, JobsOf({"header", "body"}))
                + (IF conn[c].reading = "body" THEN 1 ELSE 0) <= 1

ConnectionInv == ConnectionsAreFresh /\ OneReadEach /\ OneWriteEach /\ OneMessageLate

\* ConnectionsAreAccountedFor, for every id.
ClosedAreForgotten ==
    \A c \in Id :
        /\ c \in Opened => c \in table \/ conn[c].closed \/ Count(conn[c].jobs, JobsOf({"close"})) > 0
        /\ told[c] + Count(gateway, Forgets(c)) = IF conn[c].closed THEN 1 ELSE 0
        /\ told[c] > 0 => c \notin table

------------------------------------------------------------------------------
(* The way of a message: the gateway's strand, the connection's, its queue, its socket *)

Sends == {"send", "broadcast"}

GatewayInOrder ==
    \A i, j \in 1..Len(gateway) : gateway[i].kind \in Sends =>
        /\ 0 < gateway[i].message /\ gateway[i].message < nextSend
        /\ gateway[j].kind \in Sends /\ i < j => gateway[i].message < gateway[j].message

\* A message that came as far as a connection is older than all that did not.
Ahead(m) ==
    /\ m < nextSend /\ m \notin Oversized
    /\ \A i \in 1..Len(gateway) : gateway[i].kind \in Sends => m < gateway[i].message

JobsInOrder ==
    \A c \in Id : \A i, j \in 1..Len(conn[c].jobs) : conn[c].jobs[i].kind = "send" =>
        /\ 0 < conn[c].jobs[i].message /\ Ahead(conn[c].jobs[i].message)
        /\ conn[c].jobs[j].kind = "send" /\ i < j => conn[c].jobs[i].message < conn[c].jobs[j].message

\* And older than those that wait on the connection's strand.
Queued(c, m) ==
    /\ Ahead(m)
    /\ \A i \in 1..Len(conn[c].jobs) : conn[c].jobs[i].kind = "send" => m < conn[c].jobs[i].message

QueuesInOrder ==
    \A c \in Id : \A i, j \in 1..Len(conn[c].out) :
        /\ Queued(c, conn[c].out[i])
        /\ i < j => conn[c].out[i] < conn[c].out[j]

Frames(c) == wire[c] \o conn[c].writing

\* The frame that is being written is still the first of the queue.
FramesAreInOrder ==
    \A c \in Id : \A i \in 1..Len(Frames(c)) :
        /\ Queued(c, Frames(c)[i])
        /\ \A j \in 1..Len(Frames(c)) : i < j => Frames(c)[i] < Frames(c)[j]
        /\ \A j \in 1..Len(conn[c].out) :
            Frames(c)[i] < conn[c].out[j] \/ (j = 1 /\ Frames(c)[i] = conn[c].out[j])

OrderInv == GatewayInOrder /\ JobsInOrder /\ QueuesInOrder /\ FramesAreInOrder

------------------------------------------------------------------------------
(* Types, and what a step does to one connection *)

LEMMA ConstantsTyped ==
    /\ MaxConnections \in Nat /\ MaxPerWindow \in Nat /\ MaxIds \in Nat
    /\ MaxSends \in Nat /\ MaxStarts \in Nat
BY LimitsTyped

LEMMA ConnectionTyped ==
    ASSUME TypeOK, NEW c \in Id
    PROVE  /\ conn[c] \in Connection
           /\ conn[c].closed \in BOOLEAN /\ conn[c].reading \in {"none", "header", "body"}
           /\ conn[c].writing \in Seq(Message) /\ conn[c].out \in Seq(Message)
           /\ conn[c].used \in 0..MaxPerWindow /\ conn[c].jobs \in Seq(Job)
           /\ late[c] \in Nat /\ told[c] \in Nat /\ wire[c] \in Seq(Message)
BY DEF TypeOK, Connection

\* post() only adds a handler.
LEMMA PostTyped ==
    ASSUME NEW x \in Connection, NEW kind, NEW m, [kind |-> kind, message |-> m] \in Job
    PROVE  /\ Post(x, kind, m) \in Connection
           /\ Post(x, kind, m).jobs = Append(x.jobs, [kind |-> kind, message |-> m])
           /\ Post(x, kind, m).closed = x.closed /\ Post(x, kind, m).reading = x.reading
           /\ Post(x, kind, m).writing = x.writing /\ Post(x, kind, m).out = x.out
<1>1. Append(x.jobs, [kind |-> kind, message |-> m]) \in Seq(Job)
  BY AppendProperties DEF Connection
<1> QED
  BY <1>1 DEF Post, Connection

\* A handler that is run leaves its strand.
LEMMA RestTyped ==
    ASSUME TypeOK, NEW c \in Id, NEW kind, TurnOf(c, kind)
    PROVE  /\ Rest(c) \in Connection /\ conn[c].jobs # <<>>
           /\ Head(conn[c].jobs) \in Job /\ Head(conn[c].jobs).kind = kind
           /\ Rest(c).jobs = Tail(conn[c].jobs)
           /\ Rest(c).closed = conn[c].closed /\ Rest(c).reading = conn[c].reading
           /\ Rest(c).writing = conn[c].writing /\ Rest(c).out = conn[c].out
           /\ Rest(c).used = conn[c].used
<1>1. conn[c].jobs # <<>> /\ Head(conn[c].jobs).kind = kind
  BY DEF TurnOf
<1>2. Tail(conn[c].jobs) \in Seq(Job) /\ Head(conn[c].jobs) \in Job
  BY <1>1, ConnectionTyped, HeadTailProperties
<1> QED
  BY <1>1, <1>2, ConnectionTyped DEF Rest, Connection

\* What a step may do to connection c: the fields it writes, as relations on conn[c] and conn'[c].
Untouched(c) == conn'[c] = conn[c] /\ UNCHANGED <<late[c], wire[c]>>

OnlyJobs(c) ==
    /\ conn'[c].closed = conn[c].closed /\ conn'[c].reading = conn[c].reading
    /\ conn'[c].writing = conn[c].writing /\ conn'[c].out = conn[c].out

Posted(c, kind, m) ==
    /\ [kind |-> kind, message |-> m] \in Job
    /\ conn'[c].jobs = Append(conn[c].jobs, [kind |-> kind, message |-> m])

Taken(c, kind) ==
    /\ conn[c].jobs # <<>> /\ Head(conn[c].jobs).kind = kind
    /\ conn'[c].jobs = Tail(conn[c].jobs)

IsPosted(c) ==
    /\ c \in table /\ OnlyJobs(c) /\ UNCHANGED <<late[c], wire[c]>>
    /\ \/ Posted(c, "close", 0)
       \/ \E m \in Message : /\ Posted(c, "send", m) /\ gateway # <<>> /\ gateway' = Tail(gateway)
                             /\ Head(gateway).kind \in {"send", "broadcast"}
                             /\ Head(gateway).message = m /\ m \notin Oversized

IsOpened(c) ==
    /\ c = nextId /\ nextId' = nextId + 1 /\ conn'[c].reading = "header"
    /\ conn'[c].jobs = conn[c].jobs /\ conn'[c].closed = conn[c].closed
    /\ conn'[c].writing = conn[c].writing /\ conn'[c].out = conn[c].out
    /\ UNCHANGED <<late[c], wire[c]>>

ReadIsDone(c) ==
    /\ conn[c].reading # "none" /\ conn'[c].reading = "none"
    /\ \E result \in {conn[c].reading, "readFailed"} :
        /\ Posted(c, result, 0)
        /\ conn[c].closed => result # "header"
    /\ conn'[c].closed = conn[c].closed
    /\ conn'[c].writing = conn[c].writing /\ conn'[c].out = conn[c].out
    /\ UNCHANGED <<late[c], wire[c]>>

WriteIsDone(c) ==
    /\ conn[c].writing # <<>> /\ conn'[c].writing = Tail(conn[c].writing)
    /\ \/ Posted(c, "written", 0) /\ wire'[c] = Append(wire[c], Head(conn[c].writing))
       \/ Posted(c, "writeFailed", 0) /\ wire'[c] = wire[c]
    /\ conn'[c].closed = conn[c].closed /\ conn'[c].reading = conn[c].reading
    /\ conn'[c].out = conn[c].out /\ late'[c] = late[c]

IsClosed(c) ==
    /\ \E kind \in {"close", "readFailed", "writeFailed", "header", "body"} : Taken(c, kind)
    /\ conn'[c].closed = TRUE /\ conn'[c].reading = conn[c].reading
    /\ conn'[c].writing = conn[c].writing /\ conn'[c].out = conn[c].out
    /\ UNCHANGED <<late[c], wire[c]>>

HeaderIsRead(c) ==
    /\ Taken(c, "header")
    /\ conn'[c].reading = "body" /\ conn'[c].closed = conn[c].closed
    /\ conn'[c].writing = conn[c].writing /\ conn'[c].out = conn[c].out
    /\ UNCHANGED <<late[c], wire[c]>>

BodyIsRead(c) ==
    /\ Taken(c, "body")
    /\ conn'[c].reading = "header" /\ conn'[c].closed = conn[c].closed
    /\ conn'[c].writing = conn[c].writing /\ conn'[c].out = conn[c].out
    /\ late'[c] = (IF conn[c].closed THEN late[c] + 1 ELSE late[c])
    /\ wire'[c] = wire[c]

\* WriteNext, as a relation on the queue and the writes.
Written(c) ==
    conn'[c].writing = IF conn'[c].out = <<>> \/ conn[c].closed THEN conn[c].writing
                       ELSE Append(conn[c].writing, Head(conn'[c].out))

FrameIsQueued(c) ==
    /\ Taken(c, "send")
    /\ conn'[c].out = Append(conn[c].out, Head(conn[c].jobs).message)
    /\ IF conn[c].out = <<>> THEN Written(c) ELSE conn'[c].writing = conn[c].writing
    /\ conn'[c].closed = conn[c].closed /\ conn'[c].reading = conn[c].reading
    /\ UNCHANGED <<late[c], wire[c]>>

FrameIsDone(c) ==
    /\ Taken(c, "written")
    /\ conn'[c].out = Tail(conn[c].out) /\ Written(c)
    /\ conn'[c].closed = conn[c].closed /\ conn'[c].reading = conn[c].reading
    /\ UNCHANGED <<late[c], wire[c]>>

ConnectionSteps(c) ==
    \/ Untouched(c) \/ IsPosted(c) \/ IsOpened(c) \/ ReadIsDone(c) \/ WriteIsDone(c)
    \/ IsClosed(c) \/ HeaderIsRead(c) \/ BodyIsRead(c) \/ FrameIsQueued(c) \/ FrameIsDone(c)

Inv == TypeOK /\ AcceptsInv /\ ConnectionInv /\ ClosedAreForgotten /\ OrderInv

\* A step that writes one connection.
ConnectionsMove == conn' \in [Id -> Connection] /\ \A c \in Id : ConnectionSteps(c)

LEMMA OneWritten ==
    ASSUME TypeOK, NEW d \in Id, NEW x \in Connection, conn' = [conn EXCEPT ![d] = x],
           \A c \in Id \ {d} : UNCHANGED <<late[c], wire[c]>>,
           conn'[d] = x => ConnectionSteps(d)
    PROVE  ConnectionsMove
<1>1. conn' \in [Id -> Connection] /\ conn'[d] = x
  BY DEF TypeOK
<1>2. \A c \in Id \ {d} : Untouched(c)
  BY DEF TypeOK, Untouched
<1> QED
  BY <1>1, <1>2 DEF ConnectionSteps, ConnectionsMove

LEMMA JobTyped ==
    ASSUME NEW kind \in {"send", "close", "header", "body", "readFailed", "written", "writeFailed"},
           NEW m \in Message \cup {0}
    PROVE  [kind |-> kind, message |-> m] \in Job
BY DEF Job

\* The writes of a connection are counted by numbers, and a handler of one that waits counts.
LEMMA WritesCounted ==
    ASSUME TypeOK, NEW c \in Id
    PROVE  /\ Writes(c) \in Nat
           /\ conn[c].writing # <<>> => Writes(c) >= 1
           /\ \A kind \in {"written", "writeFailed"} : TurnOf(c, kind) => Writes(c) >= 1
<1> DEFINE done == JobsOf({"written", "writeFailed"})
<1>1. /\ Count(conn[c].jobs, done) \in Nat /\ Len(conn[c].writing) \in Nat
      /\ conn[c].writing # <<>> => Len(conn[c].writing) >= 1
  BY CountTyped, ConnectionTyped, EmptySeq, LenProperties
<1>2. ASSUME NEW kind \in {"written", "writeFailed"}, TurnOf(c, kind)
      PROVE  Count(conn[c].jobs, done) >= 1
  <2>1. conn[c].jobs # <<>> /\ Head(conn[c].jobs) \in done
    BY <1>2, RestTyped DEF JobsOf
  <2>2. Tail(conn[c].jobs) \in Seq(Job)
    BY <2>1, ConnectionTyped, HeadTailProperties
  <2>3. Count(Tail(conn[c].jobs), done) \in Nat
    BY <2>2, CountTyped
  <2>4. Count(conn[c].jobs, done) = Count(Tail(conn[c].jobs), done)
                                        + (IF Head(conn[c].jobs) \in done THEN 1 ELSE 0)
    BY <2>1, ConnectionTyped, CountTail
  <2> QED
    BY <2>1, <2>3, <2>4
<1> QED
  BY <1>1, <1>2 DEF Writes

LEMMA ConnectionEffect ==
    ASSUME Inv, [Next]_vars
    PROVE  ConnectionsMove
<1> TypeOK
  BY DEF Inv
<1>1. ASSUME UNCHANGED <<conn, late, wire>> PROVE ConnectionsMove
  BY <1>1 DEF TypeOK, ConnectionsMove, ConnectionSteps, Untouched
<1>2. CASE Stop
  <2>1. \A c \in Id : conn'[c] = IF c \in table THEN Post(conn[c], "close", 0) ELSE conn[c]
    BY <1>2 DEF Stop
  <2>2. ASSUME NEW c \in Id PROVE conn'[c] \in Connection /\ ConnectionSteps(c)
    <3>1. [kind |-> "close", message |-> 0] \in Job /\ conn[c] \in Connection
      BY JobTyped, ConnectionTyped
    <3>2. UNCHANGED <<late, wire>>
      BY <1>2 DEF Stop, history
    <3>3. CASE c \in table
      BY <2>1, <3>1, <3>2, <3>3, PostTyped, SMTT(30) DEF ConnectionSteps, IsPosted, OnlyJobs, Posted
    <3>4. CASE c \notin table
      BY <2>1, <3>1, <3>2, <3>4 DEF ConnectionSteps, Untouched
    <3> QED
      BY <3>3, <3>4
  <2>3. conn' = [c \in Id |-> IF c \in table THEN Post(conn[c], "close", 0) ELSE conn[c]]
    BY <1>2 DEF Stop
  <2>4. conn' \in [Id -> Connection]
    BY <2>1, <2>2, <2>3
  <2> QED
    BY <2>2, <2>4 DEF ConnectionsMove
<1>3. CASE HandleSend
  <2>1. PICK m, targets : /\ m = Head(gateway).message /\ targets \subseteq table
                          /\ conn' = [c \in Id |-> IF c \in targets /\ Encodes(m)
                                                   THEN Post(conn[c], "send", m) ELSE conn[c]]
    BY <1>3, ZenonT(30) DEF HandleSend
  <2>2. /\ gateway # <<>> /\ gateway' = Tail(gateway) /\ UNCHANGED <<late, wire>>
        /\ Head(gateway).kind \in {"send", "broadcast"}
    BY <1>3 DEF HandleSend, Turn, history
  <2>3. m \in Message
    <3>1. Head(gateway) = gateway[1] /\ 1 \in 1..Len(gateway) /\ Head(gateway) \in GatewayJob
      BY <2>2, EmptySeq, LenProperties, HeadTailProperties DEF TypeOK
    <3>2. 0 < m
      BY <2>1, <2>2, <3>1 DEF Inv, OrderInv, GatewayInOrder, Sends
    <3> QED
      BY <2>1, <3>1, <3>2 DEF GatewayJob
  <2>4. ASSUME NEW c \in Id PROVE conn'[c] \in Connection /\ ConnectionSteps(c)
    <3>1. [kind |-> "send", message |-> m] \in Job /\ conn[c] \in Connection
      BY <2>3, JobTyped, ConnectionTyped
    <3>2. CASE c \in targets /\ Encodes(m)
      <4>1. conn'[c] = Post(conn[c], "send", m) /\ c \in table
        BY <2>1, <3>2
      <4>2. conn'[c] \in Connection /\ OnlyJobs(c) /\ Posted(c, "send", m)
        BY <3>1, <4>1, PostTyped DEF OnlyJobs, Posted
      <4>3. IsPosted(c)
        BY <2>1, <2>2, <2>3, <3>2, <4>1, <4>2 DEF IsPosted, Encodes
      <4> QED
        BY <4>2, <4>3 DEF ConnectionSteps
    <3>3. CASE ~(c \in targets /\ Encodes(m))
      BY <2>1, <2>2, <3>1, <3>3 DEF ConnectionSteps, Untouched
    <3> QED
      BY <3>2, <3>3
  <2> QED
    BY <2>1, <2>4 DEF ConnectionsMove
<1>4. CASE HandleAccepted
  <2>1. nextId \in Id
    <3>1. Head(gateway) \in GatewayJobs({"accepted"}) /\ gateway # <<>>
      BY <1>4, HeadTailProperties DEF HandleAccepted, Turn, GatewayJobs, TypeOK
    <3>2. Count(gateway, GatewayJobs({"accepted"})) >= 1
      <4>1. Tail(gateway) \in Seq(GatewayJob)
        BY <3>1, HeadTailProperties DEF TypeOK
      <4>2. Count(Tail(gateway), GatewayJobs({"accepted"})) \in Nat
        BY <4>1, CountTyped
      <4>3. Count(gateway, GatewayJobs({"accepted"})) = Count(Tail(gateway), GatewayJobs({"accepted"}))
               + (IF Head(gateway) \in GatewayJobs({"accepted"}) THEN 1 ELSE 0)
        BY <3>1, CountTail DEF TypeOK
      <4> QED
        BY <3>1, <4>2, <4>3
    <3>3. Count(gateway, GatewayJobs({"accepted"})) \in Nat
      BY CountTyped DEF TypeOK
    <3> QED
      BY <3>2, <3>3, ConstantsTyped DEF Inv, AcceptsInv, TypeOK, Id
  <2>2. PICK d \in Id : d = nextId
    BY <2>1
  <2>3. PICK x : x = [conn[d] EXCEPT !.reading = "header"]
    OBVIOUS
  <2>4. /\ x \in Connection /\ x.reading = "header" /\ x.jobs = conn[d].jobs
        /\ x.closed = conn[d].closed /\ x.writing = conn[d].writing /\ x.out = conn[d].out
    BY <2>3, ConnectionTyped DEF Connection
  <2>5. conn' = [conn EXCEPT ![d] = x] /\ UNCHANGED <<late, wire>> /\ nextId' = nextId + 1
    BY <1>4, <2>2, <2>3 DEF HandleAccepted, history
  <2>6. ASSUME conn'[d] = x PROVE ConnectionSteps(d)
    BY <2>2, <2>4, <2>5, <2>6 DEF ConnectionSteps, IsOpened
  <2> QED
    BY <2>4, <2>5, <2>6, OneWritten
<1>5. ASSUME NEW d \in Id, NEW result, ReadCompletes(d, result) PROVE ConnectionsMove
  <2>1. PICK x : x = [Post(conn[d], result, 0) EXCEPT !.reading = "none"]
    OBVIOUS
  <2>2. /\ result \in {conn[d].reading, "readFailed"} /\ conn[d].reading # "none"
        /\ conn[d].closed => result # "header"
    BY <1>5 DEF ReadCompletes
  <2>3. [kind |-> result, message |-> 0] \in Job
    BY <2>2, ConnectionTyped, JobTyped
  <2> PICK y : y = Post(conn[d], result, 0)
    OBVIOUS
  <2>7. /\ y \in Connection /\ y.closed = conn[d].closed /\ y.writing = conn[d].writing
        /\ y.jobs = Append(conn[d].jobs, [kind |-> result, message |-> 0])
        /\ y.out = conn[d].out /\ conn[d] \in Connection
    BY <2>3, PostTyped, ConnectionTyped
  <2>4. /\ x \in Connection /\ x.reading = "none"
        /\ x.jobs = Append(conn[d].jobs, [kind |-> result, message |-> 0])
        /\ x.closed = conn[d].closed /\ x.writing = conn[d].writing /\ x.out = conn[d].out
    BY <2>1, <2>7 DEF Connection
  <2>5. conn' = [conn EXCEPT ![d] = x] /\ UNCHANGED <<late, wire>>
    BY <1>5, <2>1 DEF ReadCompletes, history
  <2>6. ASSUME conn'[d] = x PROVE ConnectionSteps(d)
    BY <2>2, <2>3, <2>4, <2>5, <2>6 DEF ConnectionSteps, ReadIsDone, Posted
  <2> QED
    BY <2>4, <2>5, <2>6, OneWritten
<1>6. ASSUME NEW d \in Id, NEW result \in {"written", "writeFailed"}, WriteCompletes(d, result)
      PROVE  ConnectionsMove
  <2>1. PICK x : x = [Post(conn[d], result, 0) EXCEPT !.writing = Tail(@)]
    OBVIOUS
  <2>2. conn[d].writing # <<>> /\ Tail(conn[d].writing) \in Seq(Message)
    BY <1>6, ConnectionTyped, HeadTailProperties DEF WriteCompletes
  <2>3. [kind |-> result, message |-> 0] \in Job
    BY JobTyped
  <2> PICK y : y = Post(conn[d], result, 0)
    OBVIOUS
  <2>8. /\ y \in Connection /\ y.closed = conn[d].closed /\ y.writing = conn[d].writing
        /\ y.jobs = Append(conn[d].jobs, [kind |-> result, message |-> 0])
        /\ y.out = conn[d].out /\ y.reading = conn[d].reading
    BY <2>3, PostTyped, ConnectionTyped
  <2>4. /\ x \in Connection /\ x.writing = Tail(conn[d].writing)
        /\ x.jobs = Append(conn[d].jobs, [kind |-> result, message |-> 0])
        /\ x.closed = conn[d].closed /\ x.reading = conn[d].reading /\ x.out = conn[d].out
    BY <2>1, <2>2, <2>8 DEF Connection
  <2>5. /\ conn' = [conn EXCEPT ![d] = x] /\ UNCHANGED late
        /\ wire' = IF result = "written"
                   THEN [wire EXCEPT ![d] = Append(@, Head(conn[d].writing))] ELSE wire
    BY <1>6, <2>1 DEF WriteCompletes
  <2>6. /\ wire'[d] = (IF result = "written" THEN Append(wire[d], Head(conn[d].writing)) ELSE wire[d])
        /\ \A c \in Id \ {d} : wire'[c] = wire[c]
    BY <2>5 DEF TypeOK
  <2>7. ASSUME conn'[d] = x PROVE ConnectionSteps(d)
    BY <2>2, <2>3, <2>4, <2>5, <2>6, <2>7 DEF ConnectionSteps, WriteIsDone, Posted
  <2> QED
    BY <2>4, <2>5, <2>6, <2>7, OneWritten
<1>7. ASSUME NEW d \in Id, NEW kind \in {"close", "readFailed", "writeFailed", "header", "body"},
             TurnOf(d, kind), CloseNow(d), UNCHANGED history
      PROVE  ConnectionsMove
  <2>1. PICK x : x = [Rest(d) EXCEPT !.closed = TRUE]
    OBVIOUS
  <2>2. /\ x \in Connection /\ x.closed = TRUE /\ x.reading = conn[d].reading
        /\ x.writing = conn[d].writing /\ x.out = conn[d].out /\ x.jobs = Tail(conn[d].jobs)
        /\ conn[d].jobs # <<>> /\ Head(conn[d].jobs).kind = kind
    BY <1>7, <2>1, RestTyped DEF Connection
  <2>3. conn' = [conn EXCEPT ![d] = x] /\ UNCHANGED <<late, wire>>
    BY <1>7, <2>1 DEF CloseNow, history
  <2>4. ASSUME conn'[d] = x PROVE ConnectionSteps(d)
    BY <2>2, <2>3, <2>4 DEF ConnectionSteps, IsClosed, Taken
  <2> QED
    BY <2>2, <2>3, <2>4, OneWritten
<1>8. ASSUME NEW d \in Id, HandleHeader(d) PROVE ConnectionsMove
  <2>1. PICK x : x = [Rest(d) EXCEPT !.reading = "body"]
    OBVIOUS
  <2>2. /\ x \in Connection /\ x.reading = "body" /\ x.closed = conn[d].closed
        /\ x.writing = conn[d].writing /\ x.out = conn[d].out /\ x.jobs = Tail(conn[d].jobs)
        /\ conn[d].jobs # <<>> /\ Head(conn[d].jobs).kind = "header"
    BY <1>8, <2>1, RestTyped DEF Connection, HandleHeader
  <2>3. conn' = [conn EXCEPT ![d] = x] /\ UNCHANGED <<late, wire>>
    BY <1>8, <2>1 DEF HandleHeader, history
  <2>4. ASSUME conn'[d] = x PROVE ConnectionSteps(d)
    BY <2>2, <2>3, <2>4 DEF ConnectionSteps, HeaderIsRead, Taken
  <2> QED
    BY <2>2, <2>3, <2>4, OneWritten
<1>9. ASSUME NEW d \in Id, NEW b \in BOOLEAN, HandleBody(d, b) PROVE ConnectionsMove
  <2>1. PICK used \in Counts(conn[d].used, b) :
            conn' = [conn EXCEPT ![d] = [Rest(d) EXCEPT !.used = used, !.reading = "header"]]
    BY <1>9 DEF HandleBody
  <2>2. used \in 0..MaxPerWindow
    BY ConnectionTyped, ConstantsTyped DEF Counts
  <2>3. PICK x : x = [Rest(d) EXCEPT !.used = used, !.reading = "header"]
    OBVIOUS
  <2>4. /\ x \in Connection /\ x.reading = "header" /\ x.closed = conn[d].closed
        /\ x.writing = conn[d].writing /\ x.out = conn[d].out /\ x.jobs = Tail(conn[d].jobs)
        /\ conn[d].jobs # <<>> /\ Head(conn[d].jobs).kind = "body"
    BY <1>9, <2>2, <2>3, RestTyped, ZenonT(30) DEF Connection, HandleBody
  <2>5. /\ conn' = [conn EXCEPT ![d] = x] /\ UNCHANGED wire
        /\ late' = IF conn[d].closed THEN [late EXCEPT ![d] = @ + 1] ELSE late
    BY <1>9, <2>1, <2>3 DEF HandleBody
  <2>6. /\ late'[d] = (IF conn[d].closed THEN late[d] + 1 ELSE late[d])
        /\ \A c \in Id \ {d} : late'[c] = late[c]
    BY <2>5 DEF TypeOK
  <2>7. ASSUME conn'[d] = x PROVE ConnectionSteps(d)
    BY <2>4, <2>5, <2>6, <2>7 DEF ConnectionSteps, BodyIsRead, Taken
  <2> QED
    BY <2>4, <2>5, <2>6, <2>7, OneWritten
<1>10. ASSUME NEW d \in Id, NEW kind \in {"send", "written"}, TurnOf(d, kind),
              NEW y \in Connection, y.jobs = Tail(conn[d].jobs), y.closed = conn[d].closed,
              y.reading = conn[d].reading, y.writing = conn[d].writing
       PROVE  LET x == WriteNext(y) IN
              /\ x \in Connection /\ x.jobs = y.jobs /\ x.closed = y.closed
              /\ x.reading = y.reading /\ x.out = y.out
              /\ x.writing = IF y.out = <<>> \/ y.closed THEN y.writing
                             ELSE Append(y.writing, Head(y.out))
  <2>1. CASE y.out = <<>> \/ y.closed
    BY <2>1, <1>10 DEF WriteNext, Connection
  <2>2. CASE ~(y.out = <<>> \/ y.closed)
    <3>1. Append(y.writing, Head(y.out)) \in Seq(Message)
      BY <2>2, HeadTailProperties, AppendProperties DEF Connection
    <3> QED
      BY <2>2, <3>1 DEF WriteNext, Connection
  <2> QED
    BY <2>1, <2>2
<1>11. ASSUME NEW d \in Id, HandleFrame(d) PROVE ConnectionsMove
  <2>1. TurnOf(d, "send") /\ UNCHANGED <<late, wire>>
    BY <1>11 DEF HandleFrame, history
  <2>2. PICK m : m = Head(conn[d].jobs).message
    OBVIOUS
  <2>3. m \in Message
    <3>1. conn[d].jobs # <<>> /\ conn[d].jobs \in Seq(Job) /\ Head(conn[d].jobs) \in Job
          /\ Head(conn[d].jobs).kind = "send"
      BY <2>1, RestTyped, ConnectionTyped
    <3>2. Head(conn[d].jobs) = conn[d].jobs[1] /\ 1 \in 1..Len(conn[d].jobs)
      BY <3>1, EmptySeq, LenProperties
    <3>3. 0 < m
      BY <2>2, <3>1, <3>2 DEF Inv, OrderInv, JobsInOrder
    <3> QED
      BY <2>2, <3>1, <3>3 DEF Job
  <2>4. PICK y : y = [Rest(d) EXCEPT !.out = Append(@, m)]
    OBVIOUS
  <2>5. Append(conn[d].out, m) \in Seq(Message)
    BY <2>3, ConnectionTyped, AppendProperties
  <2>6. /\ y \in Connection /\ y.out = Append(conn[d].out, m) /\ y.closed = conn[d].closed
        /\ y.writing = conn[d].writing /\ y.reading = conn[d].reading
        /\ y.jobs = Tail(conn[d].jobs) /\ conn[d].jobs # <<>>
        /\ Head(conn[d].jobs).kind = "send"
    BY <2>1, <2>4, <2>5, RestTyped DEF Connection
  <2>7. PICK x : x = IF conn[d].out = <<>> THEN WriteNext(y) ELSE y
    OBVIOUS
  <2>8. conn' = [conn EXCEPT ![d] = x]
    BY <1>11, <2>2, <2>4, <2>7 DEF HandleFrame
  <2>9. /\ x \in Connection /\ x.jobs = y.jobs /\ x.closed = y.closed
        /\ x.reading = y.reading /\ x.out = y.out
        /\ IF conn[d].out = <<>>
           THEN x.writing = IF y.out = <<>> \/ y.closed THEN y.writing
                            ELSE Append(y.writing, Head(y.out))
           ELSE x.writing = y.writing
    BY <1>10, <2>1, <2>6, <2>7
  <2>10. ASSUME conn'[d] = x PROVE ConnectionSteps(d)
    BY <2>1, <2>2, <2>6, <2>9, <2>10 DEF ConnectionSteps, FrameIsQueued, Taken, Written
  <2> QED
    BY <2>1, <2>8, <2>9, <2>10, OneWritten
<1>12. ASSUME NEW d \in Id, HandleWritten(d) PROVE ConnectionsMove
  <2>1. TurnOf(d, "written") /\ UNCHANGED <<late, wire>>
    BY <1>12 DEF HandleWritten, history
  <2>2. conn[d].out # <<>>
    <3>1. Writes(d) >= 1
      BY <2>1, WritesCounted
    <3> QED
      BY <3>1 DEF Inv, ConnectionInv, OneWriteEach
  <2>3. Tail(conn[d].out) \in Seq(Message)
    BY <2>2, ConnectionTyped, HeadTailProperties
  <2>4. PICK y : y = [Rest(d) EXCEPT !.out = Tail(@)]
    OBVIOUS
  <2>5. /\ y \in Connection /\ y.out = Tail(conn[d].out) /\ y.closed = conn[d].closed
        /\ y.writing = conn[d].writing /\ y.reading = conn[d].reading
        /\ y.jobs = Tail(conn[d].jobs) /\ conn[d].jobs # <<>>
        /\ Head(conn[d].jobs).kind = "written"
    BY <2>1, <2>3, <2>4, RestTyped DEF Connection
  <2>6. PICK x : x = WriteNext(y)
    OBVIOUS
  <2>7. conn' = [conn EXCEPT ![d] = x]
    BY <1>12, <2>4, <2>6 DEF HandleWritten
  <2>8. /\ x \in Connection /\ x.jobs = y.jobs /\ x.closed = y.closed
        /\ x.reading = y.reading /\ x.out = y.out
        /\ x.writing = IF y.out = <<>> \/ y.closed THEN y.writing
                       ELSE Append(y.writing, Head(y.out))
    BY <1>10, <2>1, <2>5, <2>6
  <2>9. ASSUME conn'[d] = x PROVE ConnectionSteps(d)
    BY <2>1, <2>5, <2>8, <2>9 DEF ConnectionSteps, FrameIsDone, Taken, Written
  <2> QED
    BY <2>1, <2>7, <2>8, <2>9, OneWritten
<1>13. ASSUME NEW d \in Id, HandleFailure(d) \/ HandleHeaderTooLarge(d) \/ HandleBodyOverRate(d)
       PROVE  ConnectionsMove
  BY <1>7, <1>13 DEF HandleFailure, HandleHeaderTooLarge, HandleBodyOverRate
<1>14. CASE \/ Start \/ Broadcast \/ HandleRefused \/ HandleForget \/ UNCHANGED vars
            \/ \E c \in Id : Send(c)
            \/ \E result \in {"accepted", "acceptFailed"} : AcceptCompletes(result)
  BY <1>1, <1>14 DEF Start, Broadcast, HandleRefused, HandleForget, vars, history, Send,
                     AcceptCompletes
<1> QED
  BY <1>2, <1>3, <1>4, <1>5, <1>6, <1>8, <1>9, <1>11, <1>12, <1>13, <1>14 DEF Next

------------------------------------------------------------------------------
(* What a step does to the gateway's strand *)

LEMMA GatewayTyped ==
    ASSUME TypeOK
    PROVE  /\ gateway \in Seq(GatewayJob) /\ Len(gateway) \in Nat
           /\ \A K : Count(gateway, GatewayJobs(K)) \in Nat
           /\ \A c : Count(gateway, Forgets(c)) \in Nat
           /\ \A K : Waiting(K) = Places(gateway, GatewayJobs(K))
<1>1. gateway \in Seq(GatewayJob) /\ Len(gateway) \in Nat
  BY LenProperties DEF TypeOK
<1>2. \A i \in 1..Len(gateway) : gateway[i] \in GatewayJob
  BY <1>1, ElementOfSeq
<1>3. \A K : Waiting(K) = Places(gateway, GatewayJobs(K))
  BY <1>2 DEF Waiting, Places, GatewayJobs
<1> QED
  BY <1>1, <1>3, CountTyped

LEMMA GatewayPosted ==
    ASSUME TypeOK, NEW j \in GatewayJob, gateway' = Append(gateway, j)
    PROVE  /\ gateway' \in Seq(GatewayJob)
           /\ \A K : Count(gateway', GatewayJobs(K))
                        = Count(gateway, GatewayJobs(K)) + (IF j.kind \in K THEN 1 ELSE 0)
           /\ \A c : Count(gateway', Forgets(c)) = Count(gateway, Forgets(c))
                        + (IF j.kind = "forget" /\ j.id = c THEN 1 ELSE 0)
<1>1. gateway' \in Seq(GatewayJob)
  BY GatewayTyped, AppendProperties
<1>2. \A jobs : Count(gateway', jobs) = Count(gateway, jobs) + (IF j \in jobs THEN 1 ELSE 0)
  BY GatewayTyped, CountAppend
<1>3. \A K : j \in GatewayJobs(K) <=> j.kind \in K
  BY DEF GatewayJobs
<1>4. \A c : j \in Forgets(c) <=> j.kind = "forget" /\ j.id = c
  BY DEF Forgets
<1> QED
  BY <1>1, <1>2, <1>3, <1>4

LEMMA GatewayTaken ==
    ASSUME TypeOK, gateway # <<>>, gateway' = Tail(gateway)
    PROVE  /\ gateway' \in Seq(GatewayJob) /\ Head(gateway) \in GatewayJob
           /\ \A K : /\ Count(gateway, GatewayJobs(K)) = Count(gateway', GatewayJobs(K))
                            + (IF Head(gateway).kind \in K THEN 1 ELSE 0)
                     /\ Count(gateway', GatewayJobs(K)) \in Nat
           /\ \A c : /\ Count(gateway, Forgets(c)) = Count(gateway', Forgets(c))
                            + (IF Head(gateway).kind = "forget" /\ Head(gateway).id = c THEN 1 ELSE 0)
                     /\ Count(gateway', Forgets(c)) \in Nat
<1>1. gateway' \in Seq(GatewayJob) /\ Head(gateway) \in GatewayJob
  BY GatewayTyped, HeadTailProperties
<1>2. \A jobs : Count(gateway, jobs) = Count(gateway', jobs) + (IF Head(gateway) \in jobs THEN 1 ELSE 0)
  BY GatewayTyped, CountTail
<1>3. \A jobs : Count(gateway', jobs) \in Nat
  BY <1>1, CountTyped
<1>4. \A K : Head(gateway) \in GatewayJobs(K) <=> Head(gateway).kind \in K
  BY <1>1 DEF GatewayJobs
<1>5. \A c : Head(gateway) \in Forgets(c) <=> Head(gateway).kind = "forget" /\ Head(gateway).id = c
  BY <1>1 DEF Forgets
<1> QED
  BY <1>1, <1>2, <1>3, <1>4, <1>5

\* stop() leaves one failed accept for each that was outstanding.
LEMMA GatewayStopped ==
    ASSUME TypeOK, Stop
    PROVE  /\ gateway' \in Seq(GatewayJob)
           /\ \A K : Count(gateway', GatewayJobs(K)) = Count(gateway, GatewayJobs(K))
                        + (IF "acceptFailed" \in K THEN accepting ELSE 0)
           /\ \A c : Count(gateway', Forgets(c)) = Count(gateway, Forgets(c))
           /\ Len(gateway') = Len(gateway) + accepting
           /\ \A i \in 1..Len(gateway) : gateway'[i] = gateway[i]
           /\ \A i \in 1..Len(gateway') : i > Len(gateway) => gateway'[i].kind = "acceptFailed"
<1> PICK x : x = ForGateway("acceptFailed", 0, 0)
  OBVIOUS
<1>1. x \in GatewayJob /\ x.kind = "acceptFailed"
  BY DEF ForGateway, GatewayJob
<1>2. gateway' = gateway \o [i \in 1..accepting |-> x] /\ accepting \in Nat
  BY ConstantsTyped DEF Stop, TypeOK
<1>9. gateway \in Seq(GatewayJob)
  BY GatewayTyped
<1>3. /\ gateway' \in Seq(GatewayJob) /\ Len(gateway') = Len(gateway) + accepting
      /\ \A jobs : Count(gateway', jobs) = Count(gateway, jobs) + (IF x \in jobs THEN accepting ELSE 0)
      /\ \A i \in 1..Len(gateway) + accepting :
            gateway'[i] = IF i <= Len(gateway) THEN gateway[i] ELSE x
  <2> PICK row : row = [i \in 1..accepting |-> x]
    OBVIOUS
  <2>1. gateway' = gateway \o row
    BY <1>2
  <2>2. /\ gateway \o row \in Seq(GatewayJob) /\ Len(gateway \o row) = Len(gateway) + accepting
        /\ \A i \in 1..Len(gateway) + accepting :
              (gateway \o row)[i] = IF i <= Len(gateway) THEN gateway[i] ELSE x
    <3>1. gateway \o row \in Seq(GatewayJob) /\ Len(gateway \o row) = Len(gateway) + accepting
      BY <1>1, <1>2, <1>9, CountRow
    <3>2. \A i \in 1..Len(gateway) + accepting :
              (gateway \o row)[i] = IF i <= Len(gateway) THEN gateway[i] ELSE x
      BY <1>1, <1>2, <1>9, CountRow
    <3> QED
      BY <3>1, <3>2
  <2>3. \A jobs : Count(gateway \o row, jobs)
                     = Count(gateway, jobs) + (IF x \in jobs THEN accepting ELSE 0)
    <3> SUFFICES ASSUME NEW jobs
                 PROVE  Count(gateway \o row, jobs)
                          = Count(gateway, jobs) + (IF x \in jobs THEN accepting ELSE 0)
      OBVIOUS
    <3> QED
      BY <1>1, <1>2, <1>9, CountRow
  <2> QED
    BY <2>1, <2>2, <2>3
<1>4. \A K : x \in GatewayJobs(K) <=> "acceptFailed" \in K
  BY <1>1 DEF GatewayJobs
<1>5. \A c : x \notin Forgets(c)
  BY <1>1 DEF Forgets
<1>6. \A i \in 1..Len(gateway) : gateway'[i] = gateway[i]
  BY <1>2, <1>3, GatewayTyped
<1>7. \A i \in 1..Len(gateway') : i > Len(gateway) => gateway'[i].kind = "acceptFailed"
  BY <1>1, <1>2, <1>3, GatewayTyped
<1>8. /\ \A K : Count(gateway', GatewayJobs(K)) = Count(gateway, GatewayJobs(K))
                     + (IF "acceptFailed" \in K THEN accepting ELSE 0)
      /\ \A c : Count(gateway', Forgets(c)) = Count(gateway, Forgets(c))
  BY <1>3, <1>4, <1>5, GatewayTyped
<1> QED
  BY <1>3, <1>6, <1>7, <1>8

GatewayKinds == {"accepted", "acceptFailed", "send", "broadcast", "forget"}

LEMMA ForGatewayTyped ==
    ASSUME NEW kind \in GatewayKinds, NEW id \in Id \cup {0}, NEW m \in Message \cup {0}
    PROVE  /\ ForGateway(kind, id, m) \in GatewayJob
           /\ ForGateway(kind, id, m).kind = kind /\ ForGateway(kind, id, m).id = id
           /\ ForGateway(kind, id, m).message = m
BY DEF ForGateway, GatewayJob, GatewayKinds

\* The gateway's part of a step, action by action, as far as it concerns the accepts.
AcceptsMove ==
    /\ AcceptsInv' /\ gateway' \in Seq(GatewayJob) /\ accepting' \in Nat
    /\ nextId' \in {nextId, nextId + 1} /\ nextId' \in 1..(MaxIds + 1)

LEMMA AcceptsStep ==
    ASSUME Inv, [Next]_vars
    PROVE  AcceptsMove
<1> PICK A, C : /\ A = Count(gateway, GatewayJobs({"accepted", "acceptFailed"}))
                /\ C = Count(gateway, GatewayJobs({"accepted"}))
  OBVIOUS
<1> PICK B, D : /\ B = Count(gateway', GatewayJobs({"accepted", "acceptFailed"}))
                /\ D = Count(gateway', GatewayJobs({"accepted"}))
  OBVIOUS
<1>0. /\ TypeOK /\ accepting \in Nat /\ starts \in Nat /\ nextId \in Nat /\ running \in BOOLEAN
      /\ nextId \in 1..(MaxIds + 1) /\ gateway \in Seq(GatewayJob)
      /\ A \in Nat /\ C \in Nat
  BY ConstantsTyped, GatewayTyped DEF Inv, TypeOK
<1>1. /\ accepting + A <= starts /\ (running => accepting + A >= 1) /\ nextId + C <= MaxIds + 1
  BY DEF Inv, AcceptsInv
<1>2. ASSUME accepting' \in Nat /\ starts' \in Nat /\ nextId' \in {nextId, nextId + 1},
             accepting' + B <= starts', running' => accepting' + B >= 1,
             nextId' + D <= MaxIds + 1, gateway' \in Seq(GatewayJob)
      PROVE  AcceptsMove
  <2>1. D \in Nat
    BY <1>2, CountTyped
  <2>2. nextId' \in 1..(MaxIds + 1)
    BY <1>0, <1>2, <2>1, ConstantsTyped, SMTT(30)
  <2> QED
    BY <1>2, <2>2 DEF AcceptsInv, AcceptsMove
<1>3. CASE UNCHANGED gateway
  <2>1. B = A /\ D = C
    BY <1>3
  <2>2. CASE Start
    BY <1>0, <1>1, <1>2, <1>3, <2>1, <2>2 DEF Start
  <2>3. CASE UNCHANGED <<accepting, starts, nextId, running>>
    BY <1>0, <1>1, <1>2, <1>3, <2>1, <2>3
  <2>4. CASE HandleAccepted \/ HandleRefused \/ HandleSend \/ HandleForget
    <3>1. gateway # <<>> /\ gateway' = Tail(gateway)
      BY <2>4 DEF HandleAccepted, HandleRefused, HandleSend, HandleForget, Turn
    <3>2. Len(Tail(gateway)) = Len(gateway) - 1
      BY <1>0, <3>1, HeadTailProperties
    <3> QED
      BY <1>0, <1>3, <3>1, <3>2, GatewayTyped
  <2>5. CASE Stop
    <3>1. accepting' = 0 /\ starts' = starts /\ nextId' = nextId /\ ~running'
      BY <2>5 DEF Stop
    <3> QED
      BY <1>0, <1>1, <1>2, <1>3, <2>1, <3>1
  <2>6. CASE \/ Broadcast \/ \E c \in Id : Send(c)
             \/ \E result \in {"accepted", "acceptFailed"} : AcceptCompletes(result)
    <3>1. PICK j \in GatewayJob : gateway' = Append(gateway, j)
      <4>1. nextSend <= MaxSends => nextSend \in Message
        BY <1>0, ConstantsTyped DEF TypeOK, Message
      <4> QED
        BY <2>6, <4>1, ForGatewayTyped DEF Broadcast, Send, AcceptCompletes, GatewayKinds
    <3>2. Len(gateway') = Len(gateway) + 1
      BY <1>0, <3>1, AppendProperties
    <3> QED
      BY <1>0, <1>3, <3>2, GatewayTyped
  <2> QED
    BY <2>2, <2>3, <2>4, <2>5, <2>6 DEF Next, vars, HandleFailure, HandleHeader,
       HandleHeaderTooLarge, HandleBody, HandleBodyOverRate, HandleFrame, HandleWritten,
       ReadCompletes, WriteCompletes
<1>4. CASE Stop
  <2>1. B = A + accepting /\ D = C /\ gateway' \in Seq(GatewayJob)
    BY <1>0, <1>4, GatewayStopped
  <2>2. accepting' = 0 /\ starts' = starts /\ nextId' = nextId /\ ~running'
    BY <1>4 DEF Stop
  <2> QED
    BY <1>0, <1>1, <1>2, <2>1, <2>2
<1>5. ASSUME NEW j \in GatewayJob, gateway' = Append(gateway, j), j.kind \in {"send", "broadcast", "forget"},
             UNCHANGED <<accepting, starts, nextId, running>>
      PROVE  AcceptsMove
  <2>1. B = A /\ D = C /\ gateway' \in Seq(GatewayJob)
    BY <1>0, <1>5, GatewayPosted
  <2> QED
    BY <1>0, <1>1, <1>2, <1>5, <2>1
<1>6. ASSUME NEW result \in {"accepted", "acceptFailed"}, AcceptCompletes(result) PROVE AcceptsMove
  <2>1. PICK j : j = ForGateway(result, 0, 0)
    OBVIOUS
  <2>2. j \in GatewayJob /\ j.kind = result
    BY <2>1, ForGatewayTyped DEF GatewayKinds
  <2>3. gateway' = Append(gateway, j) /\ accepting' = accepting - 1 /\ accepting > 0
        /\ UNCHANGED <<starts, nextId, running>>
    BY <1>6, <2>1 DEF AcceptCompletes
  <2>4. /\ B = A + 1 /\ gateway' \in Seq(GatewayJob)
        /\ D = C + (IF result = "accepted" THEN 1 ELSE 0)
    BY <1>0, <2>2, <2>3, GatewayPosted
  <2>5. result = "accepted" => nextId + C <= MaxIds
    BY <1>0, <1>6, GatewayTyped DEF AcceptCompletes, Count
  <2> QED
    <3>1. accepting' \in Nat /\ accepting' + B = accepting + A
      BY <1>0, <2>3, <2>4
    <3>2. nextId' + D <= MaxIds + 1
      BY <1>0, <1>1, <2>3, <2>4, <2>5, ConstantsTyped, SMTT(30)
    <3> QED
      BY <1>0, <1>1, <1>2, <2>3, <2>4, <3>1, <3>2
<1>7. CASE HandleAccepted \/ HandleRefused
  <2>1. /\ gateway # <<>> /\ gateway' = Tail(gateway) /\ accepting' = accepting + 1
        /\ Head(gateway).kind \in {"accepted", "acceptFailed"} /\ UNCHANGED <<starts, running>>
        /\ nextId' = nextId \/ (Head(gateway).kind = "accepted" /\ nextId' = nextId + 1)
    BY <1>7 DEF HandleAccepted, HandleRefused, Turn
  <2>2. /\ A = B + 1 /\ B \in Nat /\ D \in Nat
        /\ C = D + (IF Head(gateway).kind = "accepted" THEN 1 ELSE 0)
        /\ gateway' \in Seq(GatewayJob)
    BY <1>0, <2>1, GatewayTaken
  <2> QED
    <3>1. accepting' \in Nat /\ accepting' + B = accepting + A
      BY <1>0, <2>1, <2>2
    <3>2. nextId' + D <= MaxIds + 1 /\ nextId' \in {nextId, nextId + 1}
      <4>1. CASE Head(gateway).kind = "accepted"
        <5>1. C = D + 1 /\ D \in Nat
          BY <2>2, <4>1
        <5>2. nextId' \in {nextId, nextId + 1}
          BY <2>1
        <5>3. nextId + (D + 1) <= MaxIds + 1
          BY <1>1, <5>1
        <5> QED
          BY <1>0, <5>1, <5>2, <5>3, ConstantsTyped, SMTT(30)
      <4>2. CASE Head(gateway).kind # "accepted"
        BY <1>0, <1>1, <2>1, <2>2, <4>2, ConstantsTyped, SMTT(30)
      <4> QED
        BY <4>1, <4>2
    <3> QED
      BY <1>0, <1>1, <1>2, <2>1, <2>2, <3>1, <3>2
<1>8. CASE HandleSend \/ HandleForget
  <2>1. /\ gateway # <<>> /\ gateway' = Tail(gateway) /\ UNCHANGED <<accepting, starts, nextId, running>>
        /\ Head(gateway).kind \in {"send", "broadcast", "forget"}
    BY <1>8 DEF HandleSend, HandleForget, Turn
  <2>2. A = B /\ C = D /\ gateway' \in Seq(GatewayJob)
        /\ B \in Nat /\ D \in Nat
    BY <1>0, <2>1, GatewayTaken
  <2> QED
    BY <1>0, <1>1, <1>2, <2>1, <2>2
<1>9. CASE Broadcast \/ \E c \in Id : Send(c)
  <2>1. nextSend <= MaxSends => nextSend \in Message
    BY <1>0, ConstantsTyped DEF TypeOK, Message
  <2>2. PICK j \in GatewayJob : gateway' = Append(gateway, j) /\ j.kind \in {"send", "broadcast"}
    BY <1>9, <2>1, ForGatewayTyped DEF Broadcast, Send, GatewayKinds
  <2>3. UNCHANGED <<accepting, starts, nextId, running>>
    BY <1>9 DEF Broadcast, Send
  <2> QED
    BY <1>5, <2>2, <2>3
<1>10. ASSUME NEW c \in Id, CloseNow(c), UNCHANGED <<accepting, starts, nextId, running>>,
              gateway' # gateway
       PROVE  AcceptsMove
  <2>1. PICK j \in GatewayJob : gateway' = Append(gateway, j) /\ j.kind = "forget"
    BY <1>10, ForGatewayTyped DEF CloseNow, GatewayKinds
  <2> QED
    BY <1>5, <1>10, <2>1
<1>11. ASSUME NEW c \in Id, HandleFailure(c) \/ HandleHeaderTooLarge(c) \/ HandleBodyOverRate(c),
              gateway' # gateway
       PROVE  AcceptsMove
  BY <1>10, <1>11 DEF HandleFailure, HandleHeaderTooLarge, HandleBodyOverRate
<1>12. ASSUME gateway' # gateway PROVE AcceptsMove
  BY <1>4, <1>6, <1>7, <1>8, <1>9, <1>11, <1>12 DEF Next, vars, Start, HandleHeader,
     HandleBody, HandleFrame, HandleWritten, ReadCompletes, WriteCompletes
<1> QED
  BY <1>3, <1>12

------------------------------------------------------------------------------
(* Types *)

LEMMA IdsGrow ==
    ASSUME NEW a \in Nat, NEW b \in Nat, a <= b
    PROVE  \A i \in 1..(a - 1) : i \in 1..(b - 1)
OBVIOUS

LEMMA TableStep ==
    ASSUME Inv, [Next]_vars
    PROVE  table' \subseteq 1..(nextId' - 1) /\ Cardinality(table') <= MaxConnections
<1>0. /\ table \subseteq 1..(nextId - 1) /\ Cardinality(table) <= MaxConnections
      /\ nextId \in Nat /\ nextId' \in {nextId, nextId + 1} /\ TypeOK
  BY AcceptsStep, ConstantsTyped DEF Inv, TypeOK, Opened, AcceptsMove
<1>1. IsFiniteSet(table) /\ Cardinality(table) \in Nat
  <2>1. nextId - 1 \in Int
    BY <1>0
  <2>2. IsFiniteSet(1..(nextId - 1))
    BY <2>1, FS_Interval
  <2>3. IsFiniteSet(table)
    BY <1>0, <2>2, FS_Subset
  <2> QED
    BY <2>3, FS_CardinalityType
<1>2. CASE HandleAccepted
  <2>1. /\ table' = table \cup {nextId} /\ Cardinality(table) < MaxConnections
        /\ nextId' = nextId + 1
    BY <1>2 DEF HandleAccepted
  <2>2. nextId \notin table /\ nextId \in Int
    BY <1>0
  <2>3. Cardinality(table \cup {nextId}) = Cardinality(table) + 1
    BY <1>1, <2>2, FS_AddElement
  <2>4. Cardinality(table') <= MaxConnections
    BY <1>1, <2>1, <2>3, ConstantsTyped
  <2>5. \A i \in table' : i \in 1..(nextId' - 1)
    <3>1. 1 <= nextId
      BY <1>0 DEF TypeOK
    <3> QED
      BY <1>0, <2>1, <2>2, <3>1
  <2> QED
    BY <2>4, <2>5
<1>3. CASE table' \subseteq table
  <2>1. Cardinality(table') <= Cardinality(table) /\ Cardinality(table') \in Nat
    BY <1>1, <1>3, FS_Subset, FS_CardinalityType
  <2>2. Cardinality(table') <= MaxConnections
    BY <1>0, <1>1, <2>1, ConstantsTyped
  <2>3. \A i \in 1..(nextId - 1) : i \in 1..(nextId' - 1)
    <3>1. nextId \in Nat /\ nextId' \in Nat /\ nextId <= nextId'
      BY <1>0
    <3> QED
      BY <3>1, IdsGrow
  <2> QED
    BY <1>0, <1>3, <2>2, <2>3
<1>4. HandleAccepted \/ table' \subseteq table
  BY DEF Next, vars, Start, Stop, Send, Broadcast, AcceptCompletes, ReadCompletes, WriteCompletes,
     HandleRefused, HandleSend, HandleForget, HandleFailure, HandleHeader, HandleHeaderTooLarge,
     HandleBody, HandleBodyOverRate, HandleFrame, HandleWritten
<1> QED
  BY <1>2, <1>3, <1>4

LEMMA HistoryStep ==
    ASSUME Inv, [Next]_vars
    PROVE  told' \in [Id -> Nat] /\ wire' \in [Id -> Seq(Message)] /\ late' \in [Id -> Nat]
<1>0. told \in [Id -> Nat] /\ wire \in [Id -> Seq(Message)] /\ late \in [Id -> Nat] /\ TypeOK
  BY DEF Inv, TypeOK
<1>1. ASSUME NEW d \in Id, NEW result \in {"written", "writeFailed"}, WriteCompletes(d, result)
      PROVE  UNCHANGED <<told, late>> /\ wire' \in [Id -> Seq(Message)]
  <2>1. conn[d].writing # <<>> /\ conn[d].writing \in Seq(Message) /\ wire[d] \in Seq(Message)
    BY <1>0, <1>1, ConnectionTyped DEF WriteCompletes
  <2>2. Append(wire[d], Head(conn[d].writing)) \in Seq(Message)
    BY <2>1, HeadTailProperties, AppendProperties
  <2> QED
    BY <1>0, <1>1, <2>2 DEF WriteCompletes
<1>2. CASE HandleForget
  <2>1. told' = [told EXCEPT ![Head(gateway).id] = @ + 1] /\ UNCHANGED <<wire, late>>
    BY <1>2 DEF HandleForget
  <2>2. CASE Head(gateway).id \in Id
    <3> PICK d \in Id : d = Head(gateway).id
      BY <2>2
    <3>1. told' = [told EXCEPT ![d] = told[d] + 1] /\ told[d] + 1 \in Nat
      BY <1>0, <2>1
    <3> QED
      BY <1>0, <2>1, <3>1
  <2>3. CASE Head(gateway).id \notin Id
    <3>1. told' = told
      BY <1>0, <2>1, <2>3
    <3> QED
      BY <1>0, <2>1, <3>1
  <2> QED
    BY <2>2, <2>3
<1>3. ASSUME NEW d \in Id, NEW b \in BOOLEAN, HandleBody(d, b)
      PROVE  UNCHANGED <<told, wire>> /\ late' \in [Id -> Nat]
  BY <1>0, <1>3 DEF HandleBody
<1>4. \/ UNCHANGED history \/ HandleForget
      \/ \E d \in Id, result \in {"written", "writeFailed"} : WriteCompletes(d, result)
      \/ \E d \in Id, b \in BOOLEAN : HandleBody(d, b)
  BY DEF Next, vars, history, Start, Stop, Send, Broadcast, AcceptCompletes, ReadCompletes,
     HandleAccepted, HandleRefused, HandleSend, HandleFailure, HandleHeader, HandleHeaderTooLarge,
     HandleBodyOverRate, HandleFrame, HandleWritten
<1> QED
  BY <1>0, <1>1, <1>2, <1>3, <1>4 DEF history

LEMMA TypeStep == Inv /\ [Next]_vars => TypeOK'
<1> SUFFICES ASSUME Inv, [Next]_vars PROVE TypeOK'
  OBVIOUS
<1>0. TypeOK
  BY DEF Inv
<1>1. running' \in BOOLEAN
  BY <1>0 DEF TypeOK, Next, vars, Start, Stop, Send, Broadcast, AcceptCompletes, ReadCompletes,
     WriteCompletes, HandleAccepted, HandleRefused, HandleSend, HandleForget, HandleFailure,
     HandleHeader, HandleHeaderTooLarge, HandleBody, HandleBodyOverRate, HandleFrame, HandleWritten
<1>2. starts' \in 0..MaxStarts
  <2>1. UNCHANGED starts \/ (starts < MaxStarts /\ starts' = starts + 1)
    BY DEF Next, vars, Start, Stop, Send, Broadcast, AcceptCompletes, ReadCompletes,
     WriteCompletes, HandleAccepted, HandleRefused, HandleSend, HandleForget, HandleFailure,
     HandleHeader, HandleHeaderTooLarge, HandleBody, HandleBodyOverRate, HandleFrame, HandleWritten
  <2> QED
    BY <1>0, <2>1, ConstantsTyped DEF TypeOK
<1>3. nextSend' \in 1..(MaxSends + 1)
  <2>1. UNCHANGED nextSend \/ (nextSend <= MaxSends /\ nextSend' = nextSend + 1)
    BY DEF Next, vars, Start, Stop, Send, Broadcast, AcceptCompletes, ReadCompletes,
     WriteCompletes, HandleAccepted, HandleRefused, HandleSend, HandleForget, HandleFailure,
     HandleHeader, HandleHeaderTooLarge, HandleBody, HandleBodyOverRate, HandleFrame, HandleWritten
  <2> QED
    BY <1>0, <2>1, ConstantsTyped DEF TypeOK
<1>4. gateway' \in Seq(GatewayJob) /\ nextId' \in 1..(MaxIds + 1)
  BY AcceptsStep DEF AcceptsMove
<1>5. accepting' \in 0..MaxStarts
  <2>1. /\ accepting' \in Nat
        /\ accepting' + Count(gateway', GatewayJobs({"accepted", "acceptFailed"})) <= starts'
    BY AcceptsStep DEF AcceptsMove, AcceptsInv
  <2>2. Count(gateway', GatewayJobs({"accepted", "acceptFailed"})) \in Nat
    BY <1>4, CountTyped
  <2> QED
    BY <1>2, <2>1, <2>2, ConstantsTyped
<1>6. table' \subseteq Opened' /\ Cardinality(table') <= MaxConnections
  BY TableStep DEF Opened
<1>7. conn' \in [Id -> Connection]
  BY ConnectionEffect DEF ConnectionsMove
<1> QED
  BY <1>1, <1>2, <1>3, <1>4, <1>5, <1>6, <1>7, HistoryStep DEF TypeOK

------------------------------------------------------------------------------
(* What a step does to a connection's strand, and to the invariants of each connection *)

LEMMA CountSubset ==
    ASSUME NEW S, NEW s \in Seq(S), NEW jobs, NEW more, jobs \subseteq more
    PROVE  Count(s, jobs) <= Count(s, more)
<1>1. Places(s, jobs) \subseteq Places(s, more) /\ IsFiniteSet(Places(s, more))
  BY CountTyped DEF Places
<1> QED
  BY <1>1, FS_Subset DEF Count

LEMMA JobsTyped ==
    ASSUME NEW s \in Seq(Job) PROVE \A K : Count(s, JobsOf(K)) \in Nat
BY CountTyped

LEMMA JobsPosted ==
    ASSUME NEW s \in Seq(Job), NEW kind, NEW m, [kind |-> kind, message |-> m] \in Job
    PROVE  LET t == Append(s, [kind |-> kind, message |-> m]) IN
           \A K : Count(t, JobsOf(K)) = Count(s, JobsOf(K)) + (IF kind \in K THEN 1 ELSE 0)
<1> PICK j \in Job : j = [kind |-> kind, message |-> m]
  OBVIOUS
<1>1. \A K : j \in JobsOf(K) <=> kind \in K
  BY DEF JobsOf
<1>2. \A jobs : Count(Append(s, j), jobs) = Count(s, jobs) + (IF j \in jobs THEN 1 ELSE 0)
  BY CountAppend
<1> QED
  BY <1>1, <1>2

LEMMA JobsTaken ==
    ASSUME NEW s \in Seq(Job), s # <<>>
    PROVE  \A K : Count(s, JobsOf(K))
                     = Count(Tail(s), JobsOf(K)) + (IF Head(s).kind \in K THEN 1 ELSE 0)
<1>1. Head(s) \in Job
  BY HeadTailProperties
<1>2. \A K : Head(s) \in JobsOf(K) <=> Head(s).kind \in K
  BY <1>1 DEF JobsOf
<1>3. \A jobs : Count(s, jobs) = Count(Tail(s), jobs) + (IF Head(s) \in jobs THEN 1 ELSE 0)
  BY CountTail
<1> QED
  BY <1>2, <1>3

\* How many handlers of some kinds a step leaves on the strand of connection c.
LEMMA JobsMove ==
    ASSUME TypeOK, ConnectionsMove, NEW c \in Id
    PROVE  /\ conn[c].jobs \in Seq(Job) /\ conn'[c].jobs \in Seq(Job) /\ conn'[c] \in Connection
           /\ \A K : Count(conn[c].jobs, JobsOf(K)) \in Nat /\ Count(conn'[c].jobs, JobsOf(K)) \in Nat
           /\ \A kind, m : Posted(c, kind, m) =>
                \A K : Count(conn'[c].jobs, JobsOf(K))
                         = Count(conn[c].jobs, JobsOf(K)) + (IF kind \in K THEN 1 ELSE 0)
           /\ \A kind : Taken(c, kind) =>
                \A K : Count(conn[c].jobs, JobsOf(K))
                         = Count(conn'[c].jobs, JobsOf(K)) + (IF kind \in K THEN 1 ELSE 0)
<1>1. conn[c].jobs \in Seq(Job) /\ conn'[c].jobs \in Seq(Job) /\ conn'[c] \in Connection
  BY ConnectionTyped DEF ConnectionsMove, Connection
<1>2. \A K : Count(conn[c].jobs, JobsOf(K)) \in Nat /\ Count(conn'[c].jobs, JobsOf(K)) \in Nat
  BY <1>1, JobsTyped
<1>3. ASSUME NEW kind, NEW m, Posted(c, kind, m), NEW K
      PROVE  Count(conn'[c].jobs, JobsOf(K))
                = Count(conn[c].jobs, JobsOf(K)) + (IF kind \in K THEN 1 ELSE 0)
  BY <1>1, <1>3, JobsPosted DEF Posted
<1>4. ASSUME NEW kind, Taken(c, kind), NEW K
      PROVE  Count(conn[c].jobs, JobsOf(K))
                = Count(conn'[c].jobs, JobsOf(K)) + (IF kind \in K THEN 1 ELSE 0)
  BY <1>1, <1>4, JobsTaken DEF Taken
<1> QED
  BY <1>1, <1>2, <1>3, <1>4

LEMMA FreshStep ==
    ASSUME Inv, [Next]_vars
    PROVE  ConnectionsAreFresh'
<1>1. ConnectionsMove /\ TypeOK
  BY ConnectionEffect DEF Inv
<1>2. nextId \in Nat /\ nextId' \in {nextId, nextId + 1}
  BY <1>1, AcceptsStep DEF AcceptsMove, TypeOK
<1>3. SUFFICES ASSUME NEW c \in Id, c >= nextId' PROVE conn'[c] = Fresh /\ late'[c] = 0
  BY DEF ConnectionsAreFresh
<1>4. c >= nextId /\ c \in Int
  <2>1. c \in Int
    BY ConstantsTyped DEF Id
  <2>2. CASE nextId' = nextId
    BY <1>2, <1>3, <2>1, <2>2
  <2>3. CASE nextId' = nextId + 1
    BY <1>2, <1>3, <2>1, <2>3
  <2> QED
    BY <1>2, <2>1, <2>2, <2>3
<1>5. conn[c] = Fresh /\ late[c] = 0
  BY <1>4 DEF Inv, ConnectionInv, ConnectionsAreFresh
<1>6. c \notin table
  BY <1>1, <1>2, <1>4 DEF TypeOK, Opened
<1>7. ~IsOpened(c)
  BY <1>2, <1>3, <1>4 DEF IsOpened
<1>8. Untouched(c)
  BY <1>1, <1>5, <1>6, <1>7 DEF ConnectionsMove, ConnectionSteps, Fresh, IsPosted, ReadIsDone,
     WriteIsDone, IsClosed, HeaderIsRead, BodyIsRead, FrameIsQueued, FrameIsDone, Taken
<1> QED
  BY <1>5, <1>8 DEF Untouched

LEMMA ReadsStep ==
    ASSUME Inv, [Next]_vars
    PROVE  OneReadEach'
<1>1. ConnectionsMove /\ TypeOK
  BY ConnectionEffect DEF Inv
<1> SUFFICES ASSUME NEW c \in Id
    PROVE  Count(conn'[c].jobs, JobsOf({"header", "body", "readFailed"}))
              + (IF conn'[c].reading = "none" THEN 0 ELSE 1) <= 1
  BY DEF OneReadEach
<1> PICK a, b : /\ a = Count(conn[c].jobs, JobsOf({"header", "body", "readFailed"}))
                /\ b = Count(conn'[c].jobs, JobsOf({"header", "body", "readFailed"}))
  OBVIOUS
<1>2. a \in Nat /\ b \in Nat /\ ConnectionSteps(c)
  BY <1>1, JobsMove DEF ConnectionsMove
<1>3. a + (IF conn[c].reading = "none" THEN 0 ELSE 1) <= 1
  BY DEF Inv, ConnectionInv, OneReadEach
<1>4. CASE Untouched(c)
  BY <1>2, <1>3, <1>4 DEF Untouched
<1>5. CASE IsPosted(c)
  <2>1. b = a
    BY <1>1, <1>2, <1>5, JobsMove DEF IsPosted
  <2> QED
    BY <1>3, <1>5, <2>1 DEF IsPosted, OnlyJobs
<1>6. CASE IsOpened(c)
  <2>1. nextId \in Nat /\ conn[c].jobs = <<>>
    BY <1>1, <1>6 DEF Inv, ConnectionInv, ConnectionsAreFresh, IsOpened, TypeOK, Fresh
  <2>2. b = 0
    BY <1>6, <2>1, CountNone DEF IsOpened
  <2> QED
    BY <2>2
<1>7. CASE ReadIsDone(c)
  <2>1. b = a + 1 /\ conn'[c].reading = "none" /\ conn[c].reading # "none"
    <3>1. PICK result \in {"header", "body", "readFailed"} : Posted(c, result, 0)
      BY <1>1, <1>7, ConnectionTyped DEF ReadIsDone
    <3> QED
      BY <1>1, <1>2, <1>7, <3>1, JobsMove DEF ReadIsDone
  <2> QED
    BY <1>2, <1>3, <2>1
<1>8. CASE WriteIsDone(c)
  <2>1. b = a
    BY <1>1, <1>2, <1>8, JobsMove DEF WriteIsDone
  <2> QED
    BY <1>3, <1>8, <2>1 DEF WriteIsDone
<1>9. CASE IsClosed(c)
  <2>1. b <= a
    BY <1>1, <1>2, <1>9, JobsMove DEF IsClosed
  <2> QED
    BY <1>2, <1>3, <1>9, <2>1 DEF IsClosed
<1>10. CASE HeaderIsRead(c) \/ BodyIsRead(c)
  <2>1. a = b + 1
    BY <1>1, <1>2, <1>10, JobsMove DEF HeaderIsRead, BodyIsRead
  <2> QED
    BY <1>2, <1>3, <2>1
<1>11. CASE FrameIsQueued(c) \/ FrameIsDone(c)
  <2>1. a = b
    BY <1>1, <1>2, <1>11, JobsMove DEF FrameIsQueued, FrameIsDone
  <2> QED
    BY <1>2, <1>3, <1>11, <2>1 DEF FrameIsQueued, FrameIsDone
<1> QED
  BY <1>2, <1>4, <1>5, <1>6, <1>7, <1>8, <1>9, <1>10, <1>11 DEF ConnectionSteps

LEMMA WritesStep ==
    ASSUME Inv, [Next]_vars
    PROVE  OneWriteEach'
<1>1. ConnectionsMove /\ TypeOK
  BY ConnectionEffect DEF Inv
<1> SUFFICES ASSUME NEW c \in Id
    PROVE  LET writes == Len(conn'[c].writing) + Count(conn'[c].jobs, JobsOf({"written", "writeFailed"}))
           IN  /\ conn'[c].out = <<>> => writes = 0
               /\ writes <= 1
               /\ ~conn'[c].closed /\ conn'[c].out # <<>> => writes = 1
  BY DEF OneWriteEach, Writes
<1> PICK a, b, w, x : /\ a = Count(conn[c].jobs, JobsOf({"written", "writeFailed"}))
                      /\ b = Count(conn'[c].jobs, JobsOf({"written", "writeFailed"}))
                      /\ w = Len(conn[c].writing) /\ x = Len(conn'[c].writing)
  OBVIOUS
<1>2. a \in Nat /\ b \in Nat /\ ConnectionSteps(c)
  BY <1>1, JobsMove DEF ConnectionsMove
<1>3. /\ conn[c].writing \in Seq(Message) /\ conn'[c].writing \in Seq(Message)
      /\ conn[c].out \in Seq(Message) /\ conn'[c].out \in Seq(Message)
      /\ w \in Nat /\ x \in Nat
  <2>1. /\ conn[c].writing \in Seq(Message) /\ conn'[c].writing \in Seq(Message)
        /\ conn[c].out \in Seq(Message) /\ conn'[c].out \in Seq(Message)
    BY <1>1, ConnectionTyped, JobsMove DEF Connection
  <2> QED
    BY <2>1, LenProperties
<1>4. /\ conn[c].out = <<>> => w + a = 0
      /\ w + a <= 1
      /\ ~conn[c].closed /\ conn[c].out # <<>> => w + a = 1
  BY DEF Inv, ConnectionInv, OneWriteEach, Writes
<1>5. CASE Untouched(c) \/ IsOpened(c)
  <2>1. /\ conn'[c].jobs = conn[c].jobs /\ conn'[c].writing = conn[c].writing
        /\ conn'[c].out = conn[c].out /\ conn'[c].closed = conn[c].closed
    BY <1>5 DEF Untouched, IsOpened
  <2> QED
    BY <1>4, <2>1
<1>6. CASE IsPosted(c) \/ ReadIsDone(c) \/ HeaderIsRead(c) \/ BodyIsRead(c)
  <2>1. /\ conn'[c].writing = conn[c].writing
        /\ conn'[c].out = conn[c].out /\ conn'[c].closed = conn[c].closed
    BY <1>6 DEF IsPosted, OnlyJobs, ReadIsDone, HeaderIsRead, BodyIsRead
  <2>2. b = a
    <3>1. CASE IsPosted(c)
      <4>1. PICK kind, m : kind \in {"close", "send"} /\ Posted(c, kind, m)
        BY <3>1 DEF IsPosted
      <4> QED
        BY <1>1, <1>2, <4>1, JobsMove
    <3>2. CASE ReadIsDone(c)
      <4>1. PICK result \in {"header", "body", "readFailed"} : Posted(c, result, 0)
        BY <1>1, <3>2, ConnectionTyped DEF ReadIsDone
      <4> QED
        BY <1>1, <1>2, <4>1, JobsMove
    <3>3. CASE HeaderIsRead(c) \/ BodyIsRead(c)
      BY <1>1, <1>2, <3>3, JobsMove DEF HeaderIsRead, BodyIsRead
    <3> QED
      BY <1>6, <3>1, <3>2, <3>3
  <2> QED
    BY <1>4, <2>1, <2>2
<1>7. CASE WriteIsDone(c)
  <2>1. b = a + 1 /\ conn'[c].out = conn[c].out /\ conn'[c].closed = conn[c].closed
    BY <1>1, <1>2, <1>7, JobsMove DEF WriteIsDone
  <2>2. w = x + 1
    BY <1>3, <1>7, HeadTailProperties DEF WriteIsDone
  <2> QED
    BY <1>2, <1>3, <1>4, <2>1, <2>2
<1>8. CASE IsClosed(c)
  <2>1. b <= a
    BY <1>1, <1>2, <1>8, JobsMove DEF IsClosed
  <2>2. x = w /\ conn'[c].out = conn[c].out /\ conn'[c].closed = TRUE
    BY <1>8 DEF IsClosed
  <2> QED
    BY <1>2, <1>3, <1>4, <2>1, <2>2
<1>9. CASE FrameIsQueued(c)
  <2>1. b = a
    BY <1>1, <1>2, <1>9, JobsMove DEF FrameIsQueued
  <2>2. conn'[c].out # <<>>
    <3>1. PICK m : conn'[c].out = Append(conn[c].out, m)
      BY <1>9 DEF FrameIsQueued
    <3>2. Len(conn'[c].out) = Len(conn[c].out) + 1 /\ Len(conn[c].out) \in Nat
      BY <1>3, <3>1, LenProperties
    <3> QED
      BY <1>3, <3>2, EmptySeq
  <2>3. CASE conn[c].out # <<>> \/ conn[c].closed
    <3>1. x = w /\ conn'[c].closed = conn[c].closed
      BY <1>9, <2>2, <2>3 DEF FrameIsQueued, Written
    <3> QED
      BY <1>2, <1>3, <1>4, <2>1, <2>2, <2>3, <3>1
  <2>4. CASE ~(conn[c].out # <<>> \/ conn[c].closed)
    <3>1. conn'[c].writing = Append(conn[c].writing, Head(conn'[c].out))
      BY <1>9, <2>2, <2>4 DEF FrameIsQueued, Written
    <3>2. Head(conn'[c].out) \in Message
      BY <1>3, <2>2, HeadTailProperties
    <3>3. x = w + 1
      BY <1>3, <3>1, <3>2, AppendProperties
    <3>4. x = 1 /\ b = 0
      BY <1>2, <1>3, <1>4, <2>1, <2>4, <3>3
    <3> QED
      BY <2>2, <3>4
  <2> QED
    BY <2>3, <2>4
<1>10. CASE FrameIsDone(c)
  <2>1. a = b + 1
    BY <1>1, <1>2, <1>10, JobsMove DEF FrameIsDone
  <2>2. w = 0 /\ b = 0
    BY <1>2, <1>3, <1>4, <2>1
  <2>3. CASE conn'[c].out = <<>> \/ conn[c].closed
    <3>1. x = w /\ conn'[c].closed = conn[c].closed
      BY <1>10, <2>3 DEF FrameIsDone, Written
    <3> QED
      BY <2>2, <2>3, <3>1
  <2>4. CASE ~(conn'[c].out = <<>> \/ conn[c].closed)
    <3>1. conn'[c].writing = Append(conn[c].writing, Head(conn'[c].out))
      BY <1>10, <2>4 DEF FrameIsDone, Written
    <3>2. Head(conn'[c].out) \in Message
      BY <1>3, <2>4, HeadTailProperties
    <3>3. x = w + 1
      BY <1>3, <3>1, <3>2, AppendProperties
    <3> QED
      BY <2>2, <2>4, <3>3
  <2> QED
    BY <2>3, <2>4
<1> QED
  BY <1>2, <1>5, <1>6, <1>7, <1>8, <1>9, <1>10 DEF ConnectionSteps

LEMMA LateStep ==
    ASSUME Inv, [Next]_vars
    PROVE  OneMessageLate'
<1>1. ConnectionsMove /\ TypeOK
  BY ConnectionEffect DEF Inv
<1> SUFFICES ASSUME NEW c \in Id
    PROVE  /\ ~conn'[c].closed => late'[c] = 0
           /\ conn'[c].closed =>
                late'[c] + Count(conn'[c].jobs, JobsOf({"header", "body"}))
                    + (IF conn'[c].reading = "body" THEN 1 ELSE 0) <= 1
  BY DEF OneMessageLate
<1> PICK a, b, r, l : /\ a = Count(conn[c].jobs, JobsOf({"header", "body"}))
                      /\ b = Count(conn'[c].jobs, JobsOf({"header", "body"}))
                      /\ r = Count(conn[c].jobs, JobsOf({"header", "body", "readFailed"}))
                      /\ l = late[c]
  OBVIOUS
<1>2. a \in Nat /\ b \in Nat /\ r \in Nat /\ l \in Nat /\ ConnectionSteps(c)
  BY <1>1, JobsMove, ConnectionTyped DEF ConnectionsMove
<1>3. /\ ~conn[c].closed => l = 0
      /\ conn[c].closed => l + a + (IF conn[c].reading = "body" THEN 1 ELSE 0) <= 1
      /\ r + (IF conn[c].reading = "none" THEN 0 ELSE 1) <= 1
  BY DEF Inv, ConnectionInv, OneMessageLate, OneReadEach
<1>4. a <= r
  <2>1. JobsOf({"header", "body"}) \subseteq JobsOf({"header", "body", "readFailed"})
    BY DEF JobsOf
  <2> QED
    BY <1>1, <2>1, ConnectionTyped, CountSubset
<1>5. CASE Untouched(c)
  BY <1>3, <1>5 DEF Untouched
<1>6. CASE IsOpened(c)
  <2>1. conn[c].closed = FALSE
    BY <1>1, <1>6 DEF Inv, ConnectionInv, ConnectionsAreFresh, IsOpened, TypeOK, Fresh
  <2> QED
    BY <1>3, <1>6, <2>1 DEF IsOpened
<1>7. CASE ReadIsDone(c)
  <2>1. PICK result \in {"header", "body", "readFailed"} :
            /\ Posted(c, result, 0)
            /\ conn[c].closed => result # "header"
            /\ result \in {conn[c].reading, "readFailed"}
    BY <1>1, <1>7, ConnectionTyped DEF ReadIsDone
  <2>2. b = a + (IF result \in {"header", "body"} THEN 1 ELSE 0)
    BY <1>1, <1>2, <2>1, JobsMove
  <2>3. conn'[c].reading = "none" /\ conn'[c].closed = conn[c].closed /\ late'[c] = l
    BY <1>7 DEF ReadIsDone
  <2> QED
    BY <1>2, <1>3, <2>1, <2>2, <2>3
<1>8. CASE IsPosted(c) \/ WriteIsDone(c) \/ FrameIsQueued(c) \/ FrameIsDone(c)
  <2>1. a = b
    <3>1. CASE IsPosted(c)
      BY <1>1, <1>2, <3>1, JobsMove DEF IsPosted
    <3>2. CASE WriteIsDone(c)
      BY <1>1, <1>2, <3>2, JobsMove DEF WriteIsDone
    <3>3. CASE FrameIsQueued(c) \/ FrameIsDone(c)
      BY <1>1, <1>2, <3>3, JobsMove DEF FrameIsQueued, FrameIsDone
    <3> QED
      BY <1>8, <3>1, <3>2, <3>3
  <2>2. conn'[c].reading = conn[c].reading /\ conn'[c].closed = conn[c].closed /\ late'[c] = l
    BY <1>8 DEF IsPosted, OnlyJobs, WriteIsDone, FrameIsQueued, FrameIsDone
  <2> QED
    BY <1>3, <2>1, <2>2
<1>9. CASE IsClosed(c)
  <2>1. b <= a
    BY <1>1, <1>2, <1>9, JobsMove DEF IsClosed
  <2>2. conn'[c].reading = conn[c].reading /\ conn'[c].closed = TRUE /\ late'[c] = l
    BY <1>9 DEF IsClosed
  <2> QED
    BY <1>2, <1>3, <1>4, <2>1, <2>2
<1>10. CASE HeaderIsRead(c)
  <2>1. a = b + 1
    BY <1>1, <1>2, <1>10, JobsMove DEF HeaderIsRead
  <2>2. conn'[c].reading = "body" /\ conn'[c].closed = conn[c].closed /\ late'[c] = l
    BY <1>10 DEF HeaderIsRead
  <2> QED
    BY <1>2, <1>3, <2>1, <2>2
<1>11. CASE BodyIsRead(c)
  <2>1. a = b + 1
    BY <1>1, <1>2, <1>11, JobsMove DEF BodyIsRead
  <2>2. /\ conn'[c].reading = "header" /\ conn'[c].closed = conn[c].closed
        /\ late'[c] = (IF conn[c].closed THEN l + 1 ELSE l)
    BY <1>11 DEF BodyIsRead
  <2> QED
    BY <1>2, <1>3, <2>1, <2>2
<1> QED
  BY <1>2, <1>5, <1>6, <1>7, <1>8, <1>9, <1>10, <1>11 DEF ConnectionSteps

------------------------------------------------------------------------------
(* Who is told of a closed connection *)

\* A connection stays closed, and a close() that waits for an open one goes on waiting until it
\* is closed.
LEMMA CloseWaits ==
    ASSUME Inv, [Next]_vars, NEW c \in Id
    PROVE  LET a == Count(conn[c].jobs, JobsOf({"close"}))
               b == Count(conn'[c].jobs, JobsOf({"close"}))
           IN  /\ a \in Nat /\ b \in Nat
               /\ conn[c].closed => conn'[c].closed
               /\ conn'[c].closed \/ b >= a
<1>1. ConnectionsMove /\ TypeOK
  BY ConnectionEffect DEF Inv
<1> PICK a, b : /\ a = Count(conn[c].jobs, JobsOf({"close"}))
                /\ b = Count(conn'[c].jobs, JobsOf({"close"}))
  OBVIOUS
<1>2. a \in Nat /\ b \in Nat /\ ConnectionSteps(c)
  BY <1>1, JobsMove DEF ConnectionsMove
<1>3. CASE Untouched(c) \/ IsOpened(c)
  <2>1. conn'[c].jobs = conn[c].jobs /\ conn'[c].closed = conn[c].closed
    BY <1>3 DEF Untouched, IsOpened
  <2> QED
    BY <1>2, <2>1
<1>4. ASSUME NEW kind, NEW m, Posted(c, kind, m), conn'[c].closed = conn[c].closed
      PROVE  conn'[c].closed = conn[c].closed /\ b >= a
  BY <1>1, <1>2, <1>4, JobsMove
<1>5. CASE IsPosted(c) \/ ReadIsDone(c) \/ WriteIsDone(c)
  <2>1. \E kind, m : Posted(c, kind, m) /\ conn'[c].closed = conn[c].closed
    BY <1>5 DEF IsPosted, OnlyJobs, ReadIsDone, WriteIsDone
  <2> QED
    BY <1>2, <1>4, <2>1
<1>6. CASE HeaderIsRead(c) \/ BodyIsRead(c) \/ FrameIsQueued(c) \/ FrameIsDone(c)
  <2>1. PICK kind \in {"header", "body", "send", "written"} :
            Taken(c, kind) /\ conn'[c].closed = conn[c].closed
    BY <1>6 DEF HeaderIsRead, BodyIsRead, FrameIsQueued, FrameIsDone
  <2>2. a = b
    BY <1>1, <1>2, <2>1, JobsMove
  <2> QED
    BY <1>2, <2>1, <2>2
<1>7. CASE IsClosed(c)
  BY <1>2, <1>7 DEF IsClosed
<1> QED
  BY <1>2, <1>3, <1>5, <1>6, <1>7 DEF ConnectionSteps

\* Only closeNow closes.
LEMMA OthersStayOpen ==
    ASSUME Inv, NEW d \in Id,
           \/ \E result : ReadCompletes(d, result) \/ WriteCompletes(d, result)
           \/ HandleHeader(d) \/ HandleFrame(d) \/ HandleWritten(d)
           \/ \E windowOver : HandleBody(d, windowOver)
    PROVE  \A c \in Id : conn'[c].closed = conn[c].closed
<1>1. TypeOK
  BY DEF Inv
<1>2. ASSUME NEW x, conn' = [conn EXCEPT ![d] = x], x.closed = conn[d].closed
      PROVE  \A c \in Id : conn'[c].closed = conn[c].closed
  BY <1>1, <1>2 DEF TypeOK
<1>3. ASSUME NEW result, ReadCompletes(d, result) PROVE \A c \in Id : conn'[c].closed = conn[c].closed
  BY <1>1, <1>2, <1>3, ConnectionTyped DEF ReadCompletes, Post, Connection
<1>4. ASSUME NEW result, WriteCompletes(d, result) PROVE \A c \in Id : conn'[c].closed = conn[c].closed
  BY <1>1, <1>2, <1>4, ConnectionTyped DEF WriteCompletes, Post, Connection
<1>5. conn[d] \in Connection
  BY <1>1, ConnectionTyped
<1>6. CASE HandleHeader(d)
  BY <1>2, <1>5, <1>6 DEF HandleHeader, Rest, Connection
<1>7. CASE HandleFrame(d)
  BY <1>2, <1>5, <1>7 DEF HandleFrame, WriteNext, Rest, Connection
<1>8. CASE HandleWritten(d)
  BY <1>2, <1>5, <1>8 DEF HandleWritten, WriteNext, Rest, Connection
<1>9. ASSUME NEW windowOver, HandleBody(d, windowOver) PROVE \A c \in Id : conn'[c].closed = conn[c].closed
  BY <1>2, <1>5, <1>9 DEF HandleBody, Rest, Connection
<1> QED
  BY <1>3, <1>4, <1>6, <1>7, <1>8, <1>9

\* ClosedAreForgotten, for one connection.
Accounted(c) ==
    /\ c \in Opened => c \in table \/ conn[c].closed \/ Count(conn[c].jobs, JobsOf({"close"})) > 0
    /\ told[c] + Count(gateway, Forgets(c)) = IF conn[c].closed THEN 1 ELSE 0
    /\ told[c] > 0 => c \notin table

LEMMA ForgetStep ==
    ASSUME Inv, [Next]_vars
    PROVE  ClosedAreForgotten'
<1> SUFFICES ASSUME NEW c \in Id PROVE Accounted(c)'
  BY DEF ClosedAreForgotten, Accounted
<1> PICK a, b, f, g : /\ a = Count(conn[c].jobs, JobsOf({"close"}))
                      /\ b = Count(conn'[c].jobs, JobsOf({"close"}))
                      /\ f = Count(gateway, Forgets(c)) /\ g = Count(gateway', Forgets(c))
  OBVIOUS
<1>1. /\ TypeOK /\ f \in Nat /\ a \in Nat /\ b \in Nat /\ told[c] \in Nat /\ conn[c].closed \in BOOLEAN
      /\ conn[c].closed => conn'[c].closed
      /\ conn'[c].closed \/ b >= a
  BY GatewayTyped, ConnectionTyped, CloseWaits DEF Inv
<1>2. /\ c \in 1..(nextId - 1) => c \in table \/ conn[c].closed \/ a > 0
      /\ told[c] + f = IF conn[c].closed THEN 1 ELSE 0
      /\ told[c] > 0 => c \notin table
  BY DEF Inv, ClosedAreForgotten, Opened
<1>3. ASSUME /\ c \in 1..(nextId' - 1) => c \in table' \/ conn'[c].closed \/ b > 0
             /\ told'[c] + g = IF conn'[c].closed THEN 1 ELSE 0
             /\ told'[c] > 0 => c \notin table'
      PROVE  Accounted(c)'
  BY <1>3 DEF Accounted, Opened
<1>4. ASSUME conn'[c].closed = conn[c].closed, g = f, UNCHANGED <<told, table, nextId>>
      PROVE  Accounted(c)'
  BY <1>1, <1>2, <1>3, <1>4
<1>5. CASE Stop
  <2>1. /\ table' = {} /\ nextId' = nextId /\ told' = told
        /\ conn'[c] = IF c \in table THEN Post(conn[c], "close", 0) ELSE conn[c]
    BY <1>5 DEF Stop, history
  <2>2. g = f
    BY <1>1, <1>5, GatewayStopped
  <2>3. conn[c] \in Connection /\ [kind |-> "close", message |-> 0] \in Job
    BY <1>1, ConnectionTyped, JobTyped
  <2>4. CASE c \in table
    <3>1. conn'[c].closed = conn[c].closed
          /\ conn'[c].jobs = Append(conn[c].jobs, [kind |-> "close", message |-> 0])
      BY <2>1, <2>3, <2>4, PostTyped
    <3>2. Posted(c, "close", 0) /\ ConnectionsMove
      BY <2>3, <3>1, ConnectionEffect DEF Posted
    <3>3. b = a + 1
      BY <1>1, <3>2, JobsMove
    <3> QED
      BY <1>1, <1>2, <1>3, <2>1, <2>2, <3>1, <3>3
  <2>5. CASE c \notin table
    BY <1>1, <1>2, <1>3, <2>1, <2>2, <2>5
  <2> QED
    BY <2>4, <2>5
<1>6. CASE HandleAccepted
  <2>1. /\ table' = table \cup {nextId} /\ nextId' = nextId + 1 /\ told' = told
        /\ conn' = [conn EXCEPT ![nextId].reading = "header"]
        /\ gateway # <<>> /\ gateway' = Tail(gateway) /\ Head(gateway).kind = "accepted"
    BY <1>6 DEF HandleAccepted, Turn, history
  <2>2. f = g
    BY <1>1, <2>1, GatewayTaken
  <2>3. nextId \in Nat /\ c \in Int /\ 1 <= c
    BY <1>1, ConstantsTyped DEF TypeOK, Id
  <2>4. conn'[c].closed = conn[c].closed
    BY <1>1, <2>1, ConnectionTyped DEF TypeOK, Connection
  <2>5. CASE c = nextId
    <3>1. conn[c].closed = FALSE
      BY <2>3, <2>5 DEF Inv, ConnectionInv, ConnectionsAreFresh, Fresh
    <3> QED
      BY <1>1, <1>2, <1>3, <2>1, <2>2, <2>4, <2>5, <3>1
  <2>6. CASE c # nextId
    <3>1. c \in 1..(nextId' - 1) => c \in 1..(nextId - 1)
      BY <2>1, <2>3, <2>6
    <3> QED
      BY <1>1, <1>2, <1>3, <2>1, <2>2, <2>4, <2>6, <3>1
  <2> QED
    BY <2>5, <2>6
<1>7. CASE HandleForget
  <2>1. /\ table' = table \ {Head(gateway).id} /\ nextId' = nextId /\ conn' = conn
        /\ told' = [told EXCEPT ![Head(gateway).id] = @ + 1]
        /\ gateway # <<>> /\ gateway' = Tail(gateway) /\ Head(gateway).kind = "forget"
    BY <1>7 DEF HandleForget, Turn
  <2>2. f = g + (IF Head(gateway).id = c THEN 1 ELSE 0) /\ g \in Nat
    BY <1>1, <2>1, GatewayTaken
  <2>3. told'[c] = told[c] + (IF Head(gateway).id = c THEN 1 ELSE 0)
    <3>1. told \in [Id -> Nat]
      BY <1>1 DEF TypeOK
    <3> QED
      BY <1>1, <2>1, <3>1
  <2>4. b = a
    BY <2>1
  <2>5. CASE Head(gateway).id = c
    <3>1. conn[c].closed
      BY <1>1, <1>2, <2>2, <2>5
    <3> QED
      BY <1>1, <1>2, <1>3, <2>1, <2>2, <2>3, <2>5, <3>1
  <2>6. CASE Head(gateway).id # c
    BY <1>1, <1>2, <1>3, <2>1, <2>2, <2>3, <2>4, <2>6
  <2> QED
    BY <2>5, <2>6
<1>8. ASSUME NEW d \in Id, CloseNow(d), UNCHANGED <<told, table, nextId>>,
             NEW kind, TurnOf(d, kind)
      PROVE  Accounted(c)'
  <2>1. PICK x : x = [Rest(d) EXCEPT !.closed = TRUE]
    OBVIOUS
  <2>2. x.closed = TRUE
    BY <1>1, <1>8, <2>1, RestTyped DEF Connection
  <2>3. conn' = [conn EXCEPT ![d] = x]
    BY <1>8, <2>1 DEF CloseNow
  <2>4. conn'[d].closed = TRUE /\ (c # d => conn'[c] = conn[c])
    BY <1>1, <2>2, <2>3 DEF TypeOK
  <2>5. PICK j : j = ForGateway("forget", d, 0)
    OBVIOUS
  <2>6. j \in GatewayJob /\ j.kind = "forget" /\ j.id = d
    BY <2>5, ForGatewayTyped DEF GatewayKinds
  <2>7. gateway' = IF conn[d].closed THEN gateway ELSE Append(gateway, j)
    BY <1>8, <2>5 DEF CloseNow
  <2>8. g = f + (IF ~conn[d].closed /\ d = c THEN 1 ELSE 0)
    <3>1. CASE conn[d].closed
      BY <1>1, <2>7, <3>1
    <3>2. CASE ~conn[d].closed
      BY <1>1, <2>6, <2>7, <3>2, GatewayPosted
    <3> QED
      BY <3>1, <3>2
  <2>9. CASE c = d
    <3>1. told'[c] = told[c] /\ table' = table /\ conn'[c].closed = TRUE
      BY <1>8, <2>4, <2>9
    <3>2. told[c] + g = 1
      <4>1. CASE conn[c].closed
        <5>1. told[c] + f = 1 /\ g = f
          BY <1>2, <2>8, <2>9, <4>1
        <5> QED
          BY <5>1
      <4>2. CASE ~conn[c].closed
        <5>1. told[c] + f = 0 /\ g = f + 1
          BY <1>2, <2>8, <2>9, <4>2
        <5> QED
          BY <1>1, <5>1
      <4> QED
        BY <4>1, <4>2
    <3> QED
      BY <1>2, <1>3, <3>1, <3>2
  <2>10. CASE c # d
    BY <1>1, <1>4, <1>8, <2>4, <2>8, <2>10
  <2> QED
    BY <2>9, <2>10
<1>9. ASSUME NEW d \in Id, HandleFailure(d) \/ HandleHeaderTooLarge(d) \/ HandleBodyOverRate(d)
      PROVE  Accounted(c)'
  BY <1>8, <1>9 DEF HandleFailure, HandleHeaderTooLarge, HandleBodyOverRate, history
<1>10. ASSUME NEW d \in Id,
              \/ \E result : ReadCompletes(d, result) \/ WriteCompletes(d, result)
              \/ HandleHeader(d) \/ HandleFrame(d) \/ HandleWritten(d)
              \/ \E windowOver : HandleBody(d, windowOver)
       PROVE  Accounted(c)'
  <2>1. conn'[c].closed = conn[c].closed
    BY <1>10, OthersStayOpen
  <2>2. UNCHANGED <<told, table, nextId, gateway>>
    BY <1>10 DEF ReadCompletes, WriteCompletes, HandleHeader, HandleFrame, HandleWritten, HandleBody,
       history
  <2> QED
    BY <1>4, <2>1, <2>2
<1>11. CASE \/ Broadcast \/ \E d \in Id : Send(d)
            \/ \E result \in {"accepted", "acceptFailed"} : AcceptCompletes(result)
  <2>1. nextSend <= MaxSends => nextSend \in Message
    BY <1>1, ConstantsTyped DEF TypeOK, Message
  <2>2. PICK j \in GatewayJob : gateway' = Append(gateway, j) /\ j.kind # "forget"
    <3>1. CASE Broadcast \/ \E d \in Id : Send(d)
      BY <2>1, <3>1, ForGatewayTyped, SMTT(30) DEF Broadcast, Send, GatewayKinds
    <3>2. ASSUME NEW result \in {"accepted", "acceptFailed"}, AcceptCompletes(result)
          PROVE  \E j \in GatewayJob : gateway' = Append(gateway, j) /\ j.kind # "forget"
      <4>1. PICK j : j = ForGateway(result, 0, 0)
        OBVIOUS
      <4>2. j \in GatewayJob /\ j.kind = result
        BY <4>1, ForGatewayTyped DEF GatewayKinds
      <4> QED
        BY <3>2, <4>1, <4>2 DEF AcceptCompletes
    <3> QED
      BY <1>11, <3>1, <3>2
  <2>3. UNCHANGED <<told, table, nextId, conn>>
    BY <1>11 DEF Broadcast, Send, AcceptCompletes, history
  <2>4. g = f
    BY <1>1, <2>2, GatewayPosted
  <2> QED
    BY <1>4, <2>3, <2>4
<1>12. CASE HandleRefused \/ HandleSend
  <2>1. /\ gateway # <<>> /\ gateway' = Tail(gateway) /\ Head(gateway).kind # "forget"
        /\ UNCHANGED <<told, table, nextId>>
    BY <1>12 DEF HandleRefused, HandleSend, Turn, history
  <2>2. g = f
    BY <1>1, <2>1, GatewayTaken
  <2>3. conn'[c].closed = conn[c].closed
    <3>1. CASE HandleRefused
      BY <3>1 DEF HandleRefused
    <3>2. CASE HandleSend
      <4>1. PICK m : conn'[c] \in {Post(conn[c], "send", m), conn[c]}
        BY <3>2 DEF HandleSend
      <4>2. Post(conn[c], "send", m).closed = conn[c].closed
        BY <1>1, ConnectionTyped DEF Post, Connection
      <4> QED
        BY <4>1, <4>2
    <3> QED
      BY <1>12, <3>1, <3>2
  <2> QED
    BY <1>4, <2>1, <2>2, <2>3
<1>13. CASE Start \/ UNCHANGED vars
  BY <1>4, <1>13 DEF Start, vars, history
<1> QED
  BY <1>5, <1>6, <1>7, <1>9, <1>10, <1>11, <1>12, <1>13 DEF Next

------------------------------------------------------------------------------
(* The order of the messages on the gateway's strand *)

\* The sends that a step leaves on the gateway's strand were there before, in the same order...
OldSends ==
    /\ nextSend' = nextSend
    /\ \E k \in {0, 1} : \A i \in 1..Len(gateway') : gateway'[i].kind \in Sends =>
            i + k \in 1..Len(gateway) /\ gateway'[i] = gateway[i + k]

\* ... or it adds one message, the next.
NewSend ==
    /\ nextSend' = nextSend + 1
    /\ \E j \in GatewayJob : j.message = nextSend /\ gateway' = Append(gateway, j)

LEMMA SendsMove ==
    ASSUME Inv, [Next]_vars
    PROVE  OldSends \/ NewSend
<1>1. TypeOK /\ gateway \in Seq(GatewayJob) /\ Len(gateway) \in Nat
  BY GatewayTyped DEF Inv
<1>2. ASSUME UNCHANGED <<gateway, nextSend>> PROVE OldSends
  <2>1. \A i \in 1..Len(gateway') : i + 0 \in 1..Len(gateway) /\ gateway'[i] = gateway[i + 0]
    BY <1>1, <1>2
  <2> QED
    BY <1>2, <2>1 DEF OldSends
<1>3. ASSUME NEW j \in GatewayJob, gateway' = Append(gateway, j), j.kind \notin Sends,
             nextSend' = nextSend
      PROVE  OldSends
  <2>1. /\ Len(gateway') = Len(gateway) + 1 /\ gateway'[Len(gateway) + 1] = j
        /\ \A i \in 1..Len(gateway) : gateway'[i] = gateway[i]
    BY <1>1, <1>3, AppendProperties
  <2>2. \A i \in 1..Len(gateway') : gateway'[i].kind \in Sends =>
            i + 0 \in 1..Len(gateway) /\ gateway'[i] = gateway[i + 0]
    BY <1>1, <1>3, <2>1
  <2> QED
    BY <1>3, <2>2 DEF OldSends
<1>4. ASSUME gateway # <<>>, gateway' = Tail(gateway), nextSend' = nextSend PROVE OldSends
  <2>1. /\ Len(gateway') = Len(gateway) - 1
        /\ \A i \in 1..Len(gateway') : gateway'[i] = gateway[i + 1]
    BY <1>1, <1>4, HeadTailProperties
  <2>2. \A i \in 1..Len(gateway') : i + 1 \in 1..Len(gateway) /\ gateway'[i] = gateway[i + 1]
    BY <1>1, <2>1
  <2> QED
    BY <1>4, <2>2 DEF OldSends
<1>5. CASE Stop
  <2>1. /\ Len(gateway') = Len(gateway) + accepting /\ accepting \in Nat
        /\ \A i \in 1..Len(gateway) : gateway'[i] = gateway[i]
        /\ \A i \in 1..Len(gateway') : i > Len(gateway) => gateway'[i].kind = "acceptFailed"
        /\ nextSend' = nextSend
    <3>1. accepting \in Nat
      BY <1>1, ConstantsTyped DEF TypeOK
    <3>2. nextSend' = nextSend
      BY <1>5 DEF Stop
    <3> QED
      BY <1>1, <1>5, <3>1, <3>2, GatewayStopped
  <2>2. \A i \in 1..Len(gateway') : gateway'[i].kind \in Sends =>
            i + 0 \in 1..Len(gateway) /\ gateway'[i] = gateway[i + 0]
    BY <1>1, <2>1 DEF Sends
  <2> QED
    BY <2>1, <2>2 DEF OldSends
<1>6. CASE Broadcast \/ \E c \in Id : Send(c)
  <2>1. nextSend <= MaxSends => nextSend \in Message
    BY <1>1, ConstantsTyped DEF TypeOK, Message
  <2>2. /\ \E j \in GatewayJob : gateway' = Append(gateway, j) /\ j.message = nextSend
        /\ nextSend' = nextSend + 1
    BY <1>6, <2>1, ForGatewayTyped DEF Broadcast, Send, GatewayKinds
  <2> QED
    BY <2>2 DEF NewSend
<1>7. ASSUME NEW result \in {"accepted", "acceptFailed"}, AcceptCompletes(result) PROVE OldSends
  <2>1. PICK j : j = ForGateway(result, 0, 0)
    OBVIOUS
  <2>2. j \in GatewayJob /\ j.kind = result
    BY <2>1, ForGatewayTyped DEF GatewayKinds
  <2> QED
    BY <1>3, <1>7, <2>1, <2>2 DEF AcceptCompletes, Sends
<1>8. CASE HandleAccepted \/ HandleRefused \/ HandleSend \/ HandleForget
  BY <1>4, <1>8 DEF HandleAccepted, HandleRefused, HandleSend, HandleForget, Turn
<1>9. ASSUME NEW c \in Id, CloseNow(c), nextSend' = nextSend PROVE OldSends
  <2>1. PICK j : j = ForGateway("forget", c, 0)
    OBVIOUS
  <2>2. j \in GatewayJob /\ j.kind = "forget"
    BY <2>1, ForGatewayTyped DEF GatewayKinds
  <2> QED
    BY <1>2, <1>3, <1>9, <2>1, <2>2 DEF CloseNow, Sends
<1>10. ASSUME NEW c \in Id, HandleFailure(c) \/ HandleHeaderTooLarge(c) \/ HandleBodyOverRate(c)
       PROVE  OldSends
  BY <1>9, <1>10 DEF HandleFailure, HandleHeaderTooLarge, HandleBodyOverRate
<1> QED
  BY <1>2, <1>5, <1>6, <1>7, <1>8, <1>10 DEF Next, vars, Start, ReadCompletes, WriteCompletes,
     HandleHeader, HandleBody, HandleFrame, HandleWritten

LEMMA GatewayOrderStep ==
    ASSUME Inv, [Next]_vars
    PROVE  GatewayInOrder'
<1>1. /\ gateway \in Seq(GatewayJob) /\ Len(gateway) \in Nat /\ nextSend \in Nat /\ nextSend > 0
      /\ gateway' \in Seq(GatewayJob) /\ Len(gateway') \in Nat
      /\ \A i \in 1..Len(gateway) : gateway[i].message \in Int
  <2>1. TypeOK /\ gateway \in Seq(GatewayJob) /\ Len(gateway) \in Nat /\ nextSend \in Nat /\ nextSend > 0
    BY GatewayTyped, ConstantsTyped DEF Inv, TypeOK
  <2>2. \A i \in 1..Len(gateway) : gateway[i] \in GatewayJob
    BY <2>1, ElementOfSeq
  <2> QED
    BY <2>1, <2>2, AcceptsStep, LenProperties DEF AcceptsMove, GatewayJob, Message
<1>2. GatewayInOrder
  BY DEF Inv, OrderInv
<1>3. CASE OldSends
  <2>1. PICK k \in {0, 1} : \A i \in 1..Len(gateway') : gateway'[i].kind \in Sends =>
            i + k \in 1..Len(gateway) /\ gateway'[i] = gateway[i + k]
    BY <1>3 DEF OldSends
  <2> SUFFICES ASSUME NEW i \in 1..Len(gateway'), NEW j \in 1..Len(gateway'),
                      gateway'[i].kind \in Sends
               PROVE  /\ 0 < gateway'[i].message /\ gateway'[i].message < nextSend'
                      /\ gateway'[j].kind \in Sends /\ i < j => gateway'[i].message < gateway'[j].message
    BY DEF GatewayInOrder
  <2>2. i + k \in 1..Len(gateway) /\ gateway'[i] = gateway[i + k] /\ nextSend' = nextSend
    BY <1>3, <2>1 DEF OldSends
  <2>3. CASE gateway'[j].kind \in Sends /\ i < j
    <3>1. j + k \in 1..Len(gateway) /\ gateway'[j] = gateway[j + k] /\ i + k < j + k
      <4>1. j + k \in 1..Len(gateway) /\ gateway'[j] = gateway[j + k]
        BY <2>1, <2>3
      <4>2. i \in Int /\ j \in Int /\ k \in Int
        OBVIOUS
      <4> QED
        BY <2>3, <4>1, <4>2
    <3> QED
      BY <1>2, <2>2, <2>3, <3>1 DEF GatewayInOrder
  <2>4. CASE ~(gateway'[j].kind \in Sends /\ i < j)
    BY <1>2, <2>2, <2>4 DEF GatewayInOrder
  <2> QED
    BY <2>3, <2>4
<1>4. CASE NewSend
  <2>1. PICK m \in GatewayJob : m.message = nextSend /\ gateway' = Append(gateway, m)
    BY <1>4 DEF NewSend
  <2>2. /\ Len(gateway') = Len(gateway) + 1 /\ gateway'[Len(gateway) + 1] = m
        /\ \A i \in 1..Len(gateway) : gateway'[i] = gateway[i]
        /\ nextSend' = nextSend + 1
    BY <1>1, <1>4, <2>1, AppendProperties DEF NewSend
  <2> SUFFICES ASSUME NEW i \in 1..Len(gateway'), NEW j \in 1..Len(gateway'),
                      gateway'[i].kind \in Sends
               PROVE  /\ 0 < gateway'[i].message /\ gateway'[i].message < nextSend'
                      /\ gateway'[j].kind \in Sends /\ i < j => gateway'[i].message < gateway'[j].message
    BY DEF GatewayInOrder
  <2>3. CASE i \in 1..Len(gateway)
    <3>1. 0 < gateway[i].message /\ gateway[i].message < nextSend /\ gateway'[i] = gateway[i]
      BY <1>2, <2>2, <2>3 DEF GatewayInOrder
    <3>2. CASE j \in 1..Len(gateway)
      BY <1>1, <1>2, <2>2, <2>3, <3>1, <3>2 DEF GatewayInOrder
    <3>3. CASE j = Len(gateway) + 1
      BY <1>1, <2>1, <2>2, <2>3, <3>1, <3>3
    <3> QED
      BY <1>1, <2>2, <3>2, <3>3
  <2>4. CASE i = Len(gateway) + 1
    BY <1>1, <2>1, <2>2, <2>4
  <2> QED
    BY <1>1, <2>2, <2>3, <2>4
<1> QED
  BY <1>3, <1>4, SendsMove

\* What came as far as a connection stays older than all that did not.
LEMMA AheadStays ==
    ASSUME Inv, [Next]_vars, NEW m \in Int, Ahead(m)
    PROVE  Ahead(m)'
<1>1. /\ gateway \in Seq(GatewayJob) /\ Len(gateway) \in Nat /\ nextSend \in Nat
      /\ m < nextSend /\ m \notin Oversized
      /\ \A i \in 1..Len(gateway) : gateway[i].kind \in Sends => m < gateway[i].message
  BY GatewayTyped DEF Inv, TypeOK, Ahead
<1>2. CASE OldSends
  BY <1>1, <1>2 DEF Ahead, OldSends
<1>3. CASE NewSend
  <2>1. PICK j \in GatewayJob : j.message = nextSend /\ gateway' = Append(gateway, j)
    BY <1>3 DEF NewSend
  <2>2. /\ Len(gateway') = Len(gateway) + 1 /\ gateway'[Len(gateway) + 1] = j
        /\ \A i \in 1..Len(gateway) : gateway'[i] = gateway[i]
        /\ nextSend' = nextSend + 1
    BY <1>1, <1>3, <2>1, AppendProperties DEF NewSend
  <2>3. \A i \in 1..Len(gateway') : gateway'[i].kind \in Sends => m < gateway'[i].message
    BY <1>1, <2>1, <2>2
  <2>4. m < nextSend'
    BY <1>1, <2>2
  <2> QED
    BY <1>1, <2>3, <2>4 DEF Ahead
<1> QED
  BY <1>2, <1>3, SendsMove

\* The message that HandleSend takes is the oldest of those that have not come further.
LEMMA TakenIsAhead ==
    ASSUME Inv, [Next]_vars, gateway # <<>>, gateway' = Tail(gateway),
           Head(gateway).kind \in Sends, NEW m, m = Head(gateway).message, m \notin Oversized
    PROVE  /\ m \in Int /\ 0 < m /\ Ahead(m)'
           /\ \A n \in Int : Ahead(n) => n < m
<1>1. /\ gateway \in Seq(GatewayJob) /\ Len(gateway) \in Nat /\ nextSend \in Nat
      /\ Head(gateway) \in GatewayJob /\ Head(gateway) = gateway[1] /\ 1 \in 1..Len(gateway)
      /\ Len(gateway') = Len(gateway) - 1
      /\ \A i \in 1..Len(gateway') : gateway'[i] = gateway[i + 1]
  BY GatewayTyped, HeadTailProperties, EmptySeq DEF Inv, TypeOK
<1>2. m \in Int /\ 0 < m /\ m < nextSend
  <2>1. 0 < m /\ m < nextSend
    BY <1>1 DEF Inv, OrderInv, GatewayInOrder
  <2>2. m \in Int
    BY <1>1 DEF GatewayJob, Message
  <2> QED
    BY <2>1, <2>2
<1>3. m < nextSend'
  <2>1. nextSend' = nextSend \/ nextSend' = nextSend + 1
    BY SendsMove DEF OldSends, NewSend
  <2> QED
    BY <1>1, <1>2, <2>1
<1>4. ASSUME NEW i \in 1..Len(gateway'), gateway'[i].kind \in Sends
      PROVE  m < gateway'[i].message
  <2>1. i + 1 \in 1..Len(gateway) /\ 1 < i + 1 /\ gateway'[i] = gateway[i + 1]
    BY <1>1
  <2> QED
    BY <1>1, <1>4, <2>1 DEF Inv, OrderInv, GatewayInOrder
<1>5. ASSUME NEW n \in Int, Ahead(n) PROVE n < m
  BY <1>1, <1>5 DEF Ahead
<1> QED
  BY <1>2, <1>3, <1>4, <1>5 DEF Ahead

------------------------------------------------------------------------------
(* The order of the messages on a connection's strand *)

\* The sends that a step leaves on the strand of c were there before, in the same order...
OldJobs(c) ==
    \E k \in {0, 1} : \A i \in 1..Len(conn'[c].jobs) : conn'[c].jobs[i].kind = "send" =>
        i + k \in 1..Len(conn[c].jobs) /\ conn'[c].jobs[i] = conn[c].jobs[i + k]

\* ... or it adds the one that the gateway has just taken.
NewJob(c) ==
    /\ gateway # <<>> /\ gateway' = Tail(gateway)
    /\ Head(gateway).kind \in Sends /\ Head(gateway).message \notin Oversized
    /\ Posted(c, "send", Head(gateway).message)

LEMMA JobsShift ==
    ASSUME Inv, [Next]_vars, NEW c \in Id
    PROVE  OldJobs(c) \/ (NewJob(c) /\ OnlyJobs(c) /\ UNCHANGED wire[c])
<1>1. /\ TypeOK /\ ConnectionsMove /\ ConnectionSteps(c)
      /\ conn[c].jobs \in Seq(Job) /\ conn'[c].jobs \in Seq(Job) /\ Len(conn[c].jobs) \in Nat
  BY ConnectionEffect, JobsMove, LenProperties DEF Inv, ConnectionsMove
<1>2. ASSUME conn'[c].jobs = conn[c].jobs PROVE OldJobs(c)
  <2>1. \A i \in 1..Len(conn'[c].jobs) :
            i + 0 \in 1..Len(conn[c].jobs) /\ conn'[c].jobs[i] = conn[c].jobs[i + 0]
    BY <1>1, <1>2
  <2> QED
    BY <2>1 DEF OldJobs
<1>3. ASSUME NEW kind, NEW m, Posted(c, kind, m), kind # "send" PROVE OldJobs(c)
  <2>1. PICK j \in Job : j = [kind |-> kind, message |-> m]
    BY <1>3 DEF Posted
  <2>2. /\ conn'[c].jobs = Append(conn[c].jobs, j) /\ j.kind # "send"
    BY <1>3, <2>1 DEF Posted
  <2>3. /\ Len(conn'[c].jobs) = Len(conn[c].jobs) + 1 /\ conn'[c].jobs[Len(conn[c].jobs) + 1] = j
        /\ \A i \in 1..Len(conn[c].jobs) : conn'[c].jobs[i] = conn[c].jobs[i]
    BY <1>1, <2>2, AppendProperties
  <2>4. \A i \in 1..Len(conn'[c].jobs) : conn'[c].jobs[i].kind = "send" =>
            i + 0 \in 1..Len(conn[c].jobs) /\ conn'[c].jobs[i] = conn[c].jobs[i + 0]
    BY <1>1, <2>2, <2>3
  <2> QED
    BY <2>4 DEF OldJobs
<1>4. ASSUME NEW kind, Taken(c, kind) PROVE OldJobs(c)
  <2>1. conn[c].jobs # <<>> /\ conn'[c].jobs = Tail(conn[c].jobs)
    BY <1>4 DEF Taken
  <2>2. /\ Len(conn'[c].jobs) = Len(conn[c].jobs) - 1
        /\ \A i \in 1..Len(conn'[c].jobs) : conn'[c].jobs[i] = conn[c].jobs[i + 1]
    BY <1>1, <2>1, HeadTailProperties
  <2>3. \A i \in 1..Len(conn'[c].jobs) :
            i + 1 \in 1..Len(conn[c].jobs) /\ conn'[c].jobs[i] = conn[c].jobs[i + 1]
    BY <1>1, <2>2
  <2> QED
    BY <2>3 DEF OldJobs
<1>5. CASE Untouched(c) \/ IsOpened(c)
  BY <1>2, <1>5 DEF Untouched, IsOpened
<1>6. CASE IsPosted(c)
  BY <1>3, <1>6 DEF IsPosted, NewJob, Sends
<1>7. CASE ReadIsDone(c)
  <2>1. conn[c].reading # "send"
    BY <1>1, ConnectionTyped
  <2> QED
    BY <1>3, <1>7, <2>1 DEF ReadIsDone
<1>8. CASE WriteIsDone(c)
  BY <1>3, <1>8 DEF WriteIsDone
<1>9. CASE IsClosed(c) \/ HeaderIsRead(c) \/ BodyIsRead(c) \/ FrameIsQueued(c) \/ FrameIsDone(c)
  BY <1>4, <1>9 DEF IsClosed, HeaderIsRead, BodyIsRead, FrameIsQueued, FrameIsDone
<1> QED
  BY <1>1, <1>5, <1>6, <1>7, <1>8, <1>9 DEF ConnectionSteps

LEMMA JobsAre ==
    ASSUME TypeOK, NEW c \in Id
    PROVE  /\ Len(conn[c].jobs) \in Nat /\ conn[c].jobs \in Seq(Job)
           /\ \A i \in 1..Len(conn[c].jobs) : conn[c].jobs[i] \in Job /\ conn[c].jobs[i].message \in Int
<1>1. conn[c].jobs \in Seq(Job)
  BY ConnectionTyped
<1>2. Len(conn[c].jobs) \in Nat
  BY <1>1, LenProperties
<1>3. \A i \in 1..Len(conn[c].jobs) : conn[c].jobs[i] \in Job
  BY <1>1, ElementOfSeq
<1>4. \A j \in Job : j.message \in Int
  BY DEF Job, Message
<1> QED
  BY <1>1, <1>2, <1>3, <1>4

LEMMA JobsOrderStep ==
    ASSUME Inv, [Next]_vars
    PROVE  JobsInOrder'
<1> SUFFICES ASSUME NEW c \in Id,
                    NEW i \in 1..Len(conn'[c].jobs), NEW j \in 1..Len(conn'[c].jobs),
                    conn'[c].jobs[i].kind = "send"
             PROVE  /\ 0 < conn'[c].jobs[i].message /\ Ahead(conn[c].jobs[i].message)'
                    /\ conn'[c].jobs[j].kind = "send" /\ i < j =>
                            conn'[c].jobs[i].message < conn'[c].jobs[j].message
  BY DEF JobsInOrder
<1>1. /\ TypeOK /\ JobsInOrder /\ Len(conn[c].jobs) \in Nat /\ conn[c].jobs \in Seq(Job)
      /\ \A n \in 1..Len(conn[c].jobs) : conn[c].jobs[n].message \in Int
  BY JobsAre DEF Inv, OrderInv
<1>2. PICK m : m = conn'[c].jobs[i].message
  OBVIOUS
<1>3. SUFFICES /\ 0 < m /\ Ahead(m)'
               /\ conn'[c].jobs[j].kind = "send" /\ i < j => m < conn'[c].jobs[j].message
  <2>1. ASSUME Ahead(m)' PROVE Ahead(conn[c].jobs[i].message)'
    BY <1>2, <2>1 DEF Ahead
  <2> QED
    BY <1>2, <1>3, <2>1
<1>4. ASSUME NEW n \in 1..Len(conn[c].jobs), conn[c].jobs[n].kind = "send", m = conn[c].jobs[n].message
      PROVE  0 < m /\ m \in Int /\ Ahead(m) /\ Ahead(m)'
  <2>1. 0 < m /\ m \in Int /\ Ahead(m)
    BY <1>1, <1>4 DEF JobsInOrder
  <2> QED
    BY <2>1, AheadStays
<1>5. CASE OldJobs(c)
  <2>1. PICK k \in {0, 1} : \A n \in 1..Len(conn'[c].jobs) : conn'[c].jobs[n].kind = "send" =>
            n + k \in 1..Len(conn[c].jobs) /\ conn'[c].jobs[n] = conn[c].jobs[n + k]
    BY <1>5 DEF OldJobs
  <2>2. i + k \in 1..Len(conn[c].jobs) /\ conn'[c].jobs[i] = conn[c].jobs[i + k]
    BY <2>1
  <2>3. ASSUME conn'[c].jobs[j].kind = "send", i < j PROVE m < conn'[c].jobs[j].message
    <3>1. j + k \in 1..Len(conn[c].jobs) /\ conn'[c].jobs[j] = conn[c].jobs[j + k]
      BY <2>1, <2>3
    <3>2. i \in Int /\ j \in Int /\ k \in Int
      OBVIOUS
    <3>3. i + k < j + k
      BY <2>3, <3>2
    <3> QED
      BY <1>1, <1>2, <2>2, <2>3, <3>1, <3>3 DEF JobsInOrder
  <2> QED
    BY <1>2, <1>4, <2>2, <2>3
<1>6. CASE NewJob(c)
  <2>1. PICK h : h = Head(gateway).message
    OBVIOUS
  <2>2. /\ h \in Int /\ 0 < h /\ Ahead(h)'
        /\ \A n \in Int : Ahead(n) => n < h
    BY <1>6, <2>1, TakenIsAhead DEF NewJob
  <2>3. PICK x \in Job : x.message = h /\ x.kind = "send" /\ conn'[c].jobs = Append(conn[c].jobs, x)
    BY <1>6, <2>1 DEF NewJob, Posted
  <2>4. /\ Len(conn'[c].jobs) = Len(conn[c].jobs) + 1 /\ conn'[c].jobs[Len(conn[c].jobs) + 1] = x
        /\ \A n \in 1..Len(conn[c].jobs) : conn'[c].jobs[n] = conn[c].jobs[n]
    BY <1>1, <2>3, AppendProperties
  <2>5. CASE i \in 1..Len(conn[c].jobs)
    <3>1. 0 < m /\ m \in Int /\ Ahead(m) /\ Ahead(m)' /\ conn'[c].jobs[i] = conn[c].jobs[i]
      BY <1>2, <1>4, <2>4, <2>5
    <3>2. CASE j \in 1..Len(conn[c].jobs)
      BY <1>1, <1>2, <2>4, <2>5, <3>1, <3>2 DEF JobsInOrder
    <3>3. CASE j = Len(conn[c].jobs) + 1
      BY <2>2, <2>3, <2>4, <3>1, <3>3
    <3> QED
      BY <1>1, <2>4, <3>2, <3>3, SMTT(30)
  <2>6. CASE i = Len(conn[c].jobs) + 1
    BY <1>1, <1>2, <2>2, <2>3, <2>4, <2>6
  <2> QED
    BY <1>1, <2>4, <2>5, <2>6, SMTT(30)
<1> QED
  BY <1>5, <1>6, JobsShift

\* What came as far as the queue of c stays older than all that did not.
LEMMA QueuedStays ==
    ASSUME Inv, [Next]_vars, NEW c \in Id, NEW m \in Int, Queued(c, m)
    PROVE  Queued(c, m)'
<1>1. /\ TypeOK /\ Len(conn[c].jobs) \in Nat /\ conn[c].jobs \in Seq(Job) /\ Ahead(m) /\ Ahead(m)'
      /\ \A i \in 1..Len(conn[c].jobs) : conn[c].jobs[i].kind = "send" => m < conn[c].jobs[i].message
  BY JobsAre, AheadStays DEF Inv, Queued
<1> SUFFICES ASSUME NEW i \in 1..Len(conn'[c].jobs), conn'[c].jobs[i].kind = "send"
             PROVE  m < conn'[c].jobs[i].message
  BY <1>1 DEF Queued
<1>2. CASE OldJobs(c)
  BY <1>1, <1>2 DEF OldJobs
<1>3. CASE NewJob(c)
  <2>1. PICK h : h = Head(gateway).message
    OBVIOUS
  <2>2. m < h
    BY <1>1, <1>3, <2>1, TakenIsAhead DEF NewJob
  <2>3. PICK x \in Job : x.message = h /\ conn'[c].jobs = Append(conn[c].jobs, x)
    BY <1>3, <2>1 DEF NewJob, Posted
  <2>4. /\ Len(conn'[c].jobs) = Len(conn[c].jobs) + 1 /\ conn'[c].jobs[Len(conn[c].jobs) + 1] = x
        /\ \A n \in 1..Len(conn[c].jobs) : conn'[c].jobs[n] = conn[c].jobs[n]
    BY <1>1, <2>3, AppendProperties
  <2> QED
    BY <1>1, <2>2, <2>3, <2>4
<1> QED
  BY <1>2, <1>3, JobsShift

\* The message that the handler of send() takes is younger than those of the queue, and older
\* than the rest.
LEMMA TakenIsQueued ==
    ASSUME Inv, [Next]_vars, NEW c \in Id, FrameIsQueued(c), NEW m, m = Head(conn[c].jobs).message
    PROVE  /\ m \in Int /\ Queued(c, m)' /\ m \in Message
           /\ \A n \in Int : Queued(c, n) => n < m
<1>1. /\ TypeOK /\ Len(conn[c].jobs) \in Nat /\ conn[c].jobs \in Seq(Job)
      /\ \A i \in 1..Len(conn[c].jobs) : conn[c].jobs[i] \in Job /\ conn[c].jobs[i].message \in Int
      /\ JobsInOrder
  BY JobsAre DEF Inv, OrderInv
<1>2. /\ conn[c].jobs # <<>> /\ conn'[c].jobs = Tail(conn[c].jobs) /\ Head(conn[c].jobs).kind = "send"
  BY DEF FrameIsQueued, Taken
<1>3. /\ Head(conn[c].jobs) = conn[c].jobs[1] /\ 1 \in 1..Len(conn[c].jobs)
      /\ Len(conn'[c].jobs) = Len(conn[c].jobs) - 1
      /\ \A i \in 1..Len(conn'[c].jobs) : conn'[c].jobs[i] = conn[c].jobs[i + 1]
  BY <1>1, <1>2, HeadTailProperties, EmptySeq
<1>4. m \in Int /\ Ahead(m) /\ 0 < m
  BY <1>1, <1>2, <1>3 DEF JobsInOrder
<1>5. m \in Message
  BY <1>1, <1>3, <1>4 DEF Job
<1>6. Ahead(m)'
  BY <1>4, AheadStays
<1>7. ASSUME NEW i \in 1..Len(conn'[c].jobs), conn'[c].jobs[i].kind = "send"
      PROVE  m < conn'[c].jobs[i].message
  <2>1. i + 1 \in 1..Len(conn[c].jobs) /\ 1 < i + 1 /\ conn'[c].jobs[i] = conn[c].jobs[i + 1]
    BY <1>1, <1>3
  <2> QED
    BY <1>1, <1>2, <1>3, <1>7, <2>1 DEF JobsInOrder
<1>8. ASSUME NEW n \in Int, Queued(c, n) PROVE n < m
  BY <1>2, <1>3, <1>8 DEF Queued
<1> QED
  BY <1>4, <1>5, <1>6, <1>7, <1>8 DEF Queued

LEMMA OutIs ==
    ASSUME TypeOK, ConnectionsMove, NEW c \in Id
    PROVE  /\ conn[c].out \in Seq(Message) /\ Len(conn[c].out) \in Nat
           /\ conn'[c].out \in Seq(Message) /\ Len(conn'[c].out) \in Nat
           /\ \A i \in 1..Len(conn[c].out) : conn[c].out[i] \in Message /\ conn[c].out[i] \in Int
<1>1. conn[c].out \in Seq(Message) /\ conn'[c].out \in Seq(Message)
  BY ConnectionTyped DEF ConnectionsMove, Connection
<1>2. \A m \in Message : m \in Int
  BY DEF Message
<1>3. \A i \in 1..Len(conn[c].out) : conn[c].out[i] \in Message
  BY <1>1, ElementOfSeq
<1> QED
  BY <1>1, <1>2, <1>3, LenProperties

\* The queue of c keeps its order and loses its head, or gets a frame behind the others.
LEMMA OutMoves ==
    ASSUME Inv, [Next]_vars, NEW c \in Id
    PROVE  \/ conn'[c].out = conn[c].out /\ ~FrameIsQueued(c) /\ ~FrameIsDone(c)
           \/ FrameIsQueued(c)
           \/ FrameIsDone(c) /\ conn[c].out # <<>>
<1>1. TypeOK /\ ConnectionsMove /\ ConnectionSteps(c)
  BY ConnectionEffect DEF Inv, ConnectionsMove
<1>2. ASSUME FrameIsDone(c) PROVE conn[c].out # <<>>
  <2>1. Count(conn[c].jobs, JobsOf({"written", "writeFailed"})) >= 1
    <3>1. /\ Count(conn'[c].jobs, JobsOf({"written", "writeFailed"})) \in Nat
          /\ Count(conn[c].jobs, JobsOf({"written", "writeFailed"}))
                = Count(conn'[c].jobs, JobsOf({"written", "writeFailed"})) + 1
      BY <1>1, <1>2, JobsMove DEF FrameIsDone
    <3> QED
      BY <3>1
  <2>2. Len(conn[c].writing) \in Nat
    BY <1>1, ConnectionTyped, LenProperties
  <2>3. Count(conn[c].jobs, JobsOf({"written", "writeFailed"})) \in Nat
    BY <1>1, JobsMove
  <2>4. Writes(c) >= 1
    BY <2>1, <2>2, <2>3 DEF Writes
  <2> QED
    BY <2>4 DEF Inv, ConnectionInv, OneWriteEach
<1> QED
  BY <1>1, <1>2 DEF ConnectionSteps, Untouched, IsPosted, OnlyJobs, IsOpened, ReadIsDone, WriteIsDone,
     IsClosed, HeaderIsRead, BodyIsRead

LEMMA QueuesOrderStep ==
    ASSUME Inv, [Next]_vars
    PROVE  QueuesInOrder'
<1> SUFFICES ASSUME NEW c \in Id,
                    NEW i \in 1..Len(conn'[c].out), NEW j \in 1..Len(conn'[c].out)
             PROVE  /\ Queued(c, conn[c].out[i])'
                    /\ i < j => conn'[c].out[i] < conn'[c].out[j]
  BY DEF QueuesInOrder
<1>1. /\ TypeOK /\ QueuesInOrder
      /\ conn[c].out \in Seq(Message) /\ Len(conn[c].out) \in Nat
      /\ \A n \in 1..Len(conn[c].out) : conn[c].out[n] \in Int
  BY ConnectionEffect, OutIs DEF Inv, OrderInv
<1>2. PICK m : m = conn'[c].out[i]
  OBVIOUS
<1>3. SUFFICES Queued(c, m)' /\ (i < j => m < conn'[c].out[j])
  <2>1. ASSUME Queued(c, m)' PROVE Queued(c, conn[c].out[i])'
    BY <1>2, <2>1 DEF Queued, Ahead
  <2> QED
    BY <1>2, <1>3, <2>1
<1>4. ASSUME NEW n \in 1..Len(conn[c].out), m = conn[c].out[n]
      PROVE  m \in Int /\ Queued(c, m) /\ Queued(c, m)'
  <2>1. m \in Int /\ Queued(c, m)
    BY <1>1, <1>4 DEF QueuesInOrder
  <2> QED
    BY <2>1, QueuedStays
<1>5. CASE conn'[c].out = conn[c].out
  BY <1>1, <1>2, <1>4, <1>5 DEF QueuesInOrder
<1>6. CASE FrameIsDone(c) /\ conn[c].out # <<>>
  <2>1. conn'[c].out = Tail(conn[c].out)
    BY <1>6 DEF FrameIsDone
  <2>2. /\ Len(conn'[c].out) = Len(conn[c].out) - 1
        /\ \A n \in 1..Len(conn'[c].out) : conn'[c].out[n] = conn[c].out[n + 1]
    BY <1>1, <1>6, <2>1, HeadTailProperties
  <2>3. i + 1 \in 1..Len(conn[c].out) /\ j + 1 \in 1..Len(conn[c].out)
        /\ (i < j => i + 1 < j + 1)
    BY <1>1, <2>2
  <2> QED
    BY <1>1, <1>2, <1>4, <2>2, <2>3 DEF QueuesInOrder
<1>7. CASE FrameIsQueued(c)
  <2>1. PICK h : h = Head(conn[c].jobs).message
    OBVIOUS
  <2>2. h \in Message /\ Queued(c, h)' /\ \A n \in Int : Queued(c, n) => n < h
    BY <1>7, <2>1, TakenIsQueued
  <2>3. conn'[c].out = Append(conn[c].out, h)
    BY <1>7, <2>1 DEF FrameIsQueued
  <2>4. /\ Len(conn'[c].out) = Len(conn[c].out) + 1 /\ conn'[c].out[Len(conn[c].out) + 1] = h
        /\ \A n \in 1..Len(conn[c].out) : conn'[c].out[n] = conn[c].out[n]
    BY <1>1, <2>2, <2>3, AppendProperties
  <2>5. CASE i \in 1..Len(conn[c].out)
    <3>1. m \in Int /\ Queued(c, m) /\ Queued(c, m)' /\ conn'[c].out[i] = conn[c].out[i]
      BY <1>2, <1>4, <2>4, <2>5
    <3>2. CASE j \in 1..Len(conn[c].out)
      BY <1>1, <1>2, <2>4, <2>5, <3>1, <3>2 DEF QueuesInOrder
    <3>3. CASE j = Len(conn[c].out) + 1
      BY <2>2, <2>4, <3>1, <3>3
    <3> QED
      BY <1>1, <2>4, <3>2, <3>3, SMTT(30)
  <2>6. CASE i = Len(conn[c].out) + 1
    <3>1. ~(i < j)
      BY <1>1, <2>4, <2>6
    <3> QED
      BY <1>2, <2>2, <2>4, <2>6, <3>1
  <2> QED
    BY <1>1, <2>4, <2>5, <2>6, SMTT(30)
<1> QED
  BY <1>5, <1>6, <1>7, OutMoves

------------------------------------------------------------------------------
(* The order of the frames on a socket *)

\* The frame that was written moves from the writes to the socket.
LEMMA HeadMoves ==
    ASSUME NEW S, NEW s \in Seq(S), NEW t \in Seq(S), t # <<>>
    PROVE  Append(s, Head(t)) \o Tail(t) = s \o t
<1>1. /\ Head(t) \in S /\ Tail(t) \in Seq(S) /\ Len(Tail(t)) = Len(t) - 1
      /\ Head(t) = t[1] /\ \A i \in 1..Len(Tail(t)) : Tail(t)[i] = t[i + 1]
      /\ Len(t) \in Nat /\ Len(s) \in Nat /\ Len(t) >= 1
  BY HeadTailProperties, EmptySeq, LenProperties
<1> PICK u, x : u = Tail(t) /\ x = Append(s, Head(t))
  OBVIOUS
<1>2. /\ x \in Seq(S) /\ Len(x) = Len(s) + 1 /\ x[Len(s) + 1] = t[1]
      /\ \A i \in 1..Len(s) : x[i] = s[i]
  BY <1>1, AppendProperties
<1> PICK l, r : l = x \o u /\ r = s \o t
  OBVIOUS
<1>3. /\ l \in Seq(S) /\ Len(l) = Len(x) + Len(u)
      /\ \A i \in 1..Len(x) + Len(u) : l[i] = IF i <= Len(x) THEN x[i] ELSE u[i - Len(x)]
  BY <1>1, <1>2, ConcatProperties
<1>4. /\ r \in Seq(S) /\ Len(r) = Len(s) + Len(t)
      /\ \A i \in 1..Len(s) + Len(t) : r[i] = IF i <= Len(s) THEN s[i] ELSE t[i - Len(s)]
  BY ConcatProperties
<1>5. Len(l) = Len(r)
  BY <1>1, <1>2, <1>3, <1>4
<1>6. ASSUME NEW i \in 1..Len(l) PROVE l[i] = r[i]
  <2>1. i \in 1..Len(x) + Len(u) /\ i \in 1..Len(s) + Len(t) /\ i \in Int
    BY <1>1, <1>2, <1>3, <1>4, <1>5
  <2>2. CASE i <= Len(s)
    BY <1>1, <1>2, <1>3, <1>4, <2>1, <2>2
  <2>3. CASE i = Len(s) + 1
    BY <1>1, <1>2, <1>3, <1>4, <2>1, <2>3
  <2>4. CASE i > Len(s) + 1
    <3>1. l[i] = u[i - Len(x)] /\ r[i] = t[i - Len(s)]
      BY <1>1, <1>2, <1>3, <1>4, <2>1, <2>4
    <3>2. i - Len(x) \in 1..Len(u) /\ (i - Len(x)) + 1 = i - Len(s)
      BY <1>1, <1>2, <2>1, <2>4
    <3> QED
      BY <1>1, <3>1, <3>2
  <2> QED
    BY <1>1, <2>1, <2>2, <2>3, <2>4
<1>7. l = r
  BY <1>3, <1>4, <1>5, <1>6, SeqEqual
<1> QED
  BY <1>7

LEMMA AppendMoves ==
    ASSUME NEW S, NEW s \in Seq(S), NEW t \in Seq(S), NEW e \in S
    PROVE  s \o Append(t, e) = Append(s \o t, e)
OBVIOUS

LEMMA NothingIsAdded ==
    ASSUME NEW S, NEW s \in Seq(S) PROVE s \o <<>> = s
BY ConcatEmptySeq

\* The frames of c, as a step leaves them.
FramesKept(c) == Frames(c)' = Frames(c)

FramesGrow(c) ==
    /\ conn'[c].out # <<>> /\ Frames(c)' = Append(Frames(c), Head(conn'[c].out))

LEMMA FramesAre ==
    ASSUME TypeOK, NEW c \in Id
    PROVE  /\ wire[c] \in Seq(Message) /\ conn[c].writing \in Seq(Message)
           /\ Frames(c) \in Seq(Message) /\ Len(Frames(c)) \in Nat
           /\ \A i \in 1..Len(Frames(c)) : Frames(c)[i] \in Int
<1>1. wire[c] \in Seq(Message) /\ conn[c].writing \in Seq(Message)
  BY ConnectionTyped
<1>2. Frames(c) \in Seq(Message)
  BY <1>1, ConcatProperties DEF Frames
<1>3. \A m \in Message : m \in Int
  BY DEF Message
<1>4. Len(Frames(c)) \in Nat /\ \A i \in 1..Len(Frames(c)) : Frames(c)[i] \in Message
  BY <1>2, LenProperties, ElementOfSeq
<1> QED
  BY <1>1, <1>2, <1>3, <1>4

\* A connection with nothing outstanding writes nothing.
LEMMA NothingWritten ==
    ASSUME Inv, NEW c \in Id,
           conn[c].out = <<>> \/ (conn[c].jobs # <<>> /\ Head(conn[c].jobs).kind = "written")
    PROVE  conn[c].writing = <<>>
<1> PICK a : a = Count(conn[c].jobs, JobsOf({"written", "writeFailed"}))
  OBVIOUS
<1>1. /\ TypeOK /\ conn[c].writing \in Seq(Message) /\ conn[c].jobs \in Seq(Job)
      /\ Len(conn[c].writing) \in Nat
      /\ a \in Nat
  BY ConnectionTyped, JobsTyped, LenProperties DEF Inv
<1>2. /\ conn[c].out = <<>> => Len(conn[c].writing) + a = 0
      /\ Len(conn[c].writing) + a <= 1
  BY DEF Inv, ConnectionInv, OneWriteEach, Writes
<1>3. CASE conn[c].jobs # <<>> /\ Head(conn[c].jobs).kind = "written"
  <2>1. a = Count(Tail(conn[c].jobs), JobsOf({"written", "writeFailed"})) + 1
    BY <1>1, <1>3, JobsTaken
  <2>2. Tail(conn[c].jobs) \in Seq(Job)
    BY <1>1, <1>3, HeadTailProperties
  <2>3. Count(Tail(conn[c].jobs), JobsOf({"written", "writeFailed"})) \in Nat
    BY <2>2, JobsTyped
  <2>4. Len(conn[c].writing) = 0
    BY <1>1, <1>2, <2>1, <2>3
  <2> QED
    BY <1>1, <2>4, EmptySeq
<1>4. CASE conn[c].out = <<>>
  <2>1. Len(conn[c].writing) = 0
    BY <1>1, <1>2, <1>4
  <2> QED
    BY <1>1, <2>1, EmptySeq
<1> QED
  BY <1>3, <1>4

LEMMA FramesMove ==
    ASSUME Inv, [Next]_vars, NEW c \in Id
    PROVE  \/ FramesKept(c)
           \/ conn'[c].out = conn[c].out /\ Frames(c)' = wire[c] /\ WriteIsDone(c)
           \/ FramesGrow(c) /\ FrameIsQueued(c) /\ conn[c].out = <<>>
           \/ FramesGrow(c) /\ FrameIsDone(c)
<1>1. /\ TypeOK /\ ConnectionsMove /\ ConnectionSteps(c)
      /\ wire[c] \in Seq(Message) /\ conn[c].writing \in Seq(Message)
      /\ conn'[c].out \in Seq(Message)
  BY ConnectionEffect, FramesAre, OutIs DEF Inv, ConnectionsMove
<1>2. ASSUME conn'[c].writing = conn[c].writing, wire'[c] = wire[c] PROVE FramesKept(c)
  BY <1>2 DEF FramesKept, Frames
<1>3. CASE WriteIsDone(c)
  <2>1. /\ conn[c].writing # <<>> /\ conn'[c].writing = Tail(conn[c].writing)
        /\ conn'[c].out = conn[c].out
        /\ wire'[c] = Append(wire[c], Head(conn[c].writing)) \/ wire'[c] = wire[c]
    BY <1>3 DEF WriteIsDone
  <2>2. CASE wire'[c] = Append(wire[c], Head(conn[c].writing))
    BY <1>1, <2>1, <2>2, HeadMoves DEF FramesKept, Frames
  <2>3. CASE wire'[c] = wire[c]
    <3>1. Len(conn[c].writing) = 1
      <4>1. PICK w, a : /\ w = Len(conn[c].writing)
                        /\ a = Count(conn[c].jobs, JobsOf({"written", "writeFailed"}))
        OBVIOUS
      <4>2. w \in Nat /\ w # 0 /\ a \in Nat
        BY <1>1, <2>1, <4>1, EmptySeq, LenProperties, JobsMove
      <4>3. w + a <= 1
        BY <4>1 DEF Inv, ConnectionInv, OneWriteEach, Writes
      <4>4. w = 1
        BY <4>2, <4>3
      <4> QED
        BY <4>1, <4>4
    <3>2. Tail(conn[c].writing) \in Seq(Message) /\ Len(Tail(conn[c].writing)) = 0
      BY <1>1, <2>1, <3>1, HeadTailProperties
    <3>3. Tail(conn[c].writing) = <<>>
      BY <3>2, EmptySeq
    <3>4. Frames(c)' = wire[c]
      BY <1>1, <2>1, <2>3, <3>3, NothingIsAdded DEF Frames
    <3> QED
      BY <1>3, <2>1, <3>4
  <2> QED
    BY <2>1, <2>2, <2>3
<1>4. ASSUME FrameIsQueued(c) \/ FrameIsDone(c), Written(c), conn[c].writing = <<>>, ~FramesKept(c)
      PROVE  FramesGrow(c)
  <2>1. wire'[c] = wire[c]
    BY <1>4 DEF FrameIsQueued, FrameIsDone
  <2>2. conn'[c].out # <<>> /\ conn'[c].writing = Append(conn[c].writing, Head(conn'[c].out))
    BY <1>2, <1>4, <2>1 DEF Written
  <2>3. PICK e, s, t : e = Head(conn'[c].out) /\ s = wire[c] /\ t = conn[c].writing
    OBVIOUS
  <2>4. e \in Message /\ s \in Seq(Message) /\ t \in Seq(Message)
    BY <1>1, <2>2, <2>3, HeadTailProperties
  <2>5. s \o Append(t, e) = Append(s \o t, e)
    BY <2>4, AppendMoves
  <2> QED
    BY <2>1, <2>2, <2>3, <2>5 DEF FramesGrow, Frames
<1>5. CASE FrameIsQueued(c)
  <2>1. CASE conn[c].out = <<>>
    <3>1. Written(c) /\ conn[c].writing = <<>>
      BY <1>5, <2>1, NothingWritten DEF FrameIsQueued
    <3> QED
      BY <1>4, <1>5, <2>1, <3>1
  <2>2. CASE conn[c].out # <<>>
    BY <1>2, <1>5, <2>2 DEF FrameIsQueued
  <2> QED
    BY <2>1, <2>2
<1>6. CASE FrameIsDone(c)
  <2>1. Written(c) /\ conn[c].writing = <<>>
    BY <1>6, NothingWritten DEF FrameIsDone, Taken
  <2> QED
    BY <1>4, <1>6, <2>1
<1> QED
  BY <1>1, <1>2, <1>3, <1>5, <1>6 DEF ConnectionSteps, Untouched, IsPosted, OnlyJobs, IsOpened,
     ReadIsDone, IsClosed, HeaderIsRead, BodyIsRead

\* The frames f are in order, and none is younger than one that waits in the queue q.
InStep(f, q) ==
    \A i \in 1..Len(f) :
        /\ \A j \in 1..Len(f) : i < j => f[i] < f[j]
        /\ \A j \in 1..Len(q) : f[i] < q[j] \/ (j = 1 /\ f[i] = q[j])

\* The head of the queue, once all frames are older than it, may follow them.
LEMMA HeadFollows ==
    ASSUME NEW f \in Seq(Message), NEW q \in Seq(Message), q # <<>>, InStep(f, q),
           \A i \in 1..Len(f), j \in 1..Len(q) : f[i] < q[j],
           \A i, j \in 1..Len(q) : i < j => q[i] < q[j]
    PROVE  InStep(Append(f, Head(q)), q)
<1>1. PICK g, h : g = Append(f, Head(q)) /\ h = Head(q)
  OBVIOUS
<1>2. h \in Message /\ h = q[1] /\ 1 \in 1..Len(q) /\ Len(q) \in Nat /\ Len(f) \in Nat
  BY <1>1, HeadTailProperties, EmptySeq, LenProperties
<1>3. /\ Len(g) = Len(f) + 1 /\ g[Len(f) + 1] = h
      /\ \A i \in 1..Len(f) : g[i] = f[i]
  BY <1>1, <1>2, AppendProperties
<1>4. ASSUME NEW i \in 1..Len(g)
      PROVE  /\ \A j \in 1..Len(g) : i < j => g[i] < g[j]
             /\ \A j \in 1..Len(q) : g[i] < q[j] \/ (j = 1 /\ g[i] = q[j])
  <2>1. CASE i \in 1..Len(f)
    BY <1>2, <1>3, <2>1 DEF InStep
  <2>2. CASE i = Len(f) + 1
    <3>1. \A j \in 1..Len(g) : ~(i < j)
      BY <1>2, <1>3, <2>2
    <3>2. ASSUME NEW j \in 1..Len(q) PROVE g[i] < q[j] \/ (j = 1 /\ g[i] = q[j])
      BY <1>2, <1>3, <2>2, <3>2
    <3> QED
      BY <3>1, <3>2
  <2> QED
    BY <1>2, <1>3, <2>1, <2>2
<1> QED
  BY <1>1, <1>4 DEF InStep

LEMMA FramesOrderStep ==
    ASSUME Inv, [Next]_vars
    PROVE  FramesAreInOrder'
<1>1. TypeOK /\ ConnectionsMove /\ FramesAreInOrder /\ QueuesInOrder /\ QueuesInOrder'
  BY ConnectionEffect, QueuesOrderStep DEF Inv, OrderInv
<1> SUFFICES ASSUME NEW c \in Id
             PROVE  /\ \A i \in 1..Len(Frames(c)') : Queued(c, Frames(c)[i])'
                    /\ InStep(Frames(c)', conn'[c].out)
  BY DEF FramesAreInOrder, InStep
<1>2. PICK f, g, p, q : f = Frames(c) /\ g = Frames(c)' /\ p = conn[c].out /\ q = conn'[c].out
  OBVIOUS
<1>3. /\ f \in Seq(Message) /\ Len(f) \in Nat
      /\ p \in Seq(Message) /\ Len(p) \in Nat /\ q \in Seq(Message) /\ Len(q) \in Nat
      /\ \A i \in 1..Len(f) : f[i] \in Int
      /\ \A i \in 1..Len(p) : p[i] \in Int
  BY <1>1, <1>2, FramesAre, OutIs
<1>4. InStep(f, p) /\ \A i \in 1..Len(f) : Queued(c, f[i])
  BY <1>1, <1>2 DEF FramesAreInOrder, InStep
<1>5. \A i \in 1..Len(f) : Queued(c, f[i])'
  <2> SUFFICES ASSUME NEW i \in 1..Len(f) PROVE Queued(c, f[i])'
    OBVIOUS
  <2>1. PICK m : m = f[i]
    OBVIOUS
  <2>2. Queued(c, m)'
    BY <1>3, <1>4, <2>1, QueuedStays
  <2> QED
    BY <2>1, <2>2
<1>6. SUFFICES (\A i \in 1..Len(g) : Queued(c, g[i])') /\ InStep(g, q)
  BY <1>2, <1>6 DEF Queued, Ahead
<1>7. \A i, j \in 1..Len(q) : i < j => q[i] < q[j]
  BY <1>1, <1>2 DEF QueuesInOrder
<1>8. \A i \in 1..Len(q) : Queued(c, q[i])'
  BY <1>1, <1>2 DEF QueuesInOrder, Queued, Ahead
<1>9. ASSUME FrameIsQueued(c)
      PROVE  InStep(f, q) /\ (p = <<>> => \A i \in 1..Len(f), j \in 1..Len(q) : f[i] < q[j])
  <2>1. PICK h : h = Head(conn[c].jobs).message
    OBVIOUS
  <2>2. h \in Message /\ \A n \in Int : Queued(c, n) => n < h
    BY <1>9, <2>1, TakenIsQueued
  <2>3. q = Append(p, h)
    BY <1>2, <1>9, <2>1 DEF FrameIsQueued
  <2>4. /\ Len(q) = Len(p) + 1 /\ q[Len(p) + 1] = h
        /\ \A n \in 1..Len(p) : q[n] = p[n]
    BY <1>3, <2>2, <2>3, AppendProperties
  <2>5. \A i \in 1..Len(f) : f[i] < h
    BY <1>3, <1>4, <2>2
  <2>6. ASSUME NEW i \in 1..Len(f), NEW j \in 1..Len(q)
        PROVE  f[i] < q[j] \/ (j = 1 /\ f[i] = q[j] /\ p # <<>>)
    <3>1. CASE j \in 1..Len(p)
      BY <1>3, <1>4, <2>4, <3>1, EmptySeq DEF InStep
    <3>2. CASE j = Len(p) + 1
      BY <2>4, <2>5, <3>2
    <3> QED
      BY <1>3, <2>4, <3>1, <3>2
  <2> QED
    BY <1>4, <2>6 DEF InStep
<1>10. ASSUME FrameIsDone(c), p # <<>>
       PROVE  InStep(f, q) /\ \A i \in 1..Len(f), j \in 1..Len(q) : f[i] < q[j]
  <2>1. q = Tail(p)
    BY <1>2, <1>10 DEF FrameIsDone
  <2>2. /\ Len(q) = Len(p) - 1
        /\ \A n \in 1..Len(q) : q[n] = p[n + 1]
    BY <1>3, <1>10, <2>1, HeadTailProperties
  <2>3. ASSUME NEW i \in 1..Len(f), NEW j \in 1..Len(q) PROVE f[i] < q[j]
    <3>1. j + 1 \in 1..Len(p) /\ j + 1 # 1 /\ q[j] = p[j + 1]
      BY <1>3, <2>2
    <3> QED
      BY <1>4, <3>1 DEF InStep
  <2> QED
    BY <1>4, <2>3 DEF InStep
<1>11. CASE FramesKept(c)
  <2>1. g = f
    BY <1>2, <1>11 DEF FramesKept
  <2>2. InStep(f, q)
    BY <1>2, <1>4, <1>9, <1>10, OutMoves
  <2> QED
    BY <1>5, <2>1, <2>2
<1>12. CASE conn'[c].out = conn[c].out /\ Frames(c)' = wire[c] /\ WriteIsDone(c)
  <2>1. PICK s, t : s = wire[c] /\ t = conn[c].writing
    OBVIOUS
  <2>2. s \in Seq(Message) /\ t \in Seq(Message) /\ Len(s) \in Nat /\ Len(t) \in Nat
    BY <1>1, <2>1, FramesAre, LenProperties
  <2>3. f = s \o t /\ g = s /\ q = p
    BY <1>2, <1>12, <2>1 DEF Frames
  <2>4. /\ Len(f) = Len(s) + Len(t)
        /\ \A i \in 1..Len(s) : f[i] = s[i]
    <3>1. /\ Len(f) = Len(s) + Len(t)
          /\ \A i \in 1..Len(s) + Len(t) : f[i] = IF i <= Len(s) THEN s[i] ELSE t[i - Len(s)]
      BY <2>2, <2>3, ConcatProperties
    <3> QED
      BY <2>2, <3>1
  <2>5. \A i \in 1..Len(s) : i \in 1..Len(f) /\ f[i] = s[i]
    BY <2>2, <2>4
  <2>6. InStep(s, p)
    BY <1>4, <2>5 DEF InStep
  <2>7. \A i \in 1..Len(s) : Queued(c, s[i])'
    BY <1>5, <2>5
  <2> QED
    BY <2>3, <2>6, <2>7
<1>13. CASE FramesGrow(c) /\ ((FrameIsQueued(c) /\ conn[c].out = <<>>) \/ FrameIsDone(c))
  <2>1. q # <<>> /\ g = Append(f, Head(q))
    BY <1>2, <1>13 DEF FramesGrow
  <2>2. InStep(f, q) /\ \A i \in 1..Len(f), j \in 1..Len(q) : f[i] < q[j]
    <3>1. CASE FrameIsQueued(c) /\ conn[c].out = <<>>
      BY <1>2, <1>9, <3>1
    <3>2. CASE FrameIsDone(c)
      <4>1. CASE p # <<>>
        BY <1>10, <3>2, <4>1
      <4>2. CASE p = <<>>
        BY <1>2, <1>9, <2>1, <4>2, OutMoves
      <4> QED
        BY <4>1, <4>2
    <3> QED
      BY <1>13, <3>1, <3>2
  <2>3. InStep(g, q)
    BY <1>3, <1>7, <2>1, <2>2, HeadFollows
  <2>4. Head(q) \in Message /\ Head(q) = q[1] /\ 1 \in 1..Len(q)
    BY <1>3, <2>1, HeadTailProperties, EmptySeq
  <2>5. /\ Len(g) = Len(f) + 1 /\ g[Len(f) + 1] = q[1]
        /\ \A i \in 1..Len(f) : g[i] = f[i]
    BY <1>3, <2>1, <2>4, AppendProperties
  <2>6. ASSUME NEW i \in 1..Len(g) PROVE Queued(c, g[i])'
    <3>1. CASE i \in 1..Len(f)
      BY <1>5, <2>5, <3>1
    <3>2. CASE i = Len(f) + 1
      BY <1>8, <2>4, <2>5, <3>2
    <3> QED
      BY <1>3, <2>5, <3>1, <3>2
  <2> QED
    BY <2>3, <2>6
<1> QED
  BY <1>11, <1>12, <1>13, FramesMove

------------------------------------------------------------------------------
(* The invariant *)

LEMMA InitInv == Init => Inv
<1> SUFFICES ASSUME Init PROVE Inv
  OBVIOUS
<1>1. /\ <<>> \in Seq(Message) /\ <<>> \in Seq(Job) /\ <<>> \in Seq(GatewayJob)
      /\ Len(<<>>) = 0
  BY EmptySeq
<1>2. Fresh \in Connection
  BY <1>1, ConstantsTyped DEF Fresh, Connection
<1>3. \A jobs : Count(<<>>, jobs) = 0
  BY CountNone
<1>4. /\ \A c \in Id : conn[c] = Fresh /\ told[c] = 0 /\ wire[c] = <<>> /\ late[c] = 0
      /\ gateway = <<>> /\ nextId = 1 /\ nextSend = 1 /\ table = {} /\ accepting = 0 /\ starts = 0
      /\ running = FALSE
  BY DEF Init
<1>5. TypeOK
  <2>1. Cardinality(table) = 0 /\ table \subseteq Opened
    BY <1>4, FS_EmptySet DEF Opened
  <2>2. conn \in [Id -> Connection] /\ told \in [Id -> Nat] /\ wire \in [Id -> Seq(Message)]
        /\ late \in [Id -> Nat]
    BY <1>1, <1>2 DEF Init
  <2>3. /\ running \in BOOLEAN /\ starts \in 0..MaxStarts /\ accepting \in 0..MaxStarts
        /\ nextId \in 1..(MaxIds + 1) /\ nextSend \in 1..(MaxSends + 1)
        /\ Cardinality(table) <= MaxConnections
    <3>1. /\ 0 \in 0..MaxStarts /\ 1 \in 1..(MaxIds + 1) /\ 1 \in 1..(MaxSends + 1)
          /\ 0 <= MaxConnections
      BY ConstantsTyped
    <3> QED
      BY <1>4, <2>1, <3>1
  <2> QED
    BY <1>1, <1>4, <2>1, <2>2, <2>3 DEF TypeOK
<1>6. AcceptsInv
  <2>1. /\ Count(gateway, GatewayJobs({"accepted", "acceptFailed"})) = 0
        /\ Count(gateway, GatewayJobs({"accepted"})) = 0
    BY <1>3, <1>4
  <2>2. 1 <= MaxIds + 1
    BY ConstantsTyped
  <2> QED
    BY <1>4, <2>1, <2>2 DEF AcceptsInv
<1>7. ASSUME NEW c \in Id
      PROVE  /\ conn[c].closed = FALSE /\ conn[c].reading = "none" /\ conn[c].writing = <<>>
             /\ conn[c].out = <<>> /\ conn[c].jobs = <<>>
             /\ \A K : Count(conn[c].jobs, JobsOf(K)) = 0
             /\ Writes(c) = 0
  <2>1. /\ conn[c].closed = FALSE /\ conn[c].reading = "none" /\ conn[c].writing = <<>>
        /\ conn[c].out = <<>> /\ conn[c].jobs = <<>>
    BY <1>4 DEF Fresh
  <2>2. \A K : Count(conn[c].jobs, JobsOf(K)) = 0
    BY <1>3, <2>1
  <2> QED
    BY <1>1, <2>1, <2>2 DEF Writes
<1>8. ConnectionInv
  <2>1. ConnectionsAreFresh
    BY <1>4 DEF ConnectionsAreFresh
  <2>2. OneReadEach /\ OneWriteEach
    <3>1. \A c \in Id : Count(conn[c].jobs, JobsOf({"header", "body", "readFailed"})) = 0
      BY <1>7
    <3>2. \A c \in Id : conn[c].reading = "none" /\ Writes(c) = 0 /\ conn[c].out = <<>>
      BY <1>7
    <3> QED
      BY <3>1, <3>2 DEF OneReadEach, OneWriteEach
  <2>3. OneMessageLate
    BY <1>4, <1>7 DEF OneMessageLate
  <2> QED
    BY <2>1, <2>2, <2>3 DEF ConnectionInv
<1>9. ClosedAreForgotten
  <2>1. \A c \in Id : Count(gateway, Forgets(c)) = 0
    BY <1>3, <1>4
  <2>2. Opened = {}
    BY <1>4 DEF Opened
  <2>3. \A c \in Id : told[c] = 0 /\ conn[c].closed = FALSE
    BY <1>4, <1>7
  <2> QED
    BY <2>1, <2>2, <2>3 DEF ClosedAreForgotten
<1>10. OrderInv
  <2>1. Len(gateway) = 0
    BY <1>1, <1>4
  <2>2. \A c \in Id : Len(conn[c].jobs) = 0 /\ Len(conn[c].out) = 0 /\ Len(Frames(c)) = 0
    <3>1. <<>> \o <<>> = <<>>
      BY <1>1, ConcatEmptySeq
    <3> QED
      BY <1>1, <1>4, <1>7, <3>1 DEF Frames
  <2> QED
    BY <2>1, <2>2 DEF OrderInv, GatewayInOrder, JobsInOrder, QueuesInOrder, FramesAreInOrder
<1> QED
  BY <1>5, <1>6, <1>8, <1>9, <1>10 DEF Inv

LEMMA StepInv == Inv /\ [Next]_vars => Inv'
<1> SUFFICES ASSUME Inv, [Next]_vars PROVE Inv'
  OBVIOUS
<1>1. TypeOK' /\ AcceptsInv'
  BY TypeStep, AcceptsStep DEF AcceptsMove
<1>2. ConnectionInv'
  BY FreshStep, ReadsStep, WritesStep, LateStep DEF ConnectionInv
<1>3. OrderInv'
  BY GatewayOrderStep, JobsOrderStep, QueuesOrderStep, FramesOrderStep DEF OrderInv
<1> QED
  BY <1>1, <1>2, <1>3, ForgetStep DEF Inv

LEMMA Invariant == Spec => []Inv
BY InitInv, StepInv, PTL DEF Spec

------------------------------------------------------------------------------
(* The theorems *)

\* The shape of the state: the counters keep to their bounds, the rate limiter to
\* max_messages_per_window, and connections_ never outgrows max_connections, although every accept
\* that is outstanding may still bring a client.
THEOREM TypeCorrect == Spec => []TypeOK
<1>1. Inv => TypeOK
  BY DEF Inv
<1> QED
  BY <1>1, Invariant, PTL

\* acceptNext: whatever the gateway refuses or fails to accept, and however often it was stopped
\* and started, a running one goes on accepting.
THEOREM AcceptsGoOn == Spec => []AlwaysAccepting
<1>1. ASSUME Inv PROVE AlwaysAccepting
  <2>1. Waiting({"accepted", "acceptFailed"})
            = Places(gateway, GatewayJobs({"accepted", "acceptFailed"}))
    BY <1>1, GatewayTyped DEF Inv
  <2> QED
    BY <1>1, <2>1 DEF Inv, AcceptsInv, AlwaysAccepting, Count
<1> QED
  BY <1>1, Invariant, PTL

LEMMA JobsArePlaces ==
    ASSUME TypeOK, NEW c \in Id, NEW K
    PROVE  Jobs(c, K) = Places(conn[c].jobs, JobsOf(K))
<1>1. conn[c].jobs \in Seq(Job)
  BY ConnectionTyped
<1>2. \A i \in 1..Len(conn[c].jobs) : conn[c].jobs[i] \in Job
  BY <1>1, ElementOfSeq
<1> QED
  BY <1>2 DEF Jobs, Places, JobsOf

\* removeConnection and on_close, which five places of a connection's strand reach: every
\* connection that opened is in the table, closed or about to be, and the host is told once, when
\* the table has let go of it, after which it delivers one message at most.
THEOREM ConnectionsEndOnce == Spec => []ConnectionsAreAccountedFor
<1>1. ASSUME Inv, NEW c \in Opened
      PROVE  /\ c \in table \/ conn[c].closed \/ Jobs(c, {"close"}) # {}
             /\ told[c] + Cardinality({i \in Waiting({"forget"}) : gateway[i].id = c})
                    = IF conn[c].closed THEN 1 ELSE 0
             /\ told[c] > 0 => c \notin table
             /\ late[c] <= 1
  <2>1. TypeOK /\ c \in Id
    <3>1. nextId \in 1..(MaxIds + 1) /\ c \in 1..(nextId - 1) /\ TypeOK
      BY <1>1 DEF Inv, TypeOK, Opened
    <3> QED
      BY <3>1, ConstantsTyped DEF Id
  <2>2. {i \in Waiting({"forget"}) : gateway[i].id = c} = Places(gateway, Forgets(c))
    <3>1. gateway \in Seq(GatewayJob)
      BY <2>1, GatewayTyped
    <3>2. \A i \in 1..Len(gateway) : gateway[i] \in GatewayJob
      BY <3>1, ElementOfSeq
    <3> QED
      BY <3>2 DEF Waiting, Places, Forgets
  <2>3. Count(conn[c].jobs, JobsOf({"close"})) > 0 => Jobs(c, {"close"}) # {}
    <3>1. Jobs(c, {"close"}) = Places(conn[c].jobs, JobsOf({"close"}))
      BY <2>1, JobsArePlaces
    <3>2. Places(conn[c].jobs, JobsOf({"close"})) = {} => Count(conn[c].jobs, JobsOf({"close"})) = 0
      BY FS_EmptySet DEF Count
    <3> QED
      BY <3>1, <3>2
  <2>4. /\ c \in table \/ conn[c].closed \/ Jobs(c, {"close"}) # {}
        /\ told[c] + Cardinality(Places(gateway, Forgets(c))) = IF conn[c].closed THEN 1 ELSE 0
        /\ told[c] > 0 => c \notin table
    BY <1>1, <2>1, <2>3 DEF Inv, ClosedAreForgotten, Count
  <2>5. late[c] <= 1
    <3>1. PICK l, a : l = late[c] /\ a = Count(conn[c].jobs, JobsOf({"header", "body"}))
      OBVIOUS
    <3>2. /\ ~conn[c].closed => l = 0
          /\ conn[c].closed => l + a + (IF conn[c].reading = "body" THEN 1 ELSE 0) <= 1
      BY <1>1, <2>1, <3>1 DEF Inv, ConnectionInv, OneMessageLate
    <3>3. l \in Nat /\ a \in Nat
      BY <2>1, <3>1, ConnectionTyped, JobsTyped
    <3>4. l <= 1
      BY <3>2, <3>3
    <3> QED
      BY <3>1, <3>4
  <2> QED
    BY <2>2, <2>4, <2>5
<1>2. Inv => ConnectionsAreAccountedFor
  BY <1>1 DEF ConnectionsAreAccountedFor
<1> QED
  BY <1>2, Invariant, PTL

\* TcpConnection::send: through two strands, the queue and the socket the frames keep the order of
\* the calls, each is written once, and none is left behind while the connection is open.
THEOREM FramesKeepTheirOrder == Spec => []FramesInOrder
<1>1. ASSUME Inv, NEW c \in Id
      PROVE  LET frames == wire[c] \o conn[c].writing IN
             /\ \A i, j \in 1..Len(frames) : i < j => frames[i] < frames[j]
             /\ \A i \in 1..Len(frames) : frames[i] \notin Oversized
             /\ ~conn[c].closed =>
                Len(conn[c].writing) + Cardinality(Jobs(c, {"written", "writeFailed"}))
                    = IF conn[c].out = <<>> THEN 0 ELSE 1
  <2>1. TypeOK /\ FramesAreInOrder /\ OneWriteEach
    BY <1>1 DEF Inv, OrderInv, ConnectionInv
  <2>2. /\ \A i, j \in 1..Len(Frames(c)) : i < j => Frames(c)[i] < Frames(c)[j]
        /\ \A i \in 1..Len(Frames(c)) : Frames(c)[i] \notin Oversized
    BY <2>1 DEF FramesAreInOrder, Queued, Ahead
  <2>3. Jobs(c, {"written", "writeFailed"}) = Places(conn[c].jobs, JobsOf({"written", "writeFailed"}))
    BY <2>1, JobsArePlaces
  <2>4. ~conn[c].closed =>
            Len(conn[c].writing) + Cardinality(Jobs(c, {"written", "writeFailed"}))
                = IF conn[c].out = <<>> THEN 0 ELSE 1
    BY <2>1, <2>3 DEF OneWriteEach, Writes, Count
  <2> QED
    BY <2>2, <2>4 DEF Frames
<1>2. Inv => FramesInOrder
  BY <1>1 DEF FramesInOrder
<1> QED
  BY <1>2, Invariant, PTL

================================================================================
