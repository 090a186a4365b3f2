---------------------------- MODULE NetworkGateway ----------------------------
(***************************************************************************)
(* rcs::net: NetworkGateway accepts TCP clients and keeps the table of     *)
(* connections; each TcpConnection reads frame after frame, writes from a  *)
(* queue, and closes itself when the peer fails or talks too much.         *)
(*                                                                         *)
(* Everything runs as handlers on strands: one of the gateway, one of each *)
(* connection.  A strand is a FIFO queue of handlers and each handler is   *)
(* one action; the handlers of different strands interleave.  The kernel   *)
(* completes the operations that are outstanding (an accept, a read, a     *)
(* write) by putting their handler on its strand.                          *)
(*                                                                         *)
(* Abstractions: a message is the number of its send, the bytes of frames  *)
(* and the errors' texts are left out; the rate limiter's clock is left    *)
(* out, so its window may be over at any message.  start() and stop() are  *)
(* called between two handlers, as by a host that drives poll() from one   *)
(* thread and calls it again when it threw, and listening on the port      *)
(* succeeds.  The host's callbacks on_open, on_message and on_close are    *)
(* assumed to return: one that throws would leave its handler before the   *)
(* next accept or the next read is started.  Boost.Asio is external.       *)
(***************************************************************************)
EXTENDS Integers, Sequences, FiniteSets

CONSTANTS
    MaxConnections,   \* config_.max_connections
    MaxPerWindow,     \* max_messages_per_window, 0 for no limit
    MaxIds,           \* bound on the connections ever accepted
    MaxSends,         \* bound on the messages ever sent
    Oversized,        \* the messages that are larger than default_max_payload_size
    MaxStarts         \* bound on the calls of start()

ASSUME LimitsTyped ==
    /\ {MaxConnections, MaxPerWindow, MaxIds, MaxSends, MaxStarts} \subseteq Nat
    /\ Oversized \subseteq 1..MaxSends

VARIABLES
    running,     \* running_; the io_context runs handlers exactly then
    starts,      \* calls of start() so far
    accepting,   \* the accepts that are outstanding
    gateway,     \* the handlers on the gateway's strand_
    nextId,      \* next_connection_id_
    nextSend,    \* the number of the next message
    table,       \* the keys of connections_
    conn,        \* the TcpConnection objects
    told,        \* history: how often the host was told that a connection closed
    wire,        \* history: the frames written to each connection's socket
    late         \* history: the messages a connection delivered after it had closed

vars == <<running, starts, accepting, gateway, nextId, nextSend, table, conn, told, wire, late>>
history == <<told, wire, late>>

Id      == 1..MaxIds
Message == 1..MaxSends

\* encode() throws for any other message.
Encodes(message) == message \notin Oversized

\* id and message are 0 where a handler has none.
GatewayJob == [kind: {"accepted", "acceptFailed", "send", "broadcast", "forget"},
               id: Id \cup {0}, message: Message \cup {0}]

Job == [kind: {"send", "close", "header", "body", "readFailed", "written", "writeFailed"},
        message: Message \cup {0}]

\* reading: the read that is outstanding; writing: the frames of the writes that are; used:
\* the rate limiter's used_events_.
Connection == [closed: BOOLEAN, reading: {"none", "header", "body"}, writing: Seq(Message),
               out: Seq(Message), used: 0..MaxPerWindow, jobs: Seq(Job)]

Fresh == [closed |-> FALSE, reading |-> "none", writing |-> <<>>, out |-> <<>>,
          used |-> 0, jobs |-> <<>>]

Opened == 1..(nextId - 1)

ForGateway(kind, id, message) == [kind |-> kind, id |-> id, message |-> message]

\* The handlers of these kinds that wait on the gateway's strand.
Waiting(kinds) == {i \in 1..Len(gateway) : gateway[i].kind \in kinds}

\* post() of a handler on the strand of connection c.
Post(c, kind, message) ==
    [c EXCEPT !.jobs = Append(@, [kind |-> kind, message |-> message])]

------------------------------------------------------------------------------
Init ==
    /\ running = FALSE
    /\ starts = 0
    /\ accepting = 0
    /\ gateway = <<>>
    /\ nextId = 1
    /\ nextSend = 1
    /\ table = {}
    /\ conn = [c \in Id |-> Fresh]
    /\ told = [c \in Id |-> 0]
    /\ wire = [c \in Id |-> <<>>]
    /\ late = [c \in Id |-> 0]

------------------------------------------------------------------------------
(* Calls of the host *)

Start ==
    /\ ~running
    /\ starts < MaxStarts
    /\ running' = TRUE
    /\ starts' = starts + 1
    /\ accepting' = accepting + 1
    /\ UNCHANGED <<gateway, nextId, nextSend, table, conn, history>>

\* Closing the acceptor aborts its accepts.  What was put on the strands stays there, and
\* runs when the gateway is started again.
Stop ==
    /\ running
    /\ running' = FALSE
    /\ accepting' = 0
    /\ gateway' = gateway \o [i \in 1..accepting |-> ForGateway("acceptFailed", 0, 0)]
    /\ conn' = [c \in Id |-> IF c \in table THEN Post(conn[c], "close", 0) ELSE conn[c]]
    /\ table' = {}
    /\ UNCHANGED <<starts, nextId, nextSend, history>>

\* The host sends to connections it has heard of.
Send(c) ==
    /\ c \in Opened
    /\ nextSend <= MaxSends
    /\ gateway' = Append(gateway, ForGateway("send", c, nextSend))
    /\ nextSend' = nextSend + 1
    /\ UNCHANGED <<running, starts, accepting, nextId, table, conn, history>>

Broadcast ==
    /\ nextSend <= MaxSends
    /\ gateway' = Append(gateway, ForGateway("broadcast", 0, nextSend))
    /\ nextSend' = nextSend + 1
    /\ UNCHANGED <<running, starts, accepting, nextId, table, conn, history>>

------------------------------------------------------------------------------
(* The kernel and the peers *)

AcceptCompletes(result) ==
    /\ running
    /\ accepting > 0
    /\ result \in {"accepted", "acceptFailed"}
    /\ result = "accepted" => nextId + Cardinality(Waiting({"accepted"})) <= MaxIds
    /\ accepting' = accepting - 1
    /\ gateway' = Append(gateway, ForGateway(result, 0, 0))
    /\ UNCHANGED <<running, starts, nextId, nextSend, table, conn, history>>

\* On a closed socket a read fails, unless it is that of an empty body, which reads nothing.
ReadCompletes(c, result) ==
    /\ running
    /\ conn[c].reading # "none"
    /\ result \in {conn[c].reading, "readFailed"}
    /\ conn[c].closed => result # "header"
    /\ conn' = [conn EXCEPT ![c] = [Post(conn[c], result, 0) EXCEPT !.reading = "none"]]
    /\ UNCHANGED <<running, starts, accepting, gateway, nextId, nextSend, table, history>>

WriteCompletes(c, result) ==
    /\ running
    /\ conn[c].writing # <<>>
    /\ result = "written" => ~conn[c].closed
    /\ conn' = [conn EXCEPT ![c] = [Post(conn[c], result, 0) EXCEPT !.writing = Tail(@)]]
    /\ wire' = IF result = "written"
               THEN [wire EXCEPT ![c] = Append(@, Head(conn[c].writing))] ELSE wire
    /\ UNCHANGED <<running, starts, accepting, gateway, nextId, nextSend, table, told, late>>

------------------------------------------------------------------------------
(* Handlers on the gateway's strand *)

Turn(kind) == running /\ gateway # <<>> /\ Head(gateway).kind = kind

\* The connection enters the table and starts to read; the next accept follows.
HandleAccepted ==
    /\ Turn("accepted")
    /\ Cardinality(table) < MaxConnections
    /\ table' = table \cup {nextId}
    /\ conn' = [conn EXCEPT ![nextId].reading = "header"]
    /\ nextId' = nextId + 1
    /\ gateway' = Tail(gateway)
    /\ accepting' = accepting + 1
    /\ UNCHANGED <<running, starts, nextSend, history>>

\* Mutant: the handler returns without another accept when it refuses a client.
HandleRefusedForGood ==
    /\ \/ Turn("accepted") /\ Cardinality(table) >= MaxConnections
       \/ Turn("acceptFailed")
    /\ gateway' = Tail(gateway)
    /\ accepting' = IF Turn("accepted") THEN accepting ELSE accepting + 1
    /\ UNCHANGED <<running, starts, nextId, nextSend, table, conn, history>>

\* A client too many, or a failed accept.
HandleRefused ==
    /\ \/ Turn("accepted") /\ Cardinality(table) >= MaxConnections
       \/ Turn("acceptFailed")
    /\ gateway' = Tail(gateway)
    /\ accepting' = accepting + 1
    /\ UNCHANGED <<running, starts, nextId, nextSend, table, conn, history>>

\* send() goes to the one connection if the table has it, broadcast() to all of the table.  A
\* message that does not encode throws at the first of them, out of the handler and of the
\* host's poll(); nobody is sent anything.
HandleSend ==
    LET job     == Head(gateway)
        targets == IF job.kind = "send" THEN table \cap {job.id} ELSE table
    IN
    /\ Turn("send") \/ Turn("broadcast")
    /\ gateway' = Tail(gateway)
    /\ conn' = [c \in Id |-> IF c \in targets /\ Encodes(job.message)
                             THEN Post(conn[c], "send", job.message) ELSE conn[c]]
    /\ UNCHANGED <<running, starts, accepting, nextId, nextSend, table, history>>

\* The gateway's on_close: removeConnection, then the host's callback.
HandleForget ==
    /\ Turn("forget")
    /\ gateway' = Tail(gateway)
    /\ table' = table \ {Head(gateway).id}
    /\ told' = [told EXCEPT ![Head(gateway).id] = @ + 1]
    /\ UNCHANGED <<running, starts, accepting, nextId, nextSend, conn, wire, late>>

------------------------------------------------------------------------------
(* Handlers on a connection's strand *)

TurnOf(c, kind) == running /\ conn[c].jobs # <<>> /\ Head(conn[c].jobs).kind = kind

Rest(c) == [conn[c] EXCEPT !.jobs = Tail(@)]

\* Mutant: closeNow without the look at closed_.
CloseNowAgain(c) ==
    /\ conn' = [conn EXCEPT ![c] = [Rest(c) EXCEPT !.closed = TRUE]]
    /\ gateway' = Append(gateway, ForGateway("forget", c, 0))

\* closeNow: once only; the wrapped on_close posts on the gateway's strand.
CloseNow(c) ==
    /\ conn' = [conn EXCEPT ![c] = [Rest(c) EXCEPT !.closed = TRUE]]
    /\ gateway' = IF conn[c].closed THEN gateway
                  ELSE Append(gateway, ForGateway("forget", c, 0))

HandleFailure(c) ==
    /\ \E kind \in {"close", "readFailed", "writeFailed"} : TurnOf(c, kind)
    /\ CloseNow(c)
    /\ UNCHANGED <<running, starts, accepting, nextId, nextSend, table, history>>

HandleHeader(c) ==
    /\ TurnOf(c, "header")
    /\ conn' = [conn EXCEPT ![c] = [Rest(c) EXCEPT !.reading = "body"]]
    /\ UNCHANGED <<running, starts, accepting, gateway, nextId, nextSend, table, history>>

\* decodeHeader throws when the peer announces more than max_payload_size.
HandleHeaderTooLarge(c) ==
    /\ TurnOf(c, "header")
    /\ CloseNow(c)
    /\ UNCHANGED <<running, starts, accepting, nextId, nextSend, table, history>>

\* Mutant: allow() compares with > instead of >=.
CountsOneMore(used, windowOver) ==
    IF MaxPerWindow = 0 THEN {0}
    ELSE IF windowOver THEN {1}
    ELSE IF used <= MaxPerWindow THEN {used + 1} ELSE {}

\* RateLimiter::allow, which also starts a new window when the old one is over: the count
\* it leaves behind.
Counts(used, windowOver) ==
    IF MaxPerWindow = 0 THEN {0}
    ELSE IF windowOver THEN {1}
    ELSE IF used < MaxPerWindow THEN {used + 1} ELSE {}

\* The handler does not look at closed_: a message read before the connection closed is
\* still delivered, and the next read fails.
HandleBody(c, windowOver) ==
    /\ TurnOf(c, "body")
    /\ \E used \in Counts(conn[c].used, windowOver) :
        conn' = [conn EXCEPT ![c] = [Rest(c) EXCEPT !.used = used, !.reading = "header"]]
    /\ late' = IF conn[c].closed THEN [late EXCEPT ![c] = @ + 1] ELSE late
    /\ UNCHANGED <<running, starts, accepting, gateway, nextId, nextSend, table, told, wire>>

\* "connection rate limit exceeded"
HandleBodyOverRate(c) ==
    /\ TurnOf(c, "body")
    /\ Counts(conn[c].used, FALSE) = {}
    /\ CloseNow(c)
    /\ UNCHANGED <<running, starts, accepting, nextId, nextSend, table, history>>

\* writeNext: the head of the queue, unless the connection has closed.
WriteNext(c) == [c EXCEPT !.writing = IF c.out = <<>> \/ c.closed THEN @ ELSE Append(@, Head(c.out))]

\* The handler of TcpConnection::send: only the first frame of the queue starts a write.
HandleFrame(c) ==
    LET queued == [Rest(c) EXCEPT !.out = Append(@, Head(conn[c].jobs).message)] IN
    /\ TurnOf(c, "send")
    /\ conn' = [conn EXCEPT ![c] = IF conn[c].out = <<>> THEN WriteNext(queued) ELSE queued]
    /\ UNCHANGED <<running, starts, accepting, gateway, nextId, nextSend, table, history>>

\* Mutant: a frame that was written does not start the next one.
HandleWrittenOnly(c) ==
    /\ TurnOf(c, "written")
    /\ conn' = [conn EXCEPT ![c] = [Rest(c) EXCEPT !.out = Tail(@)]]
    /\ UNCHANGED <<running, starts, accepting, gateway, nextId, nextSend, table, history>>

HandleWritten(c) ==
    /\ TurnOf(c, "written")
    /\ conn' = [conn EXCEPT ![c] = WriteNext([Rest(c) EXCEPT !.out = Tail(@)])]
    /\ UNCHANGED <<running, starts, accepting, gateway, nextId, nextSend, table, history>>

------------------------------------------------------------------------------
Next ==
    \/ Start
    \/ Stop
    \/ \E c \in Id : Send(c)
    \/ Broadcast
    \/ \E result \in {"accepted", "acceptFailed"} : AcceptCompletes(result)
    \/ \E c \in Id, result \in {"header", "body", "readFailed"} : ReadCompletes(c, result)
    \/ \E c \in Id, result \in {"written", "writeFailed"} : WriteCompletes(c, result)
    \/ HandleAccepted
    \/ HandleRefused
    \/ HandleSend
    \/ HandleForget
    \/ \E c \in Id : HandleFailure(c)
    \/ \E c \in Id : HandleHeader(c)
    \/ \E c \in Id : HandleHeaderTooLarge(c)
    \/ \E c \in Id, windowOver \in BOOLEAN : HandleBody(c, windowOver)
    \/ \E c \in Id : HandleBodyOverRate(c)
    \/ \E c \in Id : HandleFrame(c)
    \/ \E c \in Id : HandleWritten(c)

Spec == Init /\ [][Next]_vars

------------------------------------------------------------------------------
(* Properties *)

\* The shape of the state; the rate limiter never counts beyond its limit, and max_connections
\* holds for the table, however many accepts are outstanding.
TypeOK ==
    /\ running \in BOOLEAN
    /\ starts \in 0..MaxStarts
    /\ accepting \in 0..MaxStarts
    /\ gateway \in Seq(GatewayJob)
    /\ nextId \in 1..(MaxIds + 1)
    /\ nextSend \in 1..(MaxSends + 1)
    /\ table \subseteq Opened
    /\ Cardinality(table) <= MaxConnections
    /\ conn \in [Id -> Connection]
    /\ told \in [Id -> Nat]
    /\ wire \in [Id -> Seq(Message)]
    /\ late \in [Id -> Nat]

Jobs(c, kinds) == {i \in 1..Len(conn[c].jobs) : conn[c].jobs[i].kind \in kinds}

\* acceptNext: a running gateway always has an accept outstanding or on its strand, whatever
\* it refused before; a restart adds one at most.
AlwaysAccepting ==
    LET loops == accepting + Cardinality(Waiting({"accepted", "acceptFailed"}))
    IN  loops <= starts /\ (running => loops >= 1)

\* Every connection that was opened is in the table, has closed, or will: none is left reading
\* with nobody to close it.  Each one's on_close, which five places run into, reaches the host
\* once, and "remove from the table first, then tell the observer": never before the table
\* has let go of it.  After that at most one message of it is delivered, although its handlers
\* do not look at closed_: the one whose read was done by then.
ConnectionsAreAccountedFor ==
    \A c \in Opened :
        /\ c \in table \/ conn[c].closed \/ Jobs(c, {"close"}) # {}
        /\ told[c] + Cardinality({i \in Waiting({"forget"}) : gateway[i].id = c})
                = IF conn[c].closed THEN 1 ELSE 0
        /\ told[c] > 0 => c \notin table
        /\ late[c] <= 1

\* "several sends are serialized": the frames on a socket are in the order of the calls of
\* send() and broadcast(), through two strands and the queue, and none is written twice.  And
\* none is left behind: while a connection is open, one write is outstanding, or its handler
\* waits, exactly when the queue is not empty.  That also goes on when a message between the
\* others threw out of the gateway's handler, and none of that one is ever on a socket.
FramesInOrder ==
    \A c \in Id : LET frames == wire[c] \o conn[c].writing IN
        /\ \A i, j \in 1..Len(frames) : i < j => frames[i] < frames[j]
        /\ \A i \in 1..Len(frames) : frames[i] \notin Oversized
        /\ ~conn[c].closed =>
            Len(conn[c].writing) + Cardinality(Jobs(c, {"written", "writeFailed"}))
                = IF conn[c].out = <<>> THEN 0 ELSE 1

==============================================================================
