-------------------------------- MODULE Server --------------------------------
(***************************************************************************)
(* redculture_server from main() to exit: ServiceApplication starts and    *)
(* stops its parts, HttpServer's threads accept clients and run one        *)
(* request handler each, OpsService keeps the state of the service, and    *)
(* StorageService holds the connection that handlers use.                  *)
(*                                                                         *)
(* The main thread starts everything, waits for a signal, and stops        *)
(* everything again; the workers are the threads in io_context::run().  An *)
(* io_context has one handler ready per completed operation, and any       *)
(* worker may take it.  Each method of OpsService holds its mutex          *)
(* throughout, so a handler that calls two of them is two steps.           *)
(*                                                                         *)
(* Abstractions: what other modules say about sessions, rooms and flows is *)
(* one kind of request here, "play", which looks whether storage is        *)
(* connected and then uses it; a request that calls no service is "plain". *)
(* Contents, limits and access logs are left out.  Boost.Asio and the      *)
(* database are external.                                                  *)
(***************************************************************************)
EXTENDS Integers

CONSTANTS
    Worker,         \* the threads of HttpServer
    Client,         \* bound on the sessions ever accepted
    MaxRequests,    \* bound on the requests ever read
    Storages        \* what files say of storage: enabled, allow_without_storage, auto_migrate

ASSUME ConfigTyped ==
    /\ Storages \subseteq [enabled: BOOLEAN, allowWithout: BOOLEAN, autoMigrate: BOOLEAN]
    /\ MaxRequests \in Nat
    /\ Client # {}

VARIABLES
    main,         \* where the main thread is
    settings,     \* the ApplicationConfig
    ops,          \* OpsService: status_, ready_, shutdown_reason_
    connection,   \* the connection of StorageService: none (or closed), open, or open to a
                  \* database without the tables
    broken,       \* history: the database closed the connection
    listening,    \* HttpServer's running_
    stopped,      \* the io_context is stopped
    accept,       \* the one async_accept
    session,      \* the HttpSession objects
    requests,     \* requests read so far
    worker        \* where each thread is in its handler

vars == <<main, settings, ops, connection, broken, listening, stopped, accept, session,
          requests, worker>>
server == <<listening, stopped, accept, session, requests, worker>>

\* What no request handler changes.
others == <<main, settings, connection, broken, listening, stopped, accept, requests>>

MainStage == {"load", "start", "connect", "listen", "setReady", "wait",
              "begin", "stop", "close", "join", "complete", "disconnect", "exited"}

Settings == [enableStorage: BOOLEAN, allowWithout: BOOLEAN, autoMigrate: BOOLEAN]

Status  == {"starting", "running", "draining", "stopped"}
\* The reason is text, the application's or a shutdown request's, or the body of a shutdown
\* request that is not UTF-8.
Reason  == {"none", "text", "unprintable"}
Ops     == [status: Status, ready: BOOLEAN, reason: Reason]
Request == {"ready", "health", "shutdown", "play", "plain"}

\* What a response says: the status and the reason where it names them; failed is the 500 in
\* place of a response that could not be printed, which names neither.
Reply == [ready: BOOLEAN, healthy: BOOLEAN, status: Status, reason: Reason, failed: BOOLEAN]

Silent == [ready |-> FALSE, healthy |-> FALSE, status |-> "starting", reason |-> "none",
           failed |-> FALSE]

Failure == [Silent EXCEPT !.failed = TRUE]

\* A session has one operation outstanding ("reading", "writing"), or one handler ready (the
\* stages after those), or one that runs ("handling").
Stage   == {"unused", "reading", "read", "handling", "writing", "written", "failed", "closed"}
Session == [stage: Stage, request: Request, reply: Reply]

Fresh == [stage |-> "unused", request |-> "plain", reply |-> Silent]

\* late: the shutdown had begun when the handler began.
Thread == [pc: {"off", "idle", "accepting", "handling", "replying", "naming", "using"},
           client: Client, reply: Reply, late: BOOLEAN]

Idle == [pc |-> "idle", client |-> CHOOSE c \in Client : TRUE, reply |-> Silent, late |-> FALSE]
Off  == [Idle EXCEPT !.pc = "off"]

ShutdownBegun == ops.status \in {"draining", "stopped"}

Connected == connection # "none"

------------------------------------------------------------------------------
Init ==
    /\ main = "load"
    /\ settings = [enableStorage |-> FALSE, allowWithout |-> FALSE, autoMigrate |-> FALSE]
    /\ ops = [status |-> "starting", ready |-> FALSE, reason |-> "none"]
    /\ connection = "none"
    /\ broken = FALSE
    /\ listening = FALSE
    /\ stopped = FALSE
    /\ accept = "none"
    /\ session = [c \in Client |-> Fresh]
    /\ requests = 0
    /\ worker = [w \in Worker |-> Off]

------------------------------------------------------------------------------
(* The main thread: main() and ServiceApplication::start *)

\* toApplicationConfig: a URI in the environment or on the command line enables storage, which
\* no layer above the file can disable; the rest is the file's.
FromLayers(file, environmentUri, commandUri) ==
    [enableStorage |-> file.enabled \/ environmentUri \/ commandUri,
     allowWithout  |-> file.allowWithout,
     autoMigrate   |-> file.autoMigrate]

LoadConfig ==
    /\ main = "load"
    /\ \E file \in Storages, environmentUri, commandUri \in BOOLEAN :
            settings' = FromLayers(file, environmentUri, commandUri)
    /\ main' = "start"
    /\ UNCHANGED <<ops, connection, broken, server>>

\* A configuration that cannot be read ends the program before there is an application.
LoadConfigFails ==
    /\ main = "load"
    /\ main' = "exited"
    /\ UNCHANGED <<settings, ops, connection, broken, server>>

StartOps ==
    /\ main = "start"
    /\ ops' = [ops EXCEPT !.status = "running", !.ready = TRUE]
    /\ main' = IF settings.enableStorage THEN "connect" ELSE "listen"
    /\ UNCHANGED <<settings, connection, broken, server>>

\* connect(): the tables are made in one transaction, all or none; an earlier process may have
\* made them.  Without the migration nobody looks for them.
ConnectStorage ==
    /\ main = "connect"
    /\ connection' \in (IF settings.autoMigrate THEN {"open"} ELSE {"open", "bare"})
    /\ main' = "listen"
    /\ UNCHANGED <<settings, ops, broken, server>>

\* A migration that fails keeps the connection.  Without leave to go on, start() throws, and the
\* destructor stops what was started.
ConnectStorageFails ==
    /\ main = "connect"
    /\ connection' \in (IF settings.autoMigrate THEN {"none", "open", "bare"} ELSE {"none"})
    /\ main' = IF settings.allowWithout THEN "listen" ELSE "disconnect"
    /\ UNCHANGED <<settings, ops, broken, server>>

ListenFails ==
    /\ main = "listen"
    /\ main' = "disconnect"
    /\ UNCHANGED <<settings, ops, connection, broken, server>>

Listen ==
    /\ main = "listen"
    /\ listening' = TRUE
    /\ accept' = "waiting"
    /\ worker' = [w \in Worker |-> Idle]
    /\ main' = "setReady"
    /\ UNCHANGED <<settings, ops, connection, broken, stopped, session, requests>>

\* Mutant: start() ends with a second start of OpsService.
SetReadyByStart ==
    /\ main = "setReady"
    /\ ops' = [ops EXCEPT !.status = "running", !.ready = TRUE]
    /\ main' = "wait"
    /\ UNCHANGED <<settings, connection, broken, server>>

SetReady ==
    /\ main = "setReady"
    /\ ops' = [ops EXCEPT !.ready = TRUE]
    /\ main' = "wait"
    /\ UNCHANGED <<settings, connection, broken, server>>

------------------------------------------------------------------------------
(* The main thread: ServiceApplication::stop *)

\* SIGINT or SIGTERM.
Signal ==
    /\ main = "wait"
    /\ main' = "begin"
    /\ UNCHANGED <<settings, ops, connection, broken, server>>

\* Mutant: the reason is stored for the callback only.
BegunSilently(reason) ==
    IF ops.status = "stopped" THEN ops
    ELSE [status |-> "draining", ready |-> FALSE, reason |-> ops.reason]

\* beginShutdown without its callback, which nobody sets.
Begun(reason) ==
    IF ops.status = "stopped" THEN ops
    ELSE [status |-> "draining", ready |-> FALSE, reason |-> reason]

BeginShutdown ==
    /\ main = "begin"
    /\ ops' = Begun("text")
    /\ main' = "stop"
    /\ UNCHANGED <<settings, connection, broken, server>>

\* exchange(false), which the handlers of accepts look at.
StopListening ==
    /\ main = "stop"
    /\ listening' = FALSE
    /\ main' = "close"
    /\ UNCHANGED <<settings, ops, connection, broken, stopped, accept, session,
                   requests, worker>>

\* Closing the acceptor aborts the accept; the io_context runs no further handler.
CloseHttp ==
    /\ main = "close"
    /\ stopped' = TRUE
    /\ accept' = IF accept = "waiting" THEN "failed" ELSE accept
    /\ main' = "join"
    /\ UNCHANGED <<settings, ops, connection, broken, listening, session, requests,
                   worker>>

\* Mutant: stop() does not wait for its threads.
JoinNobody ==
    /\ main = "join"
    /\ main' = "complete"
    /\ UNCHANGED <<settings, ops, connection, broken, server>>

Join ==
    /\ main = "join"
    /\ \A w \in Worker : worker[w] = Off
    /\ main' = "complete"
    /\ UNCHANGED <<settings, ops, connection, broken, server>>

CompleteShutdown ==
    /\ main = "complete"
    /\ ops' = [ops EXCEPT !.status = "stopped", !.ready = FALSE]
    /\ main' = "disconnect"
    /\ UNCHANGED <<settings, connection, broken, server>>

Disconnect ==
    /\ main = "disconnect"
    /\ connection' = "none"
    /\ main' = "exited"
    /\ UNCHANGED <<settings, ops, broken, server>>

MainStep ==
    \/ LoadConfig
    \/ LoadConfigFails
    \/ StartOps
    \/ ConnectStorage
    \/ ConnectStorageFails
    \/ ListenFails
    \/ Listen
    \/ SetReady
    \/ BeginShutdown
    \/ StopListening
    \/ CloseHttp
    \/ Join
    \/ CompleteShutdown
    \/ Disconnect

------------------------------------------------------------------------------
(* The kernel, the clients and the database *)

AcceptCompletes(result) ==
    /\ accept = "waiting"
    /\ result \in {"accepted", "failed"}
    /\ result = "accepted" => \E c \in Client : session[c].stage = "unused"
    /\ accept' = result
    /\ UNCHANGED <<main, settings, ops, connection, broken, listening, stopped, session,
                   requests, worker>>

RequestArrives(c, request) ==
    /\ session[c].stage = "reading"
    /\ requests < MaxRequests
    /\ main # "exited"
    /\ requests' = requests + 1
    /\ session' = [session EXCEPT ![c].stage = "read", ![c].request = request]
    /\ UNCHANGED <<main, settings, ops, connection, broken, listening, stopped, accept,
                   worker>>

\* The client goes away, or sends what is no request.
ReadFails(c) ==
    /\ session[c].stage = "reading"
    /\ main # "exited"
    /\ session' = [session EXCEPT ![c].stage = "failed"]
    /\ UNCHANGED <<others, ops, worker>>

WriteCompletes(c, result) ==
    /\ session[c].stage = "writing"
    /\ result \in {"written", "failed"}
    /\ main # "exited"
    /\ session' = [session EXCEPT ![c] = [Fresh EXCEPT !.stage = result]]
    /\ UNCHANGED <<others, ops, worker>>

ConnectionBreaks ==
    /\ Connected
    /\ connection' = "none"
    /\ broken' = TRUE
    /\ UNCHANGED <<main, settings, ops, server>>

------------------------------------------------------------------------------
(* The workers *)

Free(w) == worker[w].pc = "idle" /\ ~stopped

\* run() returns in a thread without a handler once the io_context is stopped.
Leave(w) ==
    /\ worker[w].pc = "idle"
    /\ stopped
    /\ worker' = [worker EXCEPT ![w] = Off]
    /\ UNCHANGED <<others, ops, session>>

\* Mutant: a failed accept ends the loop.
TakeAcceptUnlessFailed(w) ==
    /\ Free(w)
    /\ accept \in {"accepted", "failed"}
    /\ worker' = IF listening /\ accept = "accepted"
                 THEN [worker EXCEPT ![w].pc = "accepting"] ELSE worker
    /\ accept' = "none"
    /\ \E c \in Client :
        /\ accept = "accepted" => session[c].stage = "unused"
        /\ session' = IF listening /\ accept = "accepted"
                      THEN [session EXCEPT ![c].stage = "reading"] ELSE session
    /\ UNCHANGED <<main, settings, ops, connection, broken, listening, stopped, requests>>

\* The handler of async_accept looks at running_ and starts the session, whatever the main
\* thread does next.
TakeAccept(w) ==
    /\ Free(w)
    /\ accept \in {"accepted", "failed"}
    /\ worker' = IF listening THEN [worker EXCEPT ![w].pc = "accepting"] ELSE worker
    /\ accept' = "none"
    /\ \E c \in Client :
        /\ accept = "accepted" => session[c].stage = "unused"
        /\ session' = IF listening /\ accept = "accepted"
                      THEN [session EXCEPT ![c].stage = "reading"] ELSE session
    /\ UNCHANGED <<main, settings, ops, connection, broken, listening, stopped, requests>>

\* On an acceptor that was closed meanwhile the next accept fails at once.  (Nothing orders this
\* use of the acceptor and the main thread's: either may come first.)
AcceptNext(w) ==
    /\ worker[w].pc = "accepting"
    /\ accept' = IF stopped THEN "failed" ELSE "waiting"
    /\ worker' = [worker EXCEPT ![w] = Idle]
    /\ UNCHANGED <<main, settings, ops, connection, broken, listening, stopped, session,
                   requests>>

\* onRead without error.
TakeRequest(w, c) ==
    /\ Free(w)
    /\ session[c].stage = "read"
    /\ worker' = [worker EXCEPT ![w] = [Idle EXCEPT !.pc = "handling", !.client = c,
                                                    !.late = ShutdownBegun]]
    /\ session' = [session EXCEPT ![c].stage = "handling"]
    /\ UNCHANGED <<others, ops>>

\* onRead with an error, and the end of a write: read the next request, or close the socket
\* after an error or when the response was the last.
TakeEnd(w, c) ==
    /\ Free(w)
    /\ session[c].stage \in {"written", "failed"}
    /\ \E next \in {"reading", "closed"} :
        /\ next = "reading" => session[c].stage = "written"
        /\ session' = [session EXCEPT ![c].stage = next]
    /\ UNCHANGED <<others, ops, worker>>

\* Worker w goes on in its handler.
Continue(w, pc, reply) ==
    /\ worker' = [worker EXCEPT ![w].pc = pc, ![w].reply = reply]
    /\ UNCHANGED session

\* Mutant: a handler that threw writes no response.
RespondUnlessThrown(w, reply) ==
    /\ worker' = [worker EXCEPT ![w] = Idle]
    /\ session' = [session EXCEPT ![worker[w].client].stage =
                        IF worker[w].pc = "using" /\ connection # "open" THEN "handling" ELSE "writing",
                                  ![worker[w].client].reply = reply]

\* writeResponse, the last step of onRead, also for a handler that threw.
Respond(w, reply) ==
    /\ worker' = [worker EXCEPT ![w] = Idle]
    /\ session' = [session EXCEPT ![worker[w].client].stage = "writing",
                                  ![worker[w].client].reply = reply]

Handling(w, request) ==
    worker[w].pc = "handling" /\ session[worker[w].client].request = request

IsReady == ops.ready /\ ops.status = "running"

\* readyResponse: isReady(), then status().
HandleReady(w) ==
    /\ Handling(w, "ready")
    /\ Continue(w, "replying", [Silent EXCEPT !.ready = IsReady])
    /\ UNCHANGED <<others, ops>>

\* shutdownResponse: beginShutdown(), then status(), then shutdownReason().
HandleShutdown(w) ==
    /\ Handling(w, "shutdown")
    /\ \E reason \in {"text", "unprintable"} : ops' = Begun(reason)
    /\ Continue(w, "replying", Silent)
    /\ UNCHANGED others

\* collectHealthReport reads the status, then runs the checks without the lock.
HandleHealth(w) ==
    /\ Handling(w, "health")
    /\ Continue(w, "naming", [Silent EXCEPT !.ready = IsReady, !.status = ops.status])
    /\ UNCHANGED <<others, ops>>

ReplyStatus(w) ==
    LET reply == [worker[w].reply EXCEPT !.status = ops.status] IN
    /\ worker[w].pc = "replying"
    /\ IF session[worker[w].client].request = "shutdown"
       THEN Continue(w, "naming", reply) ELSE Respond(w, reply)
    /\ UNCHANGED <<others, ops>>

\* The reason read is the newest one, which may be another request's; dump() throws when it is
\* not UTF-8, after the shutdown has begun.
ReplyReason(w) ==
    /\ worker[w].pc = "naming"
    /\ session[worker[w].client].request = "shutdown"
    /\ Respond(w, IF ops.reason = "unprintable" THEN Failure
                   ELSE [worker[w].reply EXCEPT !.reason = ops.reason])
    /\ UNCHANGED <<others, ops>>

\* The storage check: disabled storage is healthy.
ReplyHealth(w) ==
    /\ worker[w].pc = "naming"
    /\ session[worker[w].client].request = "health"
    /\ Respond(w, [worker[w].reply EXCEPT !.healthy = ~settings.enableStorage \/ Connected])
    /\ UNCHANGED <<others, ops>>

\* Without storage the handler goes on without it, or refuses; both are responses.
HandlePlay(w) ==
    /\ Handling(w, "play")
    /\ IF Connected THEN Continue(w, "using", Silent) ELSE Respond(w, Silent)
    /\ UNCHANGED <<others, ops>>

\* The queries find the connection and the tables, or throw; onRead answers an exception too.
UseStorage(w) ==
    /\ worker[w].pc = "using"
    /\ Respond(w, Silent)
    /\ UNCHANGED <<others, ops>>

HandlePlain(w) ==
    /\ Handling(w, "plain")
    /\ Respond(w, Silent)
    /\ UNCHANGED <<others, ops>>

WorkerStep(w) ==
    \/ Leave(w)
    \/ AcceptNext(w)
    \/ HandleReady(w)
    \/ HandleShutdown(w)
    \/ HandleHealth(w)
    \/ ReplyStatus(w)
    \/ ReplyReason(w)
    \/ ReplyHealth(w)
    \/ HandlePlay(w)
    \/ UseStorage(w)
    \/ HandlePlain(w)

------------------------------------------------------------------------------
Next ==
    \/ MainStep
    \/ Signal
    \/ \E result \in {"accepted", "failed"} : AcceptCompletes(result)
    \/ \E c \in Client, request \in Request : RequestArrives(c, request)
    \/ \E c \in Client : ReadFails(c)
    \/ \E c \in Client, result \in {"written", "failed"} : WriteCompletes(c, result)
    \/ ConnectionBreaks
    \/ \E w \in Worker : TakeAccept(w)
    \/ \E w \in Worker, c \in Client : TakeRequest(w, c)
    \/ \E w \in Worker, c \in Client : TakeEnd(w, c)
    \/ \E w \in Worker : WorkerStep(w)

Spec == Init /\ [][Next]_vars

\* The main thread and every worker go on with what they are doing, a ready handler is taken
\* by some worker (the io_context's queue is first in, first out), and a socket's write ends.
\* Nobody has to send a signal or a request.
FairSpec ==
    /\ Spec
    /\ WF_vars(MainStep)
    /\ \A w \in Worker : WF_vars(WorkerStep(w))
    /\ WF_vars(\E w \in Worker : TakeAccept(w))
    /\ \A c \in Client :
        /\ WF_vars(\E w \in Worker : TakeRequest(w, c))
        /\ WF_vars(\E w \in Worker : TakeEnd(w, c))
        /\ WF_vars(\E result \in {"written", "failed"} : WriteCompletes(c, result))

------------------------------------------------------------------------------
(* Properties *)

\* The shape of the state; shutdownReason() has a value exactly once a shutdown has begun.
TypeOK ==
    /\ main \in MainStage
    /\ ops \in Ops
    /\ ops.reason # "none" <=> ShutdownBegun
    /\ settings \in Settings
    /\ connection \in {"none", "open", "bare"}
    /\ {broken, listening, stopped} \subseteq BOOLEAN
    /\ accept \in {"none", "waiting", "accepted", "failed"}
    /\ session \in [Client -> Session]
    /\ requests \in 0..MaxRequests
    /\ worker \in [Worker -> Thread]

\* ServiceApplication::stop lets its handlers end before it takes anything away: a handler that
\* found storage connected loses the connection to the database only, never to disconnect(),
\* and no thread outlives the server.  And a server that may not go without storage only ever
\* serves with it, and with the tables unless it was told not to make them.
HandlersKeepTheirStorage ==
    /\ \A w \in Worker : worker[w].pc = "using" => Connected \/ broken
    /\ listening /\ settings.enableStorage /\ ~settings.allowWithout =>
        broken \/ connection = "open" \/ (connection = "bare" /\ ~settings.autoMigrate)
    /\ main \in {"complete", "disconnect", "exited"} => \A w \in Worker : worker[w] = Off

\* What the admin interface says fits the shutdown that goes on.  A handler that began after the
\* shutdown had, by request or signal, never answers /ready with true, not even when the request
\* was there before start() had set the service ready.  A shutdown request is answered after the
\* shutdown has begun only; and unless the newest reason cannot be printed, it names the state it
\* led to and a reason, although they are read one by one.
RepliesTellOfShutdown ==
    /\ \A w \in Worker : worker[w].late => ~worker[w].reply.ready
    /\ \A c \in Client :
        session[c].stage = "writing" /\ session[c].request = "shutdown" =>
            /\ ShutdownBegun
            /\ \/ session[c].reply.failed
               \/ session[c].reply.status = "draining" /\ session[c].reply.reason = "text"

\* A listening server accepts: an accept is outstanding, or its handler is ready or running.
AcceptLoopLives ==
    listening => accept # "none" \/ \E w \in Worker : worker[w].pc = "accepting"

\* What was begun ends.  A request that was read is answered, also when its handler throws, or
\* its connection is closed, unless the server stops first; and stop() returns: no thread that
\* it joins waits for the main thread.
RequestsAndStopEnd ==
    /\ \A c \in Client :
        session[c].stage \in {"read", "handling"} ~>
            session[c].stage \notin {"read", "handling"} \/ stopped
    /\ main = "begin" ~> main = "exited"

==============================================================================
