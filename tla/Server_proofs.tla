----------------------------- MODULE Server_proofs -----------------------------
(***************************************************************************)
(* Theorems about Server for every set of worker threads, clients and      *)
(* settings files and every bound on the requests.                         *)
(***************************************************************************)
EXTENDS Server, TLAPS

InHandler == {"handling", "replying", "naming", "using"}

LEMMA SilentTyped == Silent \in Reply /\ Failure \in Reply /\ Failure.failed
BY DEF Silent, Failure, Reply, Status, Reason

LEMMA IdleTyped ==
    /\ Idle \in Thread /\ Idle.pc = "idle" /\ ~Idle.late
    /\ Off \in Thread /\ Off.pc = "off" /\ ~Off.late
BY ConfigTyped, SilentTyped DEF Idle, Off, Thread

LEMMA FreshTyped == Fresh \in Session /\ Fresh.stage = "unused" /\ Fresh.request = "plain"
BY SilentTyped DEF Fresh, Session, Stage, Request

------------------------------------------------------------------------------
(* Where the main thread is, and what may be going on meanwhile *)

\* Before HttpServer::start and after its threads are joined nobody runs.
QuietStage == {"load", "start", "connect", "listen", "complete", "disconnect", "exited"}

\* What the stage of the main thread says of the rest.
Stages ==
    /\ main \in QuietStage => \A w \in Worker : worker[w] = Off
    /\ main \in {"load", "start"} => ops.status = "starting"
    /\ main \in {"stop", "close", "join", "complete"} => ShutdownBegun
    /\ ops.status = "stopped" => main \in {"disconnect", "exited"}
    /\ listening => main \in {"setReady", "wait", "begin", "stop"}
    /\ main \in {"listen", "setReady", "wait", "begin", "stop"}
            /\ settings.enableStorage /\ ~settings.allowWithout =>
        broken \/ connection = "open" \/ (connection = "bare" /\ ~settings.autoMigrate)

\* Every handler has a session to itself, which waits for its response.
HandlersOwnTheirSessions ==
    \A w \in Worker : worker[w].pc \in InHandler =>
        /\ session[worker[w].client].stage = "handling"
        /\ \A v \in Worker : worker[v].pc \in InHandler /\ worker[v].client = worker[w].client
                => v = w

\* How far the handlers are with what they answer.
HandlersKnow ==
    \A w \in Worker :
        LET request == session[worker[w].client].request IN
        /\ worker[w].late => ShutdownBegun /\ ~worker[w].reply.ready
        /\ worker[w].pc = "using" => request = "play" /\ (Connected \/ broken)
        /\ worker[w].pc \in {"replying", "naming"} /\ request = "shutdown" => ShutdownBegun
        /\ worker[w].pc = "naming" /\ request = "shutdown" => worker[w].reply.status = "draining"

\* What a response to a shutdown request says.
Tells(reply) == reply.failed \/ (reply.status = "draining" /\ reply.reason = "text")

\* The responses to shutdown requests on their way.
ShutdownReplies ==
    \A c \in Client : session[c].stage = "writing" /\ session[c].request = "shutdown" =>
        ShutdownBegun /\ Tells(session[c].reply)

ServerInv ==
    TypeOK /\ Stages /\ HandlersOwnTheirSessions /\ HandlersKnow /\ ShutdownReplies
           /\ AcceptLoopLives

LEMMA InitInv == Init => ServerInv
<1> SUFFICES ASSUME Init PROVE ServerInv
  OBVIOUS
<1> USE ConfigTyped, IdleTyped, FreshTyped
<1>1. TypeOK
  <2>1. session \in [Client -> Session] /\ worker \in [Worker -> Thread]
    BY DEF Init
  <2>2. main \in MainStage /\ ops \in Ops /\ settings \in Settings /\ requests \in 0..MaxRequests
    BY DEF Init, MainStage, Ops, Status, Reason, Settings
  <2> QED
    BY <2>1, <2>2 DEF Init, TypeOK, ShutdownBegun
<1>2. Stages
  BY DEF Init, Stages
<1>3. HandlersOwnTheirSessions
  BY DEF Init, HandlersOwnTheirSessions, InHandler
<1>4. HandlersKnow
  BY DEF Init, HandlersKnow
<1>5. ShutdownReplies
  BY DEF Init, ShutdownReplies
<1>6. AcceptLoopLives
  BY DEF Init, AcceptLoopLives
<1> QED
  BY <1>1, <1>2, <1>3, <1>4, <1>5, <1>6 DEF ServerInv

------------------------------------------------------------------------------
(* What the steps of a worker do *)

LEMMA ContinueStep ==
    ASSUME TypeOK, NEW w \in Worker, NEW pc \in InHandler, NEW reply \in Reply,
           Continue(w, pc, reply)
    PROVE  /\ worker' \in [Worker -> Thread]
           /\ worker'[w] = [worker[w] EXCEPT !.pc = pc, !.reply = reply]
           /\ \A v \in Worker \ {w} : worker'[v] = worker[v]
           /\ session' = session
<1>1. worker \in [Worker -> Thread] /\ worker[w] \in Thread
  BY DEF TypeOK
<1>2. worker' = [worker EXCEPT ![w] = [worker[w] EXCEPT !.pc = pc, !.reply = reply]]
  BY <1>1 DEF Continue, Thread
<1>3. [worker[w] EXCEPT !.pc = pc, !.reply = reply] \in Thread
  BY <1>1 DEF Thread, InHandler
<1> QED
  BY <1>1, <1>2, <1>3 DEF Continue

LEMMA RespondStep ==
    ASSUME TypeOK, NEW w \in Worker, NEW reply \in Reply, Respond(w, reply)
    PROVE  LET c == worker[w].client IN
           /\ worker' \in [Worker -> Thread] /\ session' \in [Client -> Session]
           /\ worker'[w] = Idle /\ \A v \in Worker \ {w} : worker'[v] = worker[v]
           /\ c \in Client
           /\ session'[c] = [session[c] EXCEPT !.stage = "writing", !.reply = reply]
           /\ \A d \in Client \ {c} : session'[d] = session[d]
<1> DEFINE c == worker[w].client
<1>1. worker \in [Worker -> Thread] /\ session \in [Client -> Session]
  BY DEF TypeOK
<1>2. c \in Client
  BY <1>1 DEF Thread
<1>3. session' = [session EXCEPT ![c] = [session[c] EXCEPT !.stage = "writing", !.reply = reply]]
  BY <1>1, <1>2 DEF Respond, Session
<1>4. [session[c] EXCEPT !.stage = "writing", !.reply = reply] \in Session
  BY <1>1, <1>2 DEF Session, Stage
<1>5. /\ worker' \in [Worker -> Thread]
      /\ worker'[w] = Idle /\ \A v \in Worker \ {w} : worker'[v] = worker[v]
  BY <1>1, IdleTyped DEF Respond
<1>6. /\ session' \in [Client -> Session]
      /\ session'[c] = [session[c] EXCEPT !.stage = "writing", !.reply = reply]
      /\ \A d \in Client \ {c} : session'[d] = session[d]
  BY <1>1, <1>2, <1>3, <1>4
<1> QED
  BY <1>2, <1>5, <1>6

\* The steps of a handler: it goes on, having learnt what HandlersKnow asks of it, or responds.
GoesOn(w, pc, reply) ==
    /\ worker[w].pc \in InHandler
    /\ pc \in {"replying", "naming", "using"}
    /\ reply \in Reply
    /\ Continue(w, pc, reply)
    /\ LET request == session[worker[w].client].request IN
       /\ worker[w].late => ~reply.ready
       /\ pc = "using" => request = "play" /\ (Connected \/ broken)
       /\ pc \in {"replying", "naming"} /\ request = "shutdown" => ShutdownBegun'
       /\ pc = "naming" /\ request = "shutdown" => reply.status = "draining"

Responds(w, reply) ==
    /\ worker[w].pc \in InHandler
    /\ reply \in Reply
    /\ Respond(w, reply)
    /\ session[worker[w].client].request = "shutdown" => ShutdownBegun /\ Tells(reply)

\* A handler's step, with what it leaves alone: only the shutdown request changes OpsService.
HandlerStep(w) ==
    /\ \/ \E pc \in InHandler, reply \in Reply : GoesOn(w, pc, reply)
       \/ \E reply \in Reply : Responds(w, reply)
    /\ UNCHANGED others
    /\ UNCHANGED ops \/ \E reason \in {"text", "unprintable"} : ops' = Begun(reason)

\* A running handler keeps the server from being stopped.
LEMMA BusyServer ==
    ASSUME ServerInv, NEW w \in Worker, worker[w].pc # "off"
    PROVE  main \notin QuietStage /\ ops.status # "stopped"
BY IdleTyped DEF ServerInv, Stages, QuietStage

LEMMA WorkersAreHandlers ==
    ASSUME ServerInv, NEW w \in Worker,
           WorkerStep(w), ~Leave(w), ~AcceptNext(w)
    PROVE  HandlerStep(w)
<1> USE SilentTyped
<1> DEFINE request == session[worker[w].client].request
<1>1. worker[w] \in Thread /\ worker[w].reply \in Reply /\ ops \in Ops
  BY DEF ServerInv, TypeOK, Thread
<1>2. worker[w].late => ShutdownBegun /\ ~worker[w].reply.ready
  BY DEF ServerInv, HandlersKnow
<1>3. IsReady \in BOOLEAN /\ (ShutdownBegun => ~IsReady)
  BY <1>1 DEF IsReady, ShutdownBegun, Ops
<1>4. ASSUME NEW pc \in InHandler, NEW reply \in Reply, GoesOn(w, pc, reply),
             UNCHANGED others,
             UNCHANGED ops \/ \E reason \in {"text", "unprintable"} : ops' = Begun(reason)
      PROVE  HandlerStep(w)
  BY <1>4 DEF HandlerStep
<1>5. ASSUME NEW reply \in Reply, Responds(w, reply),
             UNCHANGED <<others, ops>>
      PROVE  HandlerStep(w)
  BY <1>5 DEF HandlerStep
<1>6. CASE HandleReady(w)
  <2> DEFINE reply == [Silent EXCEPT !.ready = IsReady]
  <2>1. reply \in Reply /\ reply.ready = IsReady
    BY <1>3 DEF Reply
  <2>2. GoesOn(w, "replying", reply)
    BY <1>2, <1>3, <1>6, <2>1 DEF HandleReady, Handling, GoesOn, InHandler
  <2> QED
    BY <1>4, <1>6, <2>1, <2>2 DEF HandleReady, InHandler
<1>7. CASE HandleShutdown(w)
  <2>1. ShutdownBegun'
    BY <1>7 DEF HandleShutdown, Begun, ShutdownBegun
  <2>2. GoesOn(w, "replying", Silent)
    BY <1>7, <2>1 DEF HandleShutdown, Handling, GoesOn, InHandler, Silent
  <2> QED
    BY <1>4, <1>7, <2>2 DEF HandleShutdown, InHandler
<1>8. CASE HandleHealth(w)
  <2> DEFINE reply == [Silent EXCEPT !.ready = IsReady, !.status = ops.status]
  <2>1. reply \in Reply /\ reply.ready = IsReady
    BY <1>1, <1>3 DEF Reply, Ops
  <2>2. GoesOn(w, "naming", reply)
    BY <1>2, <1>3, <1>8, <2>1 DEF HandleHealth, Handling, GoesOn, InHandler
  <2> QED
    BY <1>4, <1>8, <2>1, <2>2 DEF HandleHealth, InHandler
<1>9. CASE ReplyStatus(w)
  <2> DEFINE reply == [worker[w].reply EXCEPT !.status = ops.status]
  <2>1. reply \in Reply /\ reply.ready = worker[w].reply.ready /\ reply.status = ops.status
    BY <1>1 DEF Reply, Ops
  <2>2. worker[w].pc = "replying"
    BY <1>9 DEF ReplyStatus
  <2>3. CASE request = "shutdown"
    <3>1. ShutdownBegun
      BY <2>2, <2>3 DEF ServerInv, HandlersKnow
    <3>2. ops.status = "draining"
      BY <2>2, <3>1, BusyServer DEF ShutdownBegun
    <3>3. GoesOn(w, "naming", reply)
      BY <1>2, <1>9, <2>1, <2>2, <2>3, <3>1, <3>2 DEF ReplyStatus, GoesOn, InHandler, ShutdownBegun
    <3> QED
      BY <1>4, <1>9, <2>1, <3>3 DEF ReplyStatus, InHandler
  <2>4. CASE request # "shutdown"
    <3>1. Responds(w, reply)
      BY <1>9, <2>1, <2>2, <2>4 DEF ReplyStatus, Responds, InHandler
    <3> QED
      BY <1>5, <1>9, <2>1, <3>1 DEF ReplyStatus
  <2> QED
    BY <2>3, <2>4
<1>10. CASE ReplyReason(w)
  <2> DEFINE named == [worker[w].reply EXCEPT !.reason = ops.reason]
             reply == IF ops.reason = "unprintable" THEN Failure ELSE named
  <2>1. named \in Reply /\ named.status = worker[w].reply.status /\ named.reason = ops.reason
    BY <1>1 DEF Reply, Ops
  <2>2. worker[w].pc = "naming" /\ request = "shutdown"
    BY <1>10 DEF ReplyReason
  <2>3. /\ worker[w].reply.status = "draining" /\ ShutdownBegun
        /\ ops.reason \in {"text", "unprintable"}
    BY <1>1, <2>2 DEF ServerInv, HandlersKnow, TypeOK, Ops, Reason
  <2>4. reply \in Reply /\ Tells(reply)
    BY <2>1, <2>3 DEF Tells
  <2>5. Respond(w, reply) /\ UNCHANGED <<others, ops>>
    BY <1>10 DEF ReplyReason
  <2> HIDE DEF reply
  <2>6. Responds(w, reply)
    BY <2>2, <2>3, <2>4, <2>5 DEF Responds, InHandler
  <2> QED
    BY <1>5, <2>4, <2>5, <2>6
<1>11. CASE ReplyHealth(w)
  <2> DEFINE reply == [worker[w].reply EXCEPT !.healthy = ~settings.enableStorage \/ Connected]
  <2>1. reply \in Reply
    BY <1>1 DEF Reply
  <2>2. Responds(w, reply)
    BY <1>11, <2>1 DEF ReplyHealth, Responds, InHandler
  <2> QED
    BY <1>5, <1>11, <2>1, <2>2 DEF ReplyHealth
<1>12. CASE HandlePlay(w)
  <2>1. CASE Connected
    <3>1. GoesOn(w, "using", Silent)
      BY <1>12, <2>1 DEF HandlePlay, Handling, GoesOn, InHandler, Silent
    <3> QED
      BY <1>4, <1>12, <3>1 DEF HandlePlay, InHandler
  <2>2. CASE ~Connected
    <3>1. Responds(w, Silent)
      BY <1>12, <2>2 DEF HandlePlay, Handling, Responds, InHandler
    <3> QED
      BY <1>5, <1>12, <3>1 DEF HandlePlay
  <2> QED
    BY <2>1, <2>2
<1>13. CASE UseStorage(w)
  <2>1. request = "play"
    BY <1>13 DEF UseStorage, ServerInv, HandlersKnow
  <2>2. Responds(w, Silent)
    BY <1>13, <2>1 DEF UseStorage, Responds, InHandler
  <2> QED
    BY <1>5, <1>13, <2>2 DEF UseStorage
<1>14. CASE HandlePlain(w)
  <2>1. Responds(w, Silent)
    BY <1>14 DEF HandlePlain, Handling, Responds, InHandler
  <2> QED
    BY <1>5, <1>14, <2>1 DEF HandlePlain
<1> QED
  BY <1>6, <1>7, <1>8, <1>9, <1>10, <1>11, <1>12, <1>13, <1>14 DEF WorkerStep

------------------------------------------------------------------------------
(* The invariant is inductive *)

\* A step of the main thread or of the database: no session moves, a shutdown is not taken back,
\* and a handler that uses the storage keeps it or knows whom to blame.
LEMMA HandlersStay ==
    ASSUME ServerInv, UNCHANGED <<session, worker>>,
           ShutdownBegun => ShutdownBegun',
           \A w \in Worker : worker[w].pc = "using" => (Connected \/ broken)'
    PROVE  HandlersOwnTheirSessions' /\ HandlersKnow' /\ ShutdownReplies'
<1>1. HandlersOwnTheirSessions'
  BY DEF ServerInv, HandlersOwnTheirSessions
<1>2. HandlersKnow'
  BY DEF ServerInv, HandlersKnow
<1>3. ShutdownReplies'
  BY DEF ServerInv, ShutdownReplies
<1> QED
  BY <1>1, <1>2, <1>3

\* Nobody uses anything while everybody is off.
LEMMA QuietIsIdle ==
    ASSUME ServerInv, main \in QuietStage
    PROVE  \A w \in Worker : worker[w].pc = "off"
BY IdleTyped DEF ServerInv, Stages

LEMMA MainSteps == ASSUME ServerInv, MainStep \/ Signal PROVE ServerInv'
<1> USE DEF server
<1>1. CASE LoadConfig
  <2>1. PICK file \in Storages, environmentUri \in BOOLEAN, commandUri \in BOOLEAN :
            settings' = FromLayers(file, environmentUri, commandUri)
    BY <1>1 DEF LoadConfig
  <2>2. settings' \in Settings
    BY <2>1, ConfigTyped DEF FromLayers, Settings
  <2>3. TypeOK'
    BY <1>1, <2>2 DEF LoadConfig, ServerInv, TypeOK, MainStage, ShutdownBegun
  <2>4. Stages'
    BY <1>1 DEF LoadConfig, ServerInv, Stages, ShutdownBegun, QuietStage
  <2>5. HandlersOwnTheirSessions' /\ HandlersKnow' /\ ShutdownReplies'
    BY <1>1, HandlersStay DEF LoadConfig, ServerInv, HandlersKnow, ShutdownBegun, Connected
  <2> QED
    BY <1>1, <2>3, <2>4, <2>5 DEF LoadConfig, ServerInv, AcceptLoopLives
<1>2. CASE LoadConfigFails
  <2>1. TypeOK' /\ Stages'
    BY <1>2 DEF LoadConfigFails, ServerInv, TypeOK, MainStage, Stages, QuietStage, ShutdownBegun
  <2>2. HandlersOwnTheirSessions' /\ HandlersKnow' /\ ShutdownReplies'
    BY <1>2, HandlersStay DEF LoadConfigFails, ServerInv, HandlersKnow, ShutdownBegun, Connected
  <2> QED
    BY <1>2, <2>1, <2>2 DEF LoadConfigFails, ServerInv, AcceptLoopLives
<1>3. CASE StartOps
  <2>1. ops.status = "starting" /\ ops \in Ops
    BY <1>3 DEF StartOps, ServerInv, Stages, TypeOK
  <2>2. ops' \in Ops /\ ops'.status = "running" /\ ops'.reason = ops.reason
    BY <1>3, <2>1 DEF StartOps, Ops, Status
  <2>3. TypeOK' /\ Stages'
    BY <1>3, <2>1, <2>2
       DEF StartOps, ServerInv, TypeOK, MainStage, Stages, QuietStage, ShutdownBegun
  <2>4. HandlersOwnTheirSessions' /\ HandlersKnow' /\ ShutdownReplies'
    BY <1>3, <2>1, HandlersStay DEF StartOps, ServerInv, HandlersKnow, ShutdownBegun, Connected
  <2> QED
    BY <1>3, <2>3, <2>4 DEF StartOps, ServerInv, AcceptLoopLives
<1>4. CASE ConnectStorage \/ ConnectStorageFails
  <2>1. main = "connect" /\ \A w \in Worker : worker[w].pc = "off"
    BY <1>4, QuietIsIdle DEF ConnectStorage, ConnectStorageFails, QuietStage
  <2>2. TypeOK'
    BY <1>4 DEF ConnectStorage, ConnectStorageFails, ServerInv, TypeOK, MainStage, ShutdownBegun
  <2>3. Stages'
    BY <1>4, <2>1 DEF ConnectStorage, ConnectStorageFails, ServerInv, TypeOK, Settings, Stages,
       QuietStage, ShutdownBegun
  <2>4. HandlersOwnTheirSessions' /\ HandlersKnow' /\ ShutdownReplies'
    BY <1>4, <2>1, HandlersStay DEF ConnectStorage, ConnectStorageFails, ShutdownBegun
  <2> QED
    BY <1>4, <2>2, <2>3, <2>4 DEF ConnectStorage, ConnectStorageFails, ServerInv, AcceptLoopLives
<1>5. CASE ListenFails
  <2>1. TypeOK' /\ Stages'
    BY <1>5 DEF ListenFails, ServerInv, TypeOK, MainStage, Stages, QuietStage, ShutdownBegun
  <2>2. HandlersOwnTheirSessions' /\ HandlersKnow' /\ ShutdownReplies'
    BY <1>5, HandlersStay DEF ListenFails, ServerInv, HandlersKnow, ShutdownBegun, Connected
  <2> QED
    BY <1>5, <2>1, <2>2 DEF ListenFails, ServerInv, AcceptLoopLives
<1>6. CASE Listen
  <2>1. worker' \in [Worker -> Thread] /\ \A w \in Worker : worker'[w] = Idle
    BY <1>6, IdleTyped DEF Listen
  <2>2. TypeOK'
    BY <1>6, <2>1 DEF Listen, ServerInv, TypeOK, MainStage, ShutdownBegun
  <2>3. Stages'
    BY <1>6 DEF Listen, ServerInv, Stages, QuietStage, ShutdownBegun
  <2>4. HandlersOwnTheirSessions' /\ HandlersKnow'
    BY <2>1, IdleTyped DEF HandlersOwnTheirSessions, HandlersKnow, InHandler
  <2> QED
    BY <1>6, <2>2, <2>3, <2>4 DEF Listen, ServerInv, ShutdownReplies, ShutdownBegun, AcceptLoopLives
<1>7. CASE SetReady
  <2>1. ops \in Ops
    BY DEF ServerInv, TypeOK
  <2>2. ops' \in Ops /\ ops'.status = ops.status /\ ops'.reason = ops.reason
    BY <1>7, <2>1 DEF SetReady, Ops
  <2>3. TypeOK' /\ Stages'
    BY <1>7, <2>2 DEF SetReady, ServerInv, TypeOK, MainStage, Stages, QuietStage, ShutdownBegun
  <2>4. HandlersOwnTheirSessions' /\ HandlersKnow' /\ ShutdownReplies'
    BY <1>7, <2>2, HandlersStay DEF SetReady, ServerInv, HandlersKnow, ShutdownBegun, Connected
  <2> QED
    BY <1>7, <2>3, <2>4 DEF SetReady, ServerInv, AcceptLoopLives
<1>8. CASE Signal
  <2>1. TypeOK' /\ Stages'
    BY <1>8 DEF Signal, ServerInv, TypeOK, MainStage, Stages, QuietStage, ShutdownBegun
  <2>2. HandlersOwnTheirSessions' /\ HandlersKnow' /\ ShutdownReplies'
    BY <1>8, HandlersStay DEF Signal, ServerInv, HandlersKnow, ShutdownBegun, Connected
  <2> QED
    BY <1>8, <2>1, <2>2 DEF Signal, ServerInv, AcceptLoopLives
<1>9. CASE BeginShutdown
  <2>1. ops \in Ops /\ ops.status # "stopped"
    BY <1>9 DEF BeginShutdown, ServerInv, TypeOK, Stages
  <2>2. ops' = [status |-> "draining", ready |-> FALSE, reason |-> "text"]
    BY <1>9, <2>1 DEF BeginShutdown, Begun
  <2>3. TypeOK' /\ Stages'
    <3>1. ops' \in Ops /\ ops'.reason = "text" /\ ops'.status = "draining"
      BY <2>2 DEF Ops, Status, Reason
    <3>2. TypeOK'
      BY <1>9, <3>1 DEF BeginShutdown, ServerInv, TypeOK, MainStage, ShutdownBegun
    <3>3. Stages'
      BY <1>9, <3>1 DEF BeginShutdown, ServerInv, Stages, QuietStage, ShutdownBegun
    <3> QED
      BY <3>2, <3>3
  <2>4. HandlersOwnTheirSessions' /\ HandlersKnow' /\ ShutdownReplies'
    BY <1>9, <2>2, HandlersStay DEF BeginShutdown, ServerInv, HandlersKnow, ShutdownBegun, Connected
  <2> QED
    BY <1>9, <2>3, <2>4 DEF BeginShutdown, ServerInv, AcceptLoopLives
<1>10. CASE StopListening \/ CloseHttp
  <2>1. TypeOK' /\ Stages'
    <3>1. accept' \in {"none", "waiting", "accepted", "failed"}
      BY <1>10 DEF StopListening, CloseHttp, ServerInv, TypeOK
    <3>2. TypeOK'
      BY <1>10, <3>1
         DEF StopListening, CloseHttp, ServerInv, TypeOK, MainStage, ShutdownBegun
    <3>3. Stages'
      BY <1>10 DEF StopListening, CloseHttp, ServerInv, Stages, QuietStage, ShutdownBegun
    <3> QED
      BY <3>2, <3>3
  <2>2. HandlersOwnTheirSessions' /\ HandlersKnow' /\ ShutdownReplies'
    BY <1>10, HandlersStay
       DEF StopListening, CloseHttp, ServerInv, HandlersKnow, ShutdownBegun, Connected
  <2> QED
    BY <1>10, <2>1, <2>2 DEF StopListening, CloseHttp, ServerInv, Stages, AcceptLoopLives
<1>11. CASE Join
  <2>1. TypeOK' /\ Stages'
    BY <1>11 DEF Join, ServerInv, TypeOK, MainStage, Stages, QuietStage, ShutdownBegun
  <2>2. HandlersOwnTheirSessions' /\ HandlersKnow' /\ ShutdownReplies'
    BY <1>11, HandlersStay DEF Join, ServerInv, HandlersKnow, ShutdownBegun, Connected
  <2> QED
    BY <1>11, <2>1, <2>2 DEF Join, ServerInv, AcceptLoopLives
<1>12. CASE CompleteShutdown
  <2>1. ops \in Ops /\ ShutdownBegun
    BY <1>12 DEF CompleteShutdown, ServerInv, TypeOK, Stages
  <2>2. ops' \in Ops /\ ops'.status = "stopped" /\ ops'.reason = ops.reason
    BY <1>12, <2>1 DEF CompleteShutdown, Ops, Status
  <2>3. TypeOK' /\ Stages'
    BY <1>12, <2>1, <2>2
       DEF CompleteShutdown, ServerInv, TypeOK, MainStage, Stages, QuietStage, ShutdownBegun
  <2>4. HandlersOwnTheirSessions' /\ HandlersKnow' /\ ShutdownReplies'
    BY <1>12, <2>2, HandlersStay
       DEF CompleteShutdown, ServerInv, HandlersKnow, ShutdownBegun, Connected
  <2> QED
    BY <1>12, <2>3, <2>4 DEF CompleteShutdown, ServerInv, AcceptLoopLives
<1>13. CASE Disconnect
  <2>1. \A w \in Worker : worker[w].pc = "off"
    BY <1>13, QuietIsIdle DEF Disconnect, QuietStage
  <2>2. TypeOK' /\ Stages'
    BY <1>13 DEF Disconnect, ServerInv, TypeOK, MainStage, Stages, QuietStage, ShutdownBegun
  <2>3. HandlersOwnTheirSessions' /\ HandlersKnow' /\ ShutdownReplies'
    BY <1>13, <2>1, HandlersStay DEF Disconnect, ShutdownBegun
  <2> QED
    BY <1>13, <2>2, <2>3 DEF Disconnect, ServerInv, AcceptLoopLives
<1> QED
  BY <1>1, <1>2, <1>3, <1>4, <1>5, <1>6, <1>7, <1>8, <1>9, <1>10, <1>11, <1>12, <1>13 DEF MainStep

\* A step that moves sessions which no handler owns, and no worker, keeps what the handlers know.
LEMMA SessionsMove ==
    ASSUME ServerInv, session' \in [Client -> Session],
           UNCHANGED <<main, settings, ops, connection, broken, worker>>,
           \A c \in Client : session[c].stage = "handling" => session'[c] = session[c],
           \A c \in Client : session'[c].stage = "writing" => session'[c] = session[c]
    PROVE  HandlersOwnTheirSessions' /\ HandlersKnow' /\ ShutdownReplies'
<1>1. \A w \in Worker : worker[w].client \in Client
  BY DEF ServerInv, TypeOK, Thread
<1>2. \A w \in Worker : worker[w].pc \in InHandler =>
        session'[worker[w].client] = session[worker[w].client]
  BY <1>1 DEF ServerInv, HandlersOwnTheirSessions
<1>3. HandlersOwnTheirSessions'
  BY <1>2 DEF ServerInv, HandlersOwnTheirSessions
<1>4. HandlersKnow'
  BY <1>2 DEF ServerInv, HandlersKnow, InHandler, ShutdownBegun, Connected
<1>5. ShutdownReplies'
  BY DEF ServerInv, ShutdownReplies, ShutdownBegun
<1> QED
  BY <1>3, <1>4, <1>5

\* What leaves the main thread and OpsService alone, and keeps everybody off who was off.
LEMMA StagesStay ==
    ASSUME ServerInv, UNCHANGED <<main, settings, ops, listening>>,
           connection' = connection \/ broken', broken => broken',
           \A w \in Worker : worker[w] = Off => worker'[w] = Off
    PROVE  Stages'
BY DEF ServerInv, Stages, ShutdownBegun

LEMMA OutsideSteps ==
    ASSUME ServerInv,
           \/ \E result \in {"accepted", "failed"} : AcceptCompletes(result)
           \/ \E c \in Client, request \in Request : RequestArrives(c, request)
           \/ \E c \in Client : ReadFails(c)
           \/ \E c \in Client, result \in {"written", "failed"} : WriteCompletes(c, result)
           \/ ConnectionBreaks
    PROVE  ServerInv'
<1>0. session \in [Client -> Session]
  BY DEF ServerInv, TypeOK
<1>1. ASSUME NEW result \in {"accepted", "failed"}, AcceptCompletes(result) PROVE ServerInv'
  <2>1. TypeOK' /\ Stages'
    BY <1>1, StagesStay DEF AcceptCompletes, ServerInv, TypeOK, ShutdownBegun
  <2>2. HandlersOwnTheirSessions' /\ HandlersKnow' /\ ShutdownReplies'
    BY <1>0, <1>1, SessionsMove DEF AcceptCompletes
  <2> QED
    BY <1>1, <2>1, <2>2 DEF AcceptCompletes, ServerInv, AcceptLoopLives
<1>2. ASSUME NEW c \in Client, NEW request \in Request, RequestArrives(c, request) PROVE ServerInv'
  <2>1. session' \in [Client -> Session] /\ session'[c].stage = "read"
        /\ session[c].stage = "reading" /\ \A d \in Client \ {c} : session'[d] = session[d]
    BY <1>0, <1>2 DEF RequestArrives, Session, Stage
  <2>2. requests' \in 0..MaxRequests
    BY <1>2, ConfigTyped DEF RequestArrives, ServerInv, TypeOK
  <2>3. TypeOK' /\ Stages'
    BY <1>2, <2>1, <2>2, StagesStay DEF RequestArrives, ServerInv, TypeOK, ShutdownBegun
  <2>4. HandlersOwnTheirSessions' /\ HandlersKnow' /\ ShutdownReplies'
    BY <1>2, <2>1, SessionsMove DEF RequestArrives
  <2> QED
    BY <1>2, <2>3, <2>4 DEF RequestArrives, ServerInv, AcceptLoopLives
<1>3. ASSUME NEW c \in Client, ReadFails(c) PROVE ServerInv'
  <2>1. session' \in [Client -> Session] /\ session'[c].stage = "failed"
        /\ session[c].stage = "reading" /\ \A d \in Client \ {c} : session'[d] = session[d]
    BY <1>0, <1>3 DEF ReadFails, Session, Stage
  <2>2. TypeOK' /\ Stages'
    BY <1>3, <2>1, StagesStay DEF ReadFails, others, ServerInv, TypeOK, ShutdownBegun
  <2>3. HandlersOwnTheirSessions' /\ HandlersKnow' /\ ShutdownReplies'
    BY <1>3, <2>1, SessionsMove DEF ReadFails, others
  <2> QED
    BY <1>3, <2>2, <2>3 DEF ReadFails, others, ServerInv, AcceptLoopLives
<1>4. ASSUME NEW c \in Client, NEW result \in {"written", "failed"}, WriteCompletes(c, result)
      PROVE  ServerInv'
  <2>1. [Fresh EXCEPT !.stage = result] \in Session
    BY FreshTyped DEF Session, Stage
  <2>2. session' \in [Client -> Session] /\ session'[c].stage = result
        /\ session[c].stage = "writing" /\ \A d \in Client \ {c} : session'[d] = session[d]
    BY <1>0, <1>4, <2>1, FreshTyped DEF WriteCompletes, Session
  <2>3. TypeOK' /\ Stages'
    BY <1>4, <2>2, StagesStay DEF WriteCompletes, others, ServerInv, TypeOK, ShutdownBegun
  <2>4. HandlersOwnTheirSessions' /\ HandlersKnow' /\ ShutdownReplies'
    BY <1>4, <2>2, SessionsMove DEF WriteCompletes, others
  <2> QED
    BY <1>4, <2>3, <2>4 DEF WriteCompletes, others, ServerInv, AcceptLoopLives
<1>5. CASE ConnectionBreaks
  <2>1. TypeOK' /\ Stages'
    BY <1>5, StagesStay DEF ConnectionBreaks, server, ServerInv, TypeOK, ShutdownBegun
  <2>2. HandlersOwnTheirSessions' /\ HandlersKnow' /\ ShutdownReplies'
    BY <1>5, HandlersStay DEF ConnectionBreaks, server, ShutdownBegun
  <2> QED
    BY <1>5, <2>1, <2>2 DEF ConnectionBreaks, server, ServerInv, AcceptLoopLives
<1> QED
  BY <1>1, <1>2, <1>3, <1>4, <1>5

\* A worker that is no handler before the step and none after it.
LEMMA WorkerAside ==
    ASSUME ServerInv, NEW w \in Worker, NEW t \in Thread,
           worker[w].pc \notin InHandler, t.pc \notin InHandler,
           t.late => ShutdownBegun /\ ~t.reply.ready,
           worker' = [worker EXCEPT ![w] = t],
           session' \in [Client -> Session],
           UNCHANGED <<main, settings, ops, connection, broken>>,
           \A c \in Client : session[c].stage = "handling" => session'[c] = session[c],
           \A c \in Client : session'[c].stage = "writing" => session'[c] = session[c]
    PROVE  /\ worker' \in [Worker -> Thread]
           /\ HandlersOwnTheirSessions' /\ HandlersKnow' /\ ShutdownReplies'
<1>1. worker \in [Worker -> Thread] /\ \A v \in Worker : worker[v].client \in Client
  BY DEF ServerInv, TypeOK, Thread
<1>2. worker' \in [Worker -> Thread] /\ worker'[w] = t /\ \A v \in Worker \ {w} : worker'[v] = worker[v]
  BY <1>1
<1>3. \A v \in Worker : worker[v].pc \in InHandler =>
        session'[worker[v].client] = session[worker[v].client]
  BY <1>1 DEF ServerInv, HandlersOwnTheirSessions
<1>4. HandlersOwnTheirSessions'
  BY <1>2, <1>3 DEF ServerInv, HandlersOwnTheirSessions
<1>5. HandlersKnow'
  BY <1>2, <1>3 DEF ServerInv, HandlersKnow, InHandler, ShutdownBegun, Connected
<1>6. ShutdownReplies'
  BY DEF ServerInv, ShutdownReplies, ShutdownBegun
<1> QED
  BY <1>2, <1>4, <1>5, <1>6

LEMMA TakeAcceptStep == ASSUME ServerInv, NEW w \in Worker, TakeAccept(w) PROVE ServerInv'
<1> DEFINE t == IF listening THEN [worker[w] EXCEPT !.pc = "accepting"] ELSE worker[w]
<1>1. worker \in [Worker -> Thread] /\ session \in [Client -> Session] /\ worker[w].pc = "idle"
  BY DEF TakeAccept, Free, ServerInv, TypeOK
<1>2. t \in Thread /\ t.pc \in {"idle", "accepting"} /\ t.late = worker[w].late
      /\ t.reply = worker[w].reply /\ (listening => t.pc = "accepting")
  BY <1>1 DEF Thread
<1>3. worker' = [worker EXCEPT ![w] = t]
  BY <1>1 DEF TakeAccept
<1>4. PICK c \in Client :
        /\ accept = "accepted" => session[c].stage = "unused"
        /\ session' = IF listening /\ accept = "accepted"
                      THEN [session EXCEPT ![c].stage = "reading"] ELSE session
  BY DEF TakeAccept
<1>5. /\ session' \in [Client -> Session]
      /\ \A d \in Client : session'[d] = session[d]
            \/ (session[d].stage = "unused" /\ session'[d].stage = "reading")
  BY <1>1, <1>4 DEF Session, Stage
<1>6. worker' \in [Worker -> Thread]
      /\ HandlersOwnTheirSessions' /\ HandlersKnow' /\ ShutdownReplies'
  <2>1. t.late => ShutdownBegun /\ ~t.reply.ready
    BY <1>2 DEF ServerInv, HandlersKnow
  <2>2. worker[w].pc \notin InHandler /\ t.pc \notin InHandler
    BY <1>1, <1>2 DEF InHandler
  <2>3. UNCHANGED <<main, settings, ops, connection, broken>>
    BY DEF TakeAccept
  <2>4. \A d \in Client : /\ session[d].stage = "handling" => session'[d] = session[d]
                          /\ session'[d].stage = "writing" => session'[d] = session[d]
    BY <1>5
  <2> HIDE DEF t
  <2> QED
    BY <1>2, <1>3, <1>5, <2>1, <2>2, <2>3, <2>4, WorkerAside
<1>7. TypeOK'
  BY <1>5, <1>6 DEF TakeAccept, ServerInv, TypeOK, ShutdownBegun
<1>8. Stages'
  <2>1. \A v \in Worker : worker[v] = Off => worker'[v] = Off
    BY <1>1, <1>3, IdleTyped
  <2> QED
    BY <2>1, StagesStay DEF TakeAccept
<1>9. AcceptLoopLives'
  BY <1>1, <1>2, <1>3 DEF TakeAccept, AcceptLoopLives
<1> QED
  BY <1>6, <1>7, <1>8, <1>9 DEF ServerInv

LEMMA AcceptNextStep == ASSUME ServerInv, NEW w \in Worker, AcceptNext(w) PROVE ServerInv'
<1>1. worker \in [Worker -> Thread] /\ session \in [Client -> Session]
      /\ worker[w].pc = "accepting" /\ worker' = [worker EXCEPT ![w] = Idle]
  BY DEF AcceptNext, ServerInv, TypeOK
<1>2. worker' \in [Worker -> Thread]
      /\ HandlersOwnTheirSessions' /\ HandlersKnow' /\ ShutdownReplies'
  BY <1>1, WorkerAside, IdleTyped DEF AcceptNext, InHandler
<1>3. TypeOK'
  BY <1>2 DEF AcceptNext, ServerInv, TypeOK, ShutdownBegun
<1>4. Stages'
  BY <1>1, StagesStay, IdleTyped DEF AcceptNext
<1>5. AcceptLoopLives'
  BY DEF AcceptNext, AcceptLoopLives
<1> QED
  BY <1>2, <1>3, <1>4, <1>5 DEF ServerInv

LEMMA LeaveStep == ASSUME ServerInv, NEW w \in Worker, Leave(w) PROVE ServerInv'
<1>1. worker \in [Worker -> Thread] /\ session \in [Client -> Session]
      /\ worker[w].pc = "idle" /\ worker' = [worker EXCEPT ![w] = Off]
  BY DEF Leave, ServerInv, TypeOK
<1>2. worker' \in [Worker -> Thread]
      /\ HandlersOwnTheirSessions' /\ HandlersKnow' /\ ShutdownReplies'
  BY <1>1, WorkerAside, IdleTyped DEF Leave, others, InHandler
<1>3. TypeOK'
  BY <1>2 DEF Leave, others, ServerInv, TypeOK, ShutdownBegun
<1>4. Stages'
  BY <1>1, StagesStay, IdleTyped DEF Leave, others
<1>5. AcceptLoopLives'
  BY <1>1 DEF Leave, others, ServerInv, AcceptLoopLives
<1> QED
  BY <1>2, <1>3, <1>4, <1>5 DEF ServerInv

LEMMA TakeEndStep ==
    ASSUME ServerInv, NEW w \in Worker, NEW c \in Client, TakeEnd(w, c) PROVE ServerInv'
<1>1. session \in [Client -> Session]
  BY DEF ServerInv, TypeOK
<1>2. PICK next \in {"reading", "closed"} : session' = [session EXCEPT ![c].stage = next]
  BY DEF TakeEnd
<1>3. session' \in [Client -> Session] /\ session'[c].stage = next
      /\ \A d \in Client \ {c} : session'[d] = session[d]
  BY <1>1, <1>2 DEF Session, Stage
<1>4. HandlersOwnTheirSessions' /\ HandlersKnow' /\ ShutdownReplies'
  BY <1>3, SessionsMove DEF TakeEnd, others
<1>5. TypeOK' /\ Stages'
  BY <1>3, StagesStay DEF TakeEnd, others, ServerInv, TypeOK, ShutdownBegun
<1> QED
  BY <1>4, <1>5 DEF TakeEnd, others, ServerInv, AcceptLoopLives

\* The request that a worker takes is nobody else's, as its session is not being handled.
LEMMA TakeRequestStep ==
    ASSUME ServerInv, NEW w \in Worker, NEW c \in Client, TakeRequest(w, c) PROVE ServerInv'
<1> DEFINE t == [Idle EXCEPT !.pc = "handling", !.client = c, !.late = ShutdownBegun]
<1>1. worker \in [Worker -> Thread] /\ session \in [Client -> Session]
      /\ \A v \in Worker : worker[v].client \in Client
  BY DEF ServerInv, TypeOK, Thread
<1>2. t \in Thread /\ t.pc = "handling" /\ t.client = c /\ t.late = ShutdownBegun
      /\ ~t.reply.ready
  <2>1. ShutdownBegun \in BOOLEAN
    BY DEF ShutdownBegun
  <2>2. ~Idle.reply.ready
    BY DEF Idle, Silent
  <2> QED
    BY <2>1, <2>2, IdleTyped DEF Thread
<1>3. worker' = [worker EXCEPT ![w] = t] /\ worker[w].pc = "idle" /\ session[c].stage = "read"
  BY DEF TakeRequest, Free
<1> HIDE DEF t
<1>4. worker' \in [Worker -> Thread] /\ worker'[w] = t
      /\ \A v \in Worker \ {w} : worker'[v] = worker[v]
  BY <1>1, <1>2, <1>3
<1>5. session' \in [Client -> Session] /\ session'[c].stage = "handling"
      /\ \A d \in Client \ {c} : session'[d] = session[d]
  BY <1>1 DEF TakeRequest, Session, Stage
<1>6. \A v \in Worker \ {w} : worker[v].pc \in InHandler =>
        worker[v].client # c /\ session'[worker[v].client] = session[worker[v].client]
  BY <1>1, <1>3, <1>5 DEF ServerInv, HandlersOwnTheirSessions
<1>7. HandlersOwnTheirSessions'
  BY <1>2, <1>4, <1>5, <1>6 DEF ServerInv, HandlersOwnTheirSessions
<1>8. HandlersKnow'
  <2>1. UNCHANGED <<ops, connection, broken>>
    BY DEF TakeRequest, others
  <2>2. ASSUME NEW v \in Worker \ {w}, worker[v].pc \in InHandler
        PROVE  session'[worker'[v].client].request = session[worker[v].client].request
    BY <1>4, <1>6, <2>2
  <2>3. worker'[w].pc = "handling" /\ worker'[w].late = ShutdownBegun /\ ~worker'[w].reply.ready
    BY <1>2, <1>4
  <2> QED
    BY <1>4, <2>1, <2>2, <2>3, ZenonT(30)
       DEF ServerInv, HandlersKnow, InHandler, ShutdownBegun, Connected
<1>9. ShutdownReplies'
  BY <1>5 DEF TakeRequest, others, ServerInv, ShutdownReplies, ShutdownBegun
<1>10. TypeOK'
  BY <1>4, <1>5 DEF TakeRequest, others, ServerInv, TypeOK, ShutdownBegun
<1>11. Stages'
  BY <1>3, <1>4, StagesStay, IdleTyped DEF TakeRequest, others
<1>12. AcceptLoopLives'
  BY <1>3, <1>4 DEF TakeRequest, others, ServerInv, AcceptLoopLives
<1> QED
  BY <1>7, <1>8, <1>9, <1>10, <1>11, <1>12 DEF ServerInv

LEMMA HandlerStepInv == ASSUME ServerInv, NEW w \in Worker, HandlerStep(w) PROVE ServerInv'
<1> DEFINE c == worker[w].client
<1>0. UNCHANGED <<main, settings, connection, broken, listening, stopped, accept, requests>>
  BY DEF HandlerStep, others
<1>1. TypeOK /\ worker \in [Worker -> Thread] /\ session \in [Client -> Session]
      /\ \A v \in Worker : worker[v].client \in Client
  BY DEF ServerInv, TypeOK, Thread
<1>2. worker[w].pc \in InHandler
  BY DEF HandlerStep, GoesOn, Responds
<1>3. main \notin QuietStage /\ ops.status # "stopped"
  BY <1>2, BusyServer DEF InHandler
<1>4. /\ ops' \in Ops /\ (ops'.reason # "none" <=> ShutdownBegun') /\ ops'.status # "stopped"
      /\ ShutdownBegun => ShutdownBegun'
  <2>1. CASE UNCHANGED ops
    BY <1>1, <1>3, <2>1 DEF TypeOK, ShutdownBegun
  <2>2. ASSUME NEW reason \in {"text", "unprintable"}, ops' = Begun(reason)
        PROVE  /\ ops' \in Ops /\ (ops'.reason # "none" <=> ShutdownBegun')
               /\ ops'.status # "stopped" /\ (ShutdownBegun => ShutdownBegun')
    <3>1. ops' = [status |-> "draining", ready |-> FALSE, reason |-> reason]
      BY <1>3, <2>2 DEF Begun
    <3>2. ops' \in Ops /\ ops'.status = "draining" /\ ops'.reason = reason
      BY <3>1 DEF Ops, Status, Reason
    <3> QED
      BY <3>2 DEF ShutdownBegun
  <2> QED
    BY <2>1, <2>2 DEF HandlerStep
<1>5. Stages'
  BY <1>0, <1>3, <1>4 DEF ServerInv, Stages, QuietStage
<1>6. \A v \in Worker : v # w /\ worker[v].pc \in InHandler => worker[v].client # c
  BY <1>2 DEF ServerInv, HandlersOwnTheirSessions
<1>7. ASSUME NEW pc \in InHandler, NEW reply \in Reply, GoesOn(w, pc, reply) PROVE ServerInv'
  <2>1. /\ worker' \in [Worker -> Thread]
        /\ worker'[w] = [worker[w] EXCEPT !.pc = pc, !.reply = reply]
        /\ \A v \in Worker \ {w} : worker'[v] = worker[v]
        /\ session' = session
    BY <1>1, <1>7, ContinueStep DEF GoesOn
  <2>2. worker'[w].pc = pc /\ worker'[w].reply = reply /\ worker'[w].client = c
        /\ worker'[w].late = worker[w].late
    BY <1>1, <2>1 DEF Thread
  <2>3. TypeOK'
    BY <1>0, <1>1, <1>4, <2>1 DEF TypeOK
  <2>4. HandlersOwnTheirSessions'
    <3>1. ASSUME NEW v \in Worker
          PROVE  /\ worker'[v].client = worker[v].client
                 /\ worker'[v].pc \in InHandler => worker[v].pc \in InHandler
      BY <1>2, <2>1, <2>2
    <3>2. ASSUME NEW u \in Worker, worker'[u].pc \in InHandler
          PROVE  /\ session'[worker'[u].client].stage = "handling"
                 /\ \A v \in Worker : worker'[v].pc \in InHandler
                        /\ worker'[v].client = worker'[u].client => v = u
      <4>1. worker[u].pc \in InHandler
        BY <3>1, <3>2
      <4>2. /\ session[worker[u].client].stage = "handling"
            /\ \A v \in Worker : worker[v].pc \in InHandler
                        /\ worker[v].client = worker[u].client => v = u
        BY <4>1 DEF ServerInv, HandlersOwnTheirSessions
      <4> QED
        BY <2>1, <3>1, <4>2
    <3> QED
      BY <3>2 DEF HandlersOwnTheirSessions
  <2>5. HandlersKnow'
    <3>1. ASSUME NEW v \in Worker \ {w}
          PROVE  LET request == session'[worker'[v].client].request IN
                 /\ worker'[v].late => ShutdownBegun' /\ ~worker'[v].reply.ready
                 /\ worker'[v].pc = "using" => request = "play" /\ (Connected \/ broken)'
                 /\ worker'[v].pc \in {"replying", "naming"} /\ request = "shutdown"
                        => ShutdownBegun'
                 /\ worker'[v].pc = "naming" /\ request = "shutdown"
                        => worker'[v].reply.status = "draining"
      BY <1>0, <1>4, <2>1 DEF ServerInv, HandlersKnow, Connected
    <3>2. worker[w].late => ShutdownBegun
      BY DEF ServerInv, HandlersKnow
    <3>3. LET request == session'[worker'[w].client].request IN
          /\ worker'[w].late => ShutdownBegun' /\ ~worker'[w].reply.ready
          /\ worker'[w].pc = "using" => request = "play" /\ (Connected \/ broken)'
          /\ worker'[w].pc \in {"replying", "naming"} /\ request = "shutdown"
                 => ShutdownBegun'
          /\ worker'[w].pc = "naming" /\ request = "shutdown"
                 => worker'[w].reply.status = "draining"
      BY <1>0, <1>4, <1>7, <2>1, <2>2, <3>2 DEF GoesOn, Connected
    <3> QED
      BY <3>1, <3>3 DEF HandlersKnow
  <2>6. ShutdownReplies'
    BY <1>4, <2>1 DEF ServerInv, ShutdownReplies
  <2>7. AcceptLoopLives'
    BY <1>0, <1>2, <2>1 DEF ServerInv, AcceptLoopLives, InHandler
  <2> QED
    BY <1>5, <2>3, <2>4, <2>5, <2>6, <2>7 DEF ServerInv
<1>8. ASSUME NEW reply \in Reply, Responds(w, reply) PROVE ServerInv'
  <2>1. /\ worker' \in [Worker -> Thread] /\ session' \in [Client -> Session]
        /\ worker'[w] = Idle /\ \A v \in Worker \ {w} : worker'[v] = worker[v]
        /\ c \in Client
        /\ session'[c] = [session[c] EXCEPT !.stage = "writing", !.reply = reply]
        /\ \A d \in Client \ {c} : session'[d] = session[d]
    BY <1>1, <1>8, RespondStep DEF Responds
  <2>2. session'[c].request = session[c].request /\ session'[c].reply = reply
    BY <1>1, <2>1 DEF Session
  <2>3. TypeOK'
    BY <1>0, <1>1, <1>4, <2>1 DEF TypeOK
  <2>4. \A v \in Worker \ {w} : worker[v].pc \in InHandler =>
            session'[worker[v].client] = session[worker[v].client]
    BY <1>1, <1>6, <2>1
  <2>5. HandlersOwnTheirSessions'
    BY <2>1, <2>4, IdleTyped DEF ServerInv, HandlersOwnTheirSessions, InHandler
  <2>6. HandlersKnow'
    BY <1>0, <1>4, <2>1, <2>4, IdleTyped DEF ServerInv, HandlersKnow, InHandler, Connected
  <2>7. ShutdownReplies'
    <3>1. session[c].request = "shutdown" => ShutdownBegun' /\ Tells(reply)
      BY <1>4, <1>8 DEF Responds
    <3>2. \A d \in Client \ {c} : session[d].stage = "writing" /\ session[d].request = "shutdown" =>
            ShutdownBegun' /\ Tells(session[d].reply)
      BY <1>4 DEF ServerInv, ShutdownReplies
    <3>3. ASSUME NEW d \in Client, session'[d].stage = "writing", session'[d].request = "shutdown"
          PROVE  ShutdownBegun' /\ Tells(session'[d].reply)
      <4>1. CASE d = c
        BY <2>2, <3>1, <3>3, <4>1
      <4>2. CASE d # c
        BY <2>1, <3>2, <3>3, <4>2
      <4> QED
        BY <4>1, <4>2
    <3> QED
      BY <3>3 DEF ShutdownReplies
  <2>8. AcceptLoopLives'
    BY <1>0, <1>2, <2>1 DEF ServerInv, AcceptLoopLives, InHandler
  <2> QED
    BY <1>5, <2>3, <2>5, <2>6, <2>7, <2>8 DEF ServerInv
<1> QED
  BY <1>7, <1>8 DEF HandlerStep

LEMMA InvStep == ServerInv /\ [Next]_vars => ServerInv'
<1> SUFFICES ASSUME ServerInv, [Next]_vars PROVE ServerInv'
  OBVIOUS
<1>1. CASE MainStep \/ Signal
  BY <1>1, MainSteps
<1>2. ASSUME NEW w \in Worker, WorkerStep(w) PROVE ServerInv'
  BY <1>2, LeaveStep, AcceptNextStep, WorkersAreHandlers, HandlerStepInv
<1>3. CASE UNCHANGED vars
  <2>1. UNCHANGED <<main, settings, ops, connection, broken, listening, stopped, accept, session,
                    requests, worker>>
    BY <1>3 DEF vars
  <2>2. HandlersOwnTheirSessions' /\ HandlersKnow' /\ ShutdownReplies'
    BY <2>1, HandlersStay DEF ServerInv, HandlersKnow, ShutdownBegun, Connected
  <2> QED
    BY <2>1, <2>2, StagesStay DEF ServerInv, TypeOK, ShutdownBegun, AcceptLoopLives
<1> QED
  BY <1>1, <1>2, <1>3, OutsideSteps, TakeAcceptStep, TakeRequestStep, TakeEndStep DEF Next

LEMMA Invariance == Spec => []ServerInv
BY InitInv, InvStep, PTL DEF Spec

------------------------------------------------------------------------------
(* The theorems *)

\* The shape of the state; OpsService has a reason exactly once a shutdown has begun.
THEOREM TypeCorrect == Spec => []TypeOK
<1>1. ServerInv => TypeOK
  BY DEF ServerInv
<1> QED
  BY <1>1, Invariance, PTL

\* stop() takes nothing from under a handler, whatever the number of threads: a thread that found
\* storage connected loses it to the database only, no thread outlives Join, and a server that
\* must have storage serves with it.
THEOREM StorageOutlivesHandlers == Spec => []HandlersKeepTheirStorage
<1>1. ServerInv => HandlersKeepTheirStorage
  BY DEF ServerInv, Stages, HandlersKnow, QuietStage, HandlersKeepTheirStorage
<1> QED
  BY <1>1, Invariance, PTL

\* The admin interface tells of the shutdown that goes on, however many threads read OpsService
\* field by field meanwhile: nothing is ready after it, and the answers to shutdown requests name
\* its state and a reason wherever the reason can be printed.
THEOREM RepliesAreTrue == Spec => []RepliesTellOfShutdown
<1>1. ServerInv => RepliesTellOfShutdown
  BY DEF ServerInv, HandlersKnow, ShutdownReplies, Tells, RepliesTellOfShutdown
<1> QED
  BY <1>1, Invariance, PTL

\* As long as it listens, the server has an accept outstanding or about to be made.
THEOREM ListeningAccepts == Spec => []AcceptLoopLives
<1>1. ServerInv => AcceptLoopLives
  BY DEF ServerInv
<1> QED
  BY <1>1, Invariance, PTL
==============================================================================
