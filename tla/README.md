# RedCultureService in TLA+

RedCultureService is the C++ backend of a "red culture" education game: players
register and log in, meet in rooms, and answer questions that an AI asks them
about cultural scenes, with the explanation read aloud. This directory holds
TLA+ modules for the services that keep state, TLC configurations that check
them on small instances, and theorems about each of the nine modules of services that
TLAPS proves for every value of the constants.

To check a configuration or a proof:

    tlc -config MCRoomMatch_anyorder.cfg MCRoomMatch
    tlapm RoomMatch_proofs.tla

`PROJECT.json` lists the components, the runs, the source lines every
definition stands for (`map`), a mutation of the code for every property, the
hazards and the theorems.

## 1. Inventory

The services are classes in `src/src`, each with one mutex, and know nothing of
each other except where the table says so. `src/app/redculture_server` wires
them together behind an HTTP API that a pool of worker threads serves. The
server is passive: it has no thread that calls `tick()`, `sweepExpiredSessions()`,
`clearExpiredCache()` or `poll()`; the AI and speech services are ticked only
from inside a request, and `StateSyncService` and `NetworkGateway`
are libraries that the examples use and the server does not yet; of the
hot-reload service it calls `load()` once. Their models therefore take callers of any method in any order.

| component | state | operations | hard behaviour | what makes it correct |
|---|---|---|---|---|
| room | rooms with members, ready flags and state; queue of match tickets; ticket index | create, join, leave, close, ready, enqueue, cancel, tick | queue and index are two copies of one fact; one tick forms many rooms; closed rooms keep members | one room per player, one ticket per player, rooms within bounds, first come first served, matching loses nobody |
| ai_orchestrator | tasks, question flows, trigger rules, cooldowns | start flow, submit answer, enqueue, cancel, trigger, tick | `tick()` drops the lock while the AI client works; retries, timeouts, exceptions | one runner per task, stages agree with tasks, one answer per flow, queue limit |
| voice_tts | tasks, audio cache, audio-id index | submit, cancel, tick, clear, find | as above, and a cache with two maps, expiry and eviction | audio exactly on success, never someone else's audio, cache within its limit |
| gameplay | interactions, flow index | start interaction, submit answer | handlers hop between three mutexes and PostgreSQL; stale copies; failures half-way; rows outlive the process, ids start anew | one answer per interaction in memory and database, the reply's `storage_saved` is true, answers end in completion |
| auth + AuthController | sessions, player index, `rcs_users` rows | register, login by password, token or developer switch, validate, touch, close, sweep | check-then-act against the database; two session tables; rows written as a side effect of logging | a name is registered once and stays so, session tables agree |
| sync | per room: version, player states, pending deltas | add, remove, offline, submit state, drain, snapshot, clear | late, duplicate and reordered inputs; per-input movement limits | deltas ordered and complete up to their bound, movement adds up |
| net | connection table, write queues, rate limiter | start, stop, send, broadcast; accept, read, write handlers | handlers on different strands interleave; stop and restart with handlers still queued; messages too large to encode | accept loop never dies, close told once, frames once and in order |
| storage | one PostgreSQL connection behind a mutex | connect, disconnect, one transaction per method | connection breaks between two calls | handlers that found it connected lose it to the database only; rows and refusals appear in Gameplay and Accounts |
| app | the services above, the settings and the main thread's place in `main()` | configure, start, stop | settings in three layers; a start that fails half-way; stopping under load | every part ends, in an order that takes nothing from under a handler |
| http | acceptor, sessions, worker threads | accept, read, route, write, start, stop | any worker takes any handler; handlers that throw; an accept racing `stop()` | a listening server accepts, a request that was read is answered, `stop()` returns |
| ops | status, readiness, shutdown reason | start, ready, begin and complete shutdown, health report | each answer reads several of them one by one | answers tell of the shutdown that goes on |
| config_hotreload | configuration, callback, file time | load, poll, set path | callback outside the lock, file changing between stamp and read | what is kept agrees with the time kept beside it, an edit takes effect |
| observability | counters, histograms, log sinks | record, export | none that relates two pieces of state | not modelled |
| common, examples, database, configuration files | none | | | not modelled |

How they interact: `CulturalInteractionService` calls the orchestrator
(`startQuestionFlow`, `submitAnswer`, `tick`, `findFlow`), the speech service and
the storage service in one handler without holding a lock across the calls.
`AuthController` calls storage, then `SessionAuthService`, then storage again.
`RoomController` calls `RoomMatchService` and then writes users and a log row.
Sessions are not looked up by the room or gameplay controllers.

## 2. Plan

The order follows what a player depends on most.

1. `RoomMatch`, refined to `Matchmaking`; proofs. *Done.*
2. `AiOrchestrator`, and `Gameplay` on top of it; proofs. *Done.*
3. `VoiceTts`; proofs. *Done.*
4. `Accounts` (auth service and controller with the users table); proofs. *Done.*
5. `StateSync`; proofs. *Done.*
6. `NetworkGateway`; proofs. *Done.*
7. `Server`: `main()`, the HTTP server, `OpsService` and the life of the storage
   connection, with the settings that decide about it; proofs. *Done.*
8. `ConfigReload`; proofs. *Done.*

Of the plan nothing is left; section 6 says what it leaves out.

An abstract specification was worth its while for rooms, where several tables
implement one simple fact about a player. For the others the abstraction would
repeat the module, and the properties below say what matters directly.

## 3. Modules and how they correspond to the code

All modules share three conventions. A public method that holds its mutex
throughout is one action; where the code lets go of a lock or calls another
service, the method is several actions and a program counter (`ticker`,
`request`) says where each thread is. A call the code refuses without changing
anything is a stuttering step. Definitions whose name begins a comment with
"Mutant:" are not part of the model: each is a plausible bug, placed before the
definition it would replace.

**RoomMatch** (`room_match_service.cpp`). `rooms` is `rooms_`, with "absent" for
ids not yet drawn; `matchQueue` and `playerTickets` are the two tables of the
queue. `tick()` holds the lock for its whole loop, so `TickExpire`, the
`MatchGroup` turns and `TickDone` are separate actions under a lock flag that
disables all others. `LoseGroup` is the turn in which `createRoomLocked` refuses
the host after the group's tickets are gone. Time is left out: a tick may find
any set of tickets expired. `reopened` is a history variable, see section 4.

**Matchmaking** is the abstract view: a player is idle, waiting or in one seat.

**AiOrchestrator** (`ai_orchestrator_service.cpp`). Tasks and flows are
functions over ids; `ticker[th]` is a thread in `tick()`: taking a task under the
lock, calling the client without it, finishing under it again. Prompts and texts
are left out; a response is success, failure or an exception (texts are assumed
non-empty, an empty one being a failure in the code). `BackoffElapses` and
`CooldownElapses` stand for the clock.

**VoiceTts** (`voice_tts_service.cpp`) follows the same scheme and adds the
cache, its index from audio ids to keys, expiry and eviction. A client that throws
(`SynthesizeThrows`) leaves the task running for ever, as in the orchestrator.

**Gameplay** (`cultural_interaction_service.cpp`) extends AiOrchestrator, whose
`Ticker` threads are its HTTP workers: a worker's handler takes the orchestrator's
actions, so one worker's tick may run another's task as it does in the server. What
both modules have is named for Gameplay here (`GameplayInit`, `GameplayNext`,
`GameplayTypeOK`); `vars` and `Next` are the orchestrator's. Each write
to PostgreSQL is a step that is carried out, fails, or ends in doubt (`Outcome`): the
connection breaks during a commit that the database has carried out, and the handler takes
it for a failure. `findUser` may throw because its query fails, and with `ClientThrows`
both the AI and the speech client may; each exception ends the handler.
`database` holds the rows of interactions, `audioRow` those of audio resources and
`progress` the one of the player. They outlive the process: after `Restart` the
memory is empty, flows and interactions are numbered from 1 again while the ids of
rows go on, and `past` remembers what was there.
The speech service is the choice of an audio id; interactions with the same text
share one, also across a restart.

**Accounts** (`session_auth_service.cpp`, `auth_controller.cpp`). A worker's
`request` runs the steps of `registerUser` and `login`: look up, hash or verify,
insert, issue a token, open a session, read the profile, log. `Visit` is the
logging of rooms and interactions, whose `upsertUser` also writes `rcs_users`. A
JWT is its claims, a hash is the client whose password it is. A connection that
breaks while a row is inserted leaves it in doubt: either outcome is possible.

**StateSync** (`state_sync_service.cpp`). Positions are points on a line, since
the code only looks at distances; the action, orientation and connection id are
copied without a look and left out. `stay` and `lastInput` are history: how a player got
to the present position, and what became of the delta of the last accepted input. The rooms of the service are independent, so
checking one room checks all of them.

**NetworkGateway** (`network_gateway.cpp`, `tcp_connection.cpp`,
`rate_limiter.cpp`). `gateway` is the queue of handlers on the gateway's strand,
`conn[c].jobs` the queue of a connection's; a handler takes the head of its
queue. Accept, read and write operations are outstanding in the kernel until
they complete, which appends their handler. A frame is the number of its send;
`Oversized` are the sends whose message `encode()` refuses, which throws out of the
handler that posts it.
The host calls `start()` and `stop()` between handlers, and its callbacks `on_open`,
`on_message` and `on_close` are assumed to return (section 6).

**Server** (`main.cpp`, `service_application.cpp`, `http_server.cpp`,
`ops_service.cpp`). `main` is where the main thread is, from reading the
configuration (`LoadConfig`, where the command line wins over the environment and
that over the file) through start, signal and stop to the exit; a failed start goes
to `disconnect`, as the destructor does. `worker[w]` is a thread inside
`io_context::run()`, `session[c]` an `HttpSession` with one operation outstanding
or one handler ready, `accept` the acceptor's. Any free worker takes any ready
handler. `OpsService` locks per method, so an answer that reads three of its
fields is three steps. `HttpServer::stop()` is split where a handler could look
in between: the flag (`StopListening`), the acceptor and the io_context
(`CloseHttp`), the threads (`Join`). The acceptor is used by a worker and closed
by the main thread with nothing that orders the two; the model takes either
order. What other modules say about rooms or flows is one kind of request here,
"play", that looks at the connection and then uses it. `connect()` leaves the
connection open when the migration after it fails, which counts as connected:
`connection` is "bare" then. The body of a shutdown request becomes the reason as it is;
one that is not UTF-8 ("unprintable") makes `dump()` throw after the shutdown has begun,
and the session answers with a 500 that names nothing (`Failure`).

**ConfigReload** (`config_hotreload_service.cpp`). `config`, `stamp` and `age` are
the configuration, the file time and the time since the last check. `call[t]` is
the method a host's thread is in: the look at the file's time, the reading and
the callback are steps, the first two under the mutex, the callback after it. The
editor may write before each of them. A document is its entries, each a kind and
a value, because the readers of fields differ in what they do with a null or a
number out of range; `Converts` says how. One field stands for each reader, plus
`check_interval_ms` and `enabled`, which the service itself looks at.

## 4. Runs

| run | question | bounds |
|---|---|---|
| `room_anyorder` | three players call everything in any order: are the tables consistent, and does the service implement Matchmaking? | 3 players, 1 mode, rooms for 2, 2 rooms, 3 tickets |
| `room_reopen` | does matching lose nobody, whatever was called before? **violated** | same with its own cfg |
| `ai_faults` | two ticking threads, cancellation at any status, a throwing client, triggers; does every flow leave its generating stage? | 3 tasks, 1 flow, 1 rule, queue of 2, 1 retry |
| `tts_faults` | three keys in a cache of two, two threads, cancellation, retry, expiry | 3 tasks, 1 retry |
| `gameplay_faults` | two workers, breaking storage, writes that fail, throwing client, a restart on the same database | 3 flows, 1 of them after the restart, 3 tasks per process, queue of 2, 1 retry, batch of 1, 1 audio id |
| `gameplay_stolen` | is the player shown the text the AI generated? **violated** | 2 workers, 2 flows |
| `gameplay_lostanswer` | does every accepted answer complete when storage may break? **violated** | 2 workers, 1 flow |
| `accounts_races` | two workers register and log in at once with rows and sessions | 2 names, 2 sessions, 3 requests, clock to 2 |
| `sync_calls` | late, repeated and reordered inputs of two players | 1 room, 3 positions, 3 sequence numbers, 2 deltas, version to 5, clock to 2 |
| `net_restart` | clients, breakage, sends, rate limit, stop and restart | 2 connections, table of 1, 3 messages of which the first is too large, 2 starts |
| `server_lifecycle` | two workers serve while the main thread starts, fails to start or stops: do handlers keep what they use, do answers tell the truth, does everything end? | 2 workers, 2 clients, 2 requests, files that require storage or only want it |
| `config_reload` | two threads load and poll while the file changes: does what is kept agree with its time, and does an edit take effect? | 1 file, 5 documents, 3 times, 2 edits, interval 0 or 1 |

What they show, and where the bounds come from:

- **Rooms.** `TicketIndexMatchesQueue`, `ActiveRoomsAreWellFilled` and
  `MatchingIsFifo` hold whatever is called. Three players with two seats a room
  are the least for a match, a bystander and a late-comer of the same bucket; two
  rooms let a player be tempted into a second. `OnePlaceEach`, `MatchingLosesNobody` and
  `ImplementsMatchmaking` hold until `leaveRoom` brings a closed room back: `closeRoom` keeps the
  members, `leaveRoom` does not look at the state, and its refresh puts a room
  with members left to "waiting". `room_reopen` shows the consequence: a member
  who queued meanwhile hosts a match, the host is refused, and the whole group
  loses its tickets without a room.
- **AI tasks.** `OneRunnerPerTask` and `FlowFollowsItsTasks` hold although
  `finishTaskLocked` never looks at the status it overwrites. A task canceled
  while it runs may come back as succeeded or queued; `OnlyRunnersRevive`
  says that nothing else brings it back and nothing else exceeds the limit.
  `GenerationEnds` says that a flow leaves its generating stage unless its task
  was canceled or its client threw: retries, a full queue and other tasks'
  cancelations never strand it. Two threads, one retry and three tasks over a
  queue of two let every limit be met; the flow takes two tasks and leaves one
  for a rule or the host.
- **Speech.** `TasksGetTheirAudio` and `IdsResolveToTheirText` relate the two maps
  through replacement, expiry and eviction; three keys against two places force
  eviction while another thread synthesizes, and a client that throws leaves tasks that
  run for ever beside them.
- **Gameplay.** `AnswersAgree` says that an interaction, its flow and its row never
  disagree about the answer, whichever writes were lost, and that a process leaves
  alone what an earlier one stored although it uses its ids again. It holds because
  the orchestrator takes one answer per flow: the stale copies of the handlers are
  harmless thanks to it. `SavedMeansSaved` says that `storage_saved` in the reply is
  the truth: when it is set, every row is there. It cannot say that the audio row is the reply's own: interactions with
  the same text share an audio id, and its row names whichever wrote it last. With three
  flows over a queue of two a start is refused, with one retry a tick finds a
  task that is not due, and one flow after the restart meets the rows before it. The two violated
  runs are findings: another worker's tick may run a worker's AI task, so that
  the player keeps the fallback question although a generated one exists, and a
  query that fails, or a connection that breaks between `isConnected()` and `findUser()`, throws out of
  `submitAnswer` after the flow has taken the answer, so that the interaction
  can neither be completed nor answered again.
- **Accounts.** `RegistrationsLast` holds against two registrations that both passed the checks, because the insert is the
  arbiter. The upserts that `persistLoginSession` and the room and gameplay
  logging make can rename the account of a registration they overtake, but never
  take its password. Three requests are a registration, its
  rival and a login or visit.
- **State sync.** Deltas tell of inputs only: what `addPlayer`, `markPlayerOffline` and
  `removePlayer` change is in snapshots and in no delta, so a client that applies every
  delta need not have the server's state, not even the position of a player whom
  `addPlayer` has placed anew. What the deltas do promise is `AcceptedInputsAreTold`: the last
  accepted input of a player is handed out as it was accepted, unless `MaxDeltas` newer
  ones push it out first, and the server keeps its sequence number, and its position
  until `addPlayer` changes that. `ChangesMoveForward` adds that everything a snapshot
  shows changes under a new version only, which is how a client learns of the rest; a
  room registered again starts over with its versions, and the property speaks of
  rooms that stay registered. `WithinReach` adds up the single-input checks. With steps of 1 and
  positions 0, 1 and 3, some moves are legal only with time, some only in two
  inputs, some never.
- **Gateway.** `AlwaysAccepting` holds although a restart leaves the aborted
  accept of the earlier run behind, which then accepts on: the loops grow by one
  per start, and `max_connections` holds regardless. `FramesInOrder`
  follows a message from the call through two strands and the write queue, and
  says that a waiting frame always has a write under way, and that a message too
  large is never on a socket and holds up none after it.
  `ConnectionsAreAccountedFor` says that no connection is lost or closed twice,
  and bounds what the missing look at `closed_` in the read handlers lets through.
- **Server.** `HandlersKeepTheirStorage`, `RepliesTellOfShutdown` and
  `AcceptLoopLives` hold through every interleaving of `stop()` with two workers;
  the second also shows that the `setReady(true)` at the end of `start()`, which
  may follow a shutdown request, does no harm because `isReady()` looks at the
  status too. It promises a client that asks for the shutdown the status and a reason only
  if the newest reason can be printed; otherwise the answer is a 500, and the shutdown has
  begun all the same. `RequestsAndStopEnd` says that nothing waits for ever. Two workers
  and two sessions let handlers of different sessions overlap, two requests let a
  shutdown request meet any other. A shutdown request itself stops nothing: it
  makes the server drain, nobody sets the callback that would go on from there, and
  `main()` waits for a signal; `docs/后端项目介绍.md:846` and
  `docs/测试相关/后端接口测试文档.md:200` promise more.
- **Configuration.** `ConfigFollowsFile` holds because the time is taken before
  the file is read and kept only after it parsed; a torn reading is therefore
  noticed as a change. `EditsTakeEffect` adds that polls come back after any
  failure and that no configuration taken over stays untold. Edits that share a time
  cannot be told apart (`OwnTime`), and a document that turns hot reload off shuts
  out those after it. Two threads let a callback run while another load works:
  callbacks may overtake each other, so that the host hears the older configuration
  last, which nothing in the code promises against. Three times are an earlier
  one, the current one and a later one.

Deadlock is checked in the runs of RoomMatch, AiOrchestrator, VoiceTts and
ConfigReload, whose callers always have a call left that takes effect. Where the configuration says
`CHECK_DEADLOCK FALSE`, the bounds on flows, requests, versions or starts end
every behaviour, or the server has exited. Symmetry is used only in runs without liveness, over sets
whose members the module only compares.

**Fairness.** `ai_faults` assumes that each thread of the host keeps calling
`tick()`, that a call of the client returns or throws, and that backoffs end: the
code asks the first of its host and the client has a request timeout.
`gameplay_lostanswer` assumes only that a worker inside a handler goes on, as each
step of a handler is ordinary code or a call that returns; its counterexample is
therefore not a stop but a handler that threw. The run of `Server` assumes that
the main thread and each worker go on with what they are doing, that a ready
handler is taken by some worker while one is free again and again (the
io_context's queue is first in, first out), and that a write to a socket ends.
`config_reload` assumes that a call goes on to its end, that time passes, and that
some thread of the host polls again and again; nobody has to load, edit or set anything.
Clients, signals and the database owe nothing.

## 5. Theorems

Each `*_proofs` module extends its component and proves every safety property
its passing runs check, for every value of the constants. The assumptions are those the
component's module names: the bounds are naturals; batch sizes, and the times a
file can have, are at least one; the set of players of `RoomMatch` is finite;
modes, positions and clients exist; the "none" values lie outside their sets;
`Cancelable` holds no status of a task that has ended, and each setting has its
type. No other set need be finite.
An invariant of a run is seldom inductive, so each module defines the one that
is, as a conjunction of named facts, and each fact says why it is needed.

**RoomMatch_proofs.** `TypeCorrect`, where `TypeOK` says besides the shapes that only
members of a room are ready and that the ids of rooms and tickets in use were given
out (`ReadyAreMembers`, `RoomIdsIssued`, `TicketIdsIssued`). `TicketsIndexed` proves
`TicketIndexMatchesQueue`; the strengthening `TicketInv` adds that ticket ids
are below the counter and distinct, without which the pushed ticket of
`EnqueueMatch` could collide. `OnePlacePerPlayer` and `MatchedAreSeated` rest on one invariant, `PlacementInv`: while `reopened` is
false every player is in one open room or in the queue and not in both. Neither
half is inductive alone: `MatchGroup` pushes members without looking for other
rooms, which is safe only because queued players have none; and a player is
queued safely only because of the guard on rooms. `reopened` marks the one step
that breaks both. The action property `MatchedAreSeated` follows because under
the invariant `LoseGroup` is impossible. `ActiveRoomsFilled` holds without that
proviso, but its invariant `RoomInv` must speak of closed rooms too, since
`leaveRoom` may bring one back: a closed room never has more members than places.
`MatchingFirstCome` compares ticket ids, and needs only that they are distinct.
`RoomsImplementMatchmaking` proves the refinement: under `PlacementInv` a player's
place in Matchmaking is well defined (`SeatIs`), and every action is mapped to the
moves of the players it touches, or to a stutter.

**Gameplay_proofs, on AiOrchestrator.** The module holds the theorems about both,
since those about Gameplay stand on the lemmas about the orchestrator. `TaskInv` gives `TypeCorrect` and `TasksHaveOneRunner`:
a task that some thread calls for is running or canceled, neither of which `tick()`
takes; and a task that is queued has an attempt left (`QueuedMayRun`), without
which its attempts would outgrow `max_retries`. `FlowsFollowTheirTasks` needs that
`FlowFollowsItsTasks` holds for the results still to come: `LiveTasksHaveTheirFlow`
says that a flow waits for each task of it that is queued, running or called for,
in the stage of that task and under its id, and `FlowsHaveTheirTasks` is the way
back. A canceled task that is still called for is live, and that is the case in which
`finishTaskLocked` overwrites a status that had ended. `FlowsOnlyGoForward` and
`OnlyTheRunnerRevives` are action properties under the same invariant; the second
counts the active tasks that a step adds.

**Gameplay_proofs, on Gameplay.** One invariant, `GameplayInv`, gives all five
theorems. It contains the orchestrator's, because a step of a handler is one of the
orchestrator's or leaves it alone (`AiStep`): that is `HandlersUseTheOrchestrator`,
and by it `OrchestratorUnderHandlers` carries the orchestrator's invariants over. What
the handlers use of them is lemma `AiKeeps`: a flow keeps the answer it has taken.

- `IdsAreDrawnInOrder` counts. Each start draws a flow first, then an interaction
  id, then perhaps a row, so there are never more ids than flows nor more rows than
  flows of both lives of the process; `GameplayTypeCorrect` needs it, and so does the
  fact that the next id and the next row are free. The workers need not be finitely
  many: only those inside a start are counted.
- `RequestsAreSound` says how far a handler is with what is shared: an answer's
  copy has the flow and the row of its interaction, its flow has taken its answer from
  `answer:tick` on and nobody else's, and `saved` is the truth of the writes so far. Two
  handlers that got past `submitAnswer` have different flows (`Apart`), and that is
  what keeps the stale copies apart.
- `InteractionsAreSound` says the same of what is stored: an interaction whose flow
  has no answer still has its row as the start inserted it, which a second handler
  relies on when it writes the first answer record; no two share a row, and none
  has one that a start still holds. `PastIsPast` and `Ours` keep the rows of
  the two lives apart although their interactions have the same ids.
- `AudioIsPlayed` says that the row of an audio names an interaction that shows that
  audio, or a handler that will.

`AnswersAlwaysAgree` and `SavedMeansAllSaved` read their property off these parts. A
step that writes nothing is handled once (`LocalMove`, `GoesToInv`), one that
writes a row or stores an interaction by what it spares (`RowWritten`,
`OtherTableWritten`, `StoredInv`). A restart is shown to give the invariant from the
counts alone (`JustStarted`).

**VoiceTts_proofs.** `TaskInv` repeats the argument for tasks and gives
`AudioIsTheTasks`. `CacheInv` gives `TypeCorrect` and `IdsResolve`: an entry's audio
was made for its key and is indexed under it, and an indexed id is of a task with
that key. The oldest entry is unique only because stamps differ
(`StampsDiffer`), so an eviction takes out one entry and its own index; and stamps
stay within their type because each is drawn for one task (`StampsAreCounted`).

**StateSync_proofs.** `TypeCorrect` includes the bound on the delta list: a push
is always followed by the trim, of which lemma `TrimmedShift` says what it keeps.
`MovementAddsUp` proves `WithinReach`: an accepted input moves at most
`Speed * elapsed + Tolerance` from the last position, and the triangle
inequality (`GapTriangle`) adds it to what was travelled before; the invariant
needs the order of the three times involved and that is part of `WithinReach`.
`DeltasAreOrdered` proves `DeltasInOrder` from lemmas on what appending
(`OrderedAppend`), trimming (`OrderedDrop`) and pushing (`OrderedPush`) do to an
ordered list. `InputsAreReported` proves `AcceptedInputsAreTold` from `ReportInv`, in two halves.
`PendingTold` says that the delta of a last input that nobody has drained yet waits, or gave
way: the delta that a push drops is the oldest, so all that stay are newer than the input
whose delta it was (`ToldPush`), and no input has a version the room has not reached
(`ChangesHappened`). `InputsHeld` says that the server holds that input's sequence, and its
position from the first input after `addPlayer` on. `ClientsOnlyMoveForward` proves the action property
`ChangesMoveForward`: a step either advances the version of the room it
writes (`BumpIsForward`) or changes nothing a client sees (`QuietIsForward`).

**Accounts_proofs.** `TypeCorrect`, where `TypeInv` adds that a request that has
got past its look-up carries an identity, and a row an account. `SessionTablesAgree`
proves `SessionIndexAgrees` from `SessionInv`, which adds that ids at or above
the counter are unused: `OpenSession` writes a fresh id into both tables and
removes the player's older session from both. `RegistrationsStay` and
`IdentitiesHaveRows` share the invariant `NameInv`. It keeps the `unique` of the
accounts' column, and says of a registration that has its row and is not yet confirmed
that the row has its password and that no other was confirmed for that player
(`RowsAreTheirs`): this is what the upserts of other handlers leave alone. Without
`dev_auth` a handler speaks for a player by the account of the row
(`RequestsAreRegistered`), so no upsert renames one.

**NetworkGateway_proofs.** Most facts count handlers in queues, so the module
first proves what taking the head and appending do to a count. `AcceptsGoOn` needs
that each client waiting in a handler has an id left. `ConnectionsEndOnce` needs
`ConnectionInv`: a connection has one read and one write outstanding, or the handler
of it queued (`OneReadEach`, `OneWriteEach`), and a closed one can still deliver the
one message whose header was read before (`OneMessageLate`). `FramesKeepTheirOrder`
follows a message through its four places: what is on a connection's socket is
older than what is in its queue, that older than what waits on its strand, and that
older than what waits on the gateway's (`OrderInv`); the frame being written is
still the first of the queue.

**Server_proofs.** One invariant, `ServerInv`, gives all four theorems. `Stages` says
what each stage of the main thread implies about the workers, the listener, the
status and the connection; a worker in a handler has a session to itself
(`HandlersOwnTheirSessions`), without which the answer of one could be written
by another; `HandlersKnow` says how far a handler is with what it answers, and
`ShutdownReplies` what the answers on their way say: `RepliesAreTrue` follows, for
answers that name the shutdown and for those that fail because it has a reason that
cannot be printed. `StorageOutlivesHandlers`
then holds because the main thread reaches "disconnect" only when all workers are off.

**ConfigReload_proofs.** `TypeCorrect` rests on `LockIsMutual`, which says who holds the
mutex instead of how many do, and on `CallsRemember`. `ConfigIsOfItsTime` proves
`ConfigFollowsFile`: what is kept agrees with the file as long as its time was used
once, and `TimesWereUsed` adds that the time of the file, the one that is kept and the one a
load has seen were all given by an edit, so that an edit which gives one of them
again ends the file's own time.

Only model-checked: liveness (`GenerationEnds`, `AcceptedAnswersComplete`,
`RequestsAndStopEnd`, `EditsTakeEffect`) is out of the prover's reach and stays with
TLC. The three violated properties are false and have no theorem.

## 6. Not modelled

- The cryptography of tokens and passwords, JSON, SQL text, HTTP parsing, frame
  bytes, log and metric formats: data whose content no property here depends on.
- `observability`, and of `config_hotreload` the helper `resolveEnv`, which reads the
  environment and keeps nothing, and the order of overtaking callbacks (section 4).
- Collisions of the hash that makes the speech cache's keys and audio ids.
- A second `start()` of an `HttpServer`, and of `OpsService` what the server never
  calls once it runs: `markUnhealthy`, `unregisterHealthCheck`, the setters of its
  callbacks.
- A second thread that calls `NetworkGateway::stop()` while `run()` is in a
  handler: the code touches the table off its strand there, which is a data race
  (listed as a hazard).
- Host callbacks of `NetworkGateway` that throw (`on_open` inside `acceptNext`,
  `on_message` inside `readBody`): such an exception leaves the handler before it starts
  the next accept or read, and the acceptor or the connection would be deaf from then
  on. `AlwaysAccepting` and the rest hold for hosts whose callbacks return.
- A storage connection that comes back: nothing in the server reconnects.
- `PlayerAction::sequence`, which the header describes as protection against
  repeated actions and no code reads.
