------------------------------- MODULE Gameplay -------------------------------
(***************************************************************************)
(* rcs::gameplay::CulturalInteractionService on top of AiOrchestrator:     *)
(* HTTP workers run startInteraction and submitAnswer at the same time.    *)
(* Both handlers hop between three mutexes (their own, the orchestrator's, *)
(* the storage's), so a handler is a sequence of steps here and other      *)
(* workers move in between.                                                *)
(*                                                                         *)
(* The orchestrator's state is this module's state too: a worker takes the *)
(* orchestrator's own actions, and its tick() is the loop of TickStep with *)
(* MaxBatch, config_.ai_tick_batch_size, turns.  Only workers tick; nobody *)
(* cancels, enqueues or triggers AI tasks here.  MaxTasks bounds the tasks *)
(* of one process, MaxFlows the flow ids ever drawn.                       *)
(*                                                                         *)
(* Abstractions: a text is either what the AI generated or the fallback;   *)
(* the audio of an explanation is an id that VoiceTts hands out, and       *)
(* ClientThrows is of the AI's and of the speech client; a request         *)
(* that is refused before the first write is a stuttering step, which      *)
(* covers the checks of arguments, owner and room membership; all          *)
(* interactions are in one scene, and of one player where that matters;    *)
(* flow_to_interaction_ is the inverse of the flow field.  PostgreSQL is   *)
(* external: the tables written here, queries and writes that fail, and a  *)
(* connection that may break, also while a write is committed.             *)
(***************************************************************************)
EXTENDS AiOrchestrator

CONSTANTS
    Audio, NoAudio,       \* the ids of audio resources
    MaxAfter,             \* bound on the flows created after a restart
    AllowWithoutStorage,  \* config_.allow_without_storage
    EnableTts,            \* config_.enable_tts
    StorageMayBreak,      \* may the connection break?
    MayCrash              \* may the process end and start again?

ASSUME SwitchesBoolean ==
    {AllowWithoutStorage, EnableTts, StorageMayBreak, MayCrash} \subseteq BOOLEAN

VARIABLES
    nextInteractionId,   \* next_interaction_id_
    interactions,        \* interactions_
    request,             \* the handler each worker runs
    storageUp,           \* storageAvailable()
    database,            \* the rows of rcs_cultural_interactions with their answer records
    audioRow,            \* the rows of rcs_tts_audio_resources: the interaction_id of each
    progress,            \* the row of rcs_progress_records: its last_interaction_id
    past                 \* history: the flows and the rows before the last restart

gameplayVars == <<vars, nextInteractionId, interactions, request, storageUp, database, audioRow,
          progress, past>>
tables == <<database, audioRow, progress>>

\* The HTTP worker threads, which are the ones that tick.
Worker == Ticker

InteractionId == 1..MaxFlows
Text          == {"none", "generated", "fallback"}

\* The ids of rcs_cultural_interactions, a BIGSERIAL, which outlive the process.
Row == 1..MaxFlows

\* InteractionState; row: storage_interaction_id.
State == [flow: FlowId \cup {0}, question: Text, answer: Answer \cup {NoAnswer},
          explanation: Text, audio: Audio \cup {NoAudio}, row: Row \cup {0},
          completed: BOOLEAN]

NoState == [flow |-> 0, question |-> "none", answer |-> NoAnswer, explanation |-> "none",
            audio |-> NoAudio, row |-> 0, completed |-> FALSE]

StartSteps  == {"start:tick", "start:find", "start:save", "start:user", "start:row", "start:store"}
AnswerSteps == {"answer:flow", "answer:tick", "answer:find", "answer:save", "answer:user",
                "answer:record", "answer:complete", "answer:audio", "answer:progress",
                "answer:store"}

\* A request inside its controller.  state: the handler's local copy; saved: every write so far
\* went through.
Request == [step: {"idle"} \cup StartSteps \cup AnswerSteps, id: InteractionId \cup {0},
            state: State, saved: BOOLEAN]

NoRequest == [step |-> "idle", id |-> 0, state |-> NoState, saved |-> FALSE]

\* A row of an interaction with its answer records (their number is capped at 2).  What is saved
\* of an interaction without a row refers to none (interaction_id is NULL).
Rows == [status: {"absent", "started", "completed"}, answer: Answer \cup {NoAnswer},
         records: 0..2]

NoRows == [status |-> "absent", answer |-> NoAnswer, records |-> 0]

\* An audio resource without a row.
NoRow == MaxFlows + 1

\* The statements of StorageService, each a transaction: the id that the sequence gives next, a
\* row as startCulturalInteraction inserts it, and what the others make of a row.
NextRow == Cardinality({r \in Row : database[r].status # "absent"}) + 1

Started == [NoRows EXCEPT !.status = "started"]

WithRecord(row) == [row EXCEPT !.records = IF @ < 2 THEN @ + 1 ELSE @]

Completed(row, answer) == [row EXCEPT !.status = "completed", !.answer = answer]

\* How a write ends: "inDoubt" is a commit that the database carried out and whose connection
\* broke before it said so, which StorageService reports as a failure.
Outcome == {"written", "failed", "inDoubt"}

Written(outcome) == outcome # "failed"

\* The connection before the write and after it allows this outcome.
Ends(outcome) ==
    /\ Written(outcome) => storageUp
    /\ outcome = "inDoubt" => StorageMayBreak
    /\ storageUp' = (storageUp /\ outcome # "inDoubt")

At(w, step) == request[w].step = step

Goto(w, step) == request' = [request EXCEPT ![w].step = step]

\* The handler returns, or an exception unwinds it to the HTTP session's catch.
Return(w) == request' = [request EXCEPT ![w] = NoRequest]

------------------------------------------------------------------------------
GameplayInit ==
    /\ Init
    /\ nextInteractionId = 1
    /\ interactions = [i \in InteractionId |-> NoState]
    /\ request = [w \in Worker |-> NoRequest]
    /\ storageUp \in BOOLEAN
    /\ database = [r \in Row |-> NoRows]
    /\ audioRow = [a \in Audio |-> NoRow]
    /\ progress = 0
    /\ past = [flows |-> 0, rows |-> database]

StorageGate == AllowWithoutStorage \/ storageUp

StorageBreaks ==
    /\ StorageMayBreak
    /\ storageUp
    /\ storageUp' = FALSE
    /\ UNCHANGED <<vars, nextInteractionId, interactions, request, tables, past>>

\* The process ends, by a crash or a stop, and starts again: what was in memory is gone, ids
\* start anew, and the rows are still there.
Restart ==
    /\ MayCrash
    /\ past.flows = 0 /\ nextFlowId > 1
    /\ nextTaskId' = 1 /\ nextFlowId' = 1
    /\ tasks' = [t \in 1..MaxTasks |-> NoTask]
    /\ flows' = [f \in FlowId |-> NoFlow]
    /\ rules' = {} /\ cooling' = {}
    /\ ticker' = [w \in Worker |-> Idle]
    /\ nextInteractionId' = 1
    /\ interactions' = [i \in InteractionId |-> NoState]
    /\ request' = [w \in Worker |-> NoRequest]
    /\ storageUp' \in BOOLEAN
    /\ past' = [flows |-> nextFlowId - 1, rows |-> database]
    /\ UNCHANGED tables

------------------------------------------------------------------------------
(* tick(config_.ai_tick_batch_size), called by a handler at one of these steps *)

Ticking(w) == request[w].step \in {"start:tick", "answer:tick"}

TickReturned(w) == IF At(w, "start:tick") THEN "start:find" ELSE "answer:find"

EnterTick(w) ==
    /\ Ticking(w)
    /\ TickStart(w, MaxBatch)
    /\ UNCHANGED <<nextInteractionId, interactions, request, storageUp, tables, past>>

\* The worker's tick goes on, and in the end returns to the handler.
TickGoesOn(w) ==
    /\ Ticking(w)
    /\ TickStep(w)
    /\ IF ticker'[w].pc = "idle" THEN Goto(w, TickReturned(w)) ELSE UNCHANGED request
    /\ UNCHANGED <<nextInteractionId, interactions, storageUp, tables, past>>

TickThrows(w) ==
    /\ Ticking(w)
    /\ CallThrows(w)
    /\ Return(w)
    /\ UNCHANGED <<nextInteractionId, interactions, storageUp, tables, past>>

BackoffPasses(t) ==
    /\ BackoffElapses(t)
    /\ UNCHANGED <<nextInteractionId, interactions, request, storageUp, tables, past>>

------------------------------------------------------------------------------
(* startInteraction *)

\* The bounds on the flow ids.
FlowsLeft ==
    /\ past.flows + nextFlowId <= MaxFlows
    /\ past.flows > 0 => nextFlowId <= MaxAfter

\* The storage gate is asked just before startQuestionFlow; a connection that breaks in
\* between is one that breaks right after this step.
StartFlow(w) ==
    /\ At(w, "idle")
    /\ StorageGate
    /\ FlowsLeft
    /\ StartQuestionFlow
    /\ request' = [request EXCEPT ![w] =
            [NoRequest EXCEPT !.step = "start:tick", !.state.flow = nextFlowId]]
    /\ UNCHANGED <<nextInteractionId, interactions, storageUp, tables, past>>

StartFlowRefused(w) ==
    /\ At(w, "idle")
    /\ StorageGate
    /\ FlowsLeft
    /\ StartQuestionFlowRefused
    /\ UNCHANGED <<nextInteractionId, interactions, request, storageUp, tables, past>>

\* A question was generated exactly when the flow got past generating it.
HasQuestion(f)    == flows[f].stage \in {"waiting_answer", "generating_explanation", "completed"}
HasExplanation(f) == flows[f].stage = "completed"

\* Mutant: the id is drawn after the increment.
FindQuestionLateId(w) ==
    /\ At(w, "start:find")
    /\ request' = [request EXCEPT ![w].step = "start:save", ![w].id = nextInteractionId + 1]
    /\ nextInteractionId' = nextInteractionId + 1
    /\ UNCHANGED <<vars, interactions, storageUp, tables, past>>

\* findFlow, then the next interaction id.
FindQuestion(w) ==
    /\ At(w, "start:find")
    /\ request' = [request EXCEPT ![w].step = "start:save",
            ![w].id = nextInteractionId,
            ![w].state.question =
                IF HasQuestion(request[w].state.flow) THEN "generated" ELSE "fallback"]
    /\ nextInteractionId' = nextInteractionId + 1
    /\ UNCHANGED <<vars, interactions, storageUp, tables, past>>

\* saveStartEvent: isConnected first ...
SaveStart(w) ==
    /\ At(w, "start:save")
    /\ Goto(w, IF storageUp THEN "start:user" ELSE "start:store")
    /\ UNCHANGED <<vars, nextInteractionId, interactions, storageUp, tables, past>>

\* ... then findUser, which throws when the query fails or the connection has gone meanwhile ...
SaveStartUser(w) ==
    /\ At(w, "start:user")
    /\ (storageUp /\ Goto(w, "start:row")) \/ Return(w)
    /\ UNCHANGED <<vars, nextInteractionId, interactions, storageUp, tables, past>>

\* ... and gives up when the player cannot be entered, because another one holds the account ...
SaveStartUserRefused(w) ==
    /\ At(w, "start:user")
    /\ storageUp
    /\ Goto(w, "start:store")
    /\ UNCHANGED <<vars, nextInteractionId, interactions, storageUp, tables, past>>

\* ... then the row of the interaction, whose failure is only reported; the interaction does
\* not know a row that was inserted in doubt.
SaveStartRow(w, outcome) ==
    /\ At(w, "start:row")
    /\ Ends(outcome)
    /\ request' = [request EXCEPT ![w].step = "start:store",
                                  ![w].state.row = IF outcome = "written" THEN NextRow ELSE 0]
    /\ database' = IF Written(outcome) THEN [database EXCEPT ![NextRow] = Started] ELSE database
    /\ UNCHANGED <<vars, nextInteractionId, interactions, audioRow, progress, past>>

StoreInteraction(w) ==
    /\ At(w, "start:store")
    /\ interactions' = [interactions EXCEPT ![request[w].id] = request[w].state]
    /\ Return(w)
    /\ UNCHANGED <<vars, nextInteractionId, storageUp, tables, past>>

------------------------------------------------------------------------------
(* submitAnswer *)

\* The handler copies the interaction under the lock and works on the copy from here on.
LookUp(w, i, answer) ==
    /\ At(w, "idle")
    /\ StorageGate
    /\ interactions[i].flow # 0
    /\ ~interactions[i].completed
    /\ request' = [request EXCEPT ![w] =
            [step |-> "answer:flow", id |-> i, saved |-> FALSE,
             state |-> [interactions[i] EXCEPT !.answer = answer]]]
    /\ UNCHANGED <<vars, nextInteractionId, interactions, storageUp, tables, past>>

AnswerFlow(w) ==
    /\ At(w, "answer:flow")
    /\ SubmitAnswer(request[w].state.flow, request[w].state.answer)
    /\ Goto(w, "answer:tick")
    /\ UNCHANGED <<nextInteractionId, interactions, storageUp, tables, past>>

\* Mutant: a refused answer is handled like an accepted one.
AnswerFlowRefusedGoesOn(w) ==
    /\ At(w, "answer:flow")
    /\ flows[request[w].state.flow].stage # "waiting_answer"
    /\ Goto(w, "answer:find")
    /\ UNCHANGED <<vars, nextInteractionId, interactions, storageUp, tables, past>>

AnswerFlowRefused(w) ==
    /\ At(w, "answer:flow")
    /\ \/ flows[request[w].state.flow].stage # "waiting_answer" /\ UNCHANGED vars
       \/ SubmitAnswerRefused(request[w].state.flow, request[w].state.answer)
    /\ Return(w)
    /\ UNCHANGED <<nextInteractionId, interactions, storageUp, tables, past>>

\* findFlow, then the voice service's submit, tick and findTask.  Explanations of one text get
\* one audio: from the cache, or, as ids start anew, again after a restart.
FindExplanation(w, audio) ==
    /\ At(w, "answer:find")
    /\ audio # NoAudio => EnableTts
    /\ request' = [request EXCEPT ![w].step = "answer:save",
            ![w].state.explanation =
                IF HasExplanation(request[w].state.flow) THEN "generated" ELSE "fallback",
            ![w].state.audio = audio,
            ![w].state.completed = TRUE]
    /\ UNCHANGED <<vars, nextInteractionId, interactions, storageUp, tables, past>>

\* An exception of the client that synthesizes the audio leaves submitAnswer.
SpeechThrows(w) ==
    /\ At(w, "answer:find")
    /\ EnableTts /\ ClientThrows
    /\ Return(w)
    /\ UNCHANGED <<vars, nextInteractionId, interactions, storageUp, tables, past>>

\* saveAnswerEvent: isConnected first, then findUser, which throws as in saveStartEvent.
SaveAnswer(w) ==
    /\ At(w, "answer:save")
    /\ Goto(w, IF storageUp THEN "answer:user" ELSE "answer:store")
    /\ UNCHANGED <<vars, nextInteractionId, interactions, storageUp, tables, past>>

SaveAnswerUser(w) ==
    /\ At(w, "answer:user")
    /\ \/ storageUp /\ request' = [request EXCEPT ![w].step = "answer:record", ![w].saved = TRUE]
       \/ Return(w)
    /\ UNCHANGED <<vars, nextInteractionId, interactions, storageUp, tables, past>>

\* Mutant: nobody looks at the result of a write.
WriteUnchecked(w, next, outcome) ==
    /\ Ends(outcome)
    /\ Goto(w, next)
    /\ UNCHANGED <<vars, nextInteractionId, interactions, past>>

\* The writes that follow are transactions of their own: each reports its failure and the
\* next one is tried all the same.
Write(w, next, outcome) ==
    /\ Ends(outcome)
    /\ request' = [request EXCEPT ![w].step = next, ![w].saved = @ /\ outcome = "written"]
    /\ UNCHANGED <<vars, nextInteractionId, interactions, past>>

SaveRecord(w, outcome) ==
    LET r == request[w].state.row IN
    /\ At(w, "answer:record")
    /\ Write(w, "answer:complete", outcome)
    /\ database' = IF Written(outcome) /\ r # 0 THEN [database EXCEPT ![r] = WithRecord(@)]
                   ELSE database
    /\ UNCHANGED <<audioRow, progress>>

\* Mutant: the row is found by service_interaction_id, which starts anew with the process.
SaveCompletionByService(w, outcome) ==
    LET state == request[w].state IN
    /\ At(w, "answer:complete")
    /\ Written(outcome) => state.row # 0
    /\ Write(w, "answer:audio", outcome)
    /\ database' = IF Written(outcome)
                   THEN [database EXCEPT ![request[w].id] = Completed(@, state.answer)]
                   ELSE database
    /\ UNCHANGED <<audioRow, progress>>

\* Without a row from the start the completion counts as failed.
SaveCompletion(w, outcome) ==
    LET state == request[w].state IN
    /\ At(w, "answer:complete")
    /\ Written(outcome) => state.row # 0
    /\ Write(w, "answer:audio", outcome)
    /\ database' = IF Written(outcome)
                   THEN [database EXCEPT ![state.row] = Completed(@, state.answer)]
                   ELSE database
    /\ UNCHANGED <<audioRow, progress>>

SaveNoAudio(w) ==
    /\ At(w, "answer:audio")
    /\ request[w].state.audio = NoAudio
    /\ Goto(w, "answer:progress")
    /\ UNCHANGED <<vars, nextInteractionId, interactions, storageUp, tables, past>>

\* saveTtsAudioResource: a row that the audio had already is this interaction's from now on.
SaveAudio(w, outcome) ==
    LET state == request[w].state IN
    /\ At(w, "answer:audio")
    /\ state.audio # NoAudio
    /\ Write(w, "answer:progress", outcome)
    /\ audioRow' = IF Written(outcome) THEN [audioRow EXCEPT ![state.audio] = state.row]
                   ELSE audioRow
    /\ UNCHANGED <<database, progress>>

SaveProgress(w, outcome) ==
    /\ At(w, "answer:progress")
    /\ Write(w, "answer:store", outcome)
    /\ progress' = IF Written(outcome) THEN request[w].id ELSE progress
    /\ UNCHANGED <<database, audioRow>>

\* The copy overwrites the shared interaction.
StoreAnswer(w) ==
    /\ At(w, "answer:store")
    /\ interactions' = [interactions EXCEPT ![request[w].id] = request[w].state]
    /\ Return(w)
    /\ UNCHANGED <<vars, nextInteractionId, storageUp, tables, past>>

------------------------------------------------------------------------------
HandlerStep(w) ==
    \/ EnterTick(w) \/ TickGoesOn(w) \/ TickThrows(w)
    \/ FindQuestion(w) \/ SaveStart(w) \/ SaveStartUser(w) \/ SaveStartUserRefused(w)
    \/ \E outcome \in Outcome : SaveStartRow(w, outcome)
    \/ StoreInteraction(w)
    \/ AnswerFlow(w) \/ AnswerFlowRefused(w)
    \/ \E audio \in Audio \cup {NoAudio} : FindExplanation(w, audio)
    \/ SpeechThrows(w) \/ SaveAnswer(w) \/ SaveAnswerUser(w)
    \/ \E outcome \in Outcome : SaveRecord(w, outcome) \/ SaveCompletion(w, outcome)
    \/ SaveNoAudio(w)
    \/ \E outcome \in Outcome : SaveAudio(w, outcome) \/ SaveProgress(w, outcome)
    \/ StoreAnswer(w)

GameplayNext ==
    \/ \E w \in Worker : StartFlow(w)
    \/ \E w \in Worker : StartFlowRefused(w)
    \/ \E w \in Worker, i \in InteractionId, a \in Answer : LookUp(w, i, a)
    \/ \E w \in Worker : HandlerStep(w)
    \/ \E t \in 1..MaxTasks : BackoffPasses(t)
    \/ StorageBreaks
    \/ Restart

GameplaySpec == GameplayInit /\ [][GameplayNext]_gameplayVars

\* A worker that runs a handler keeps running it, and every call it makes returns.
FairGameplaySpec == GameplaySpec /\ \A w \in Worker : WF_gameplayVars(HandlerStep(w))

------------------------------------------------------------------------------
(* Properties *)

\* The shape of the state.
GameplayTypeOK ==
    /\ TypeOK
    /\ nextInteractionId \in 1..(MaxFlows + 1)
    /\ interactions \in [InteractionId -> State]
    /\ request \in [Worker -> Request]
    /\ storageUp \in BOOLEAN
    /\ database \in [Row -> Rows]
    /\ audioRow \in [Audio -> Row \cup {0, NoRow}]
    /\ progress \in InteractionId \cup {0}
    /\ past \in [flows: 0..MaxFlows, rows: [Row -> Rows]]

Known(i) == interactions[i].flow # 0

FlowOf(i) == flows[interactions[i].flow]

\* The orchestrator has accepted an answer for the interaction's flow and enqueued its explanation.
Accepted(i) == Known(i) /\ FlowOf(i).explanation # 0

\* The copies of an interaction: the stored one, and those that handlers work on.
Copies == {interactions[i] : i \in InteractionId} \cup {request[w].state : w \in Worker}

\* One answer everywhere.  A completed interaction shows the answer that its flow was given, and
\* so does its row once it is completed, even if the handler died before it stored the answer
\* here; the row has at most one answer record.  No two interactions share a row, and what an
\* earlier process left there is never touched by a later one, although flows and interactions
\* have the same ids again.
AnswersAgree ==
    /\ \A i \in InteractionId : interactions[i].completed =>
        interactions[i].answer # NoAnswer /\ interactions[i].answer = FlowOf(i).answer
    /\ \A i \in InteractionId : interactions[i].row # 0 =>
        LET row == database[interactions[i].row] IN
        /\ row.records <= 1
        /\ row.status = "completed" => row.answer = FlowOf(i).answer
        /\ \A j \in InteractionId : interactions[j].row = interactions[i].row => j = i
    /\ \A r \in Row : past.rows[r].status # "absent" => database[r] = past.rows[r]

\* storage_saved in the reply is the truth: the answer record, the completed row, the audio
\* resource and the progress are all there, although each is a transaction of its own.  The row
\* of an audio names an interaction that plays it; but only the last one of those that do,
\* which need not be the one of the reply.
SavedMeansSaved ==
    /\ \A w \in Worker : At(w, "answer:store") /\ request[w].saved =>
        LET state == request[w].state IN
        /\ state.row # 0 /\ progress # 0
        /\ database[state.row].records = 1 /\ database[state.row].status = "completed"
        /\ state.audio # NoAudio => audioRow[state.audio] # NoRow
    /\ \A a \in Audio : audioRow[a] \in Row /\ past.rows[audioRow[a]].status = "absent" =>
        \E state \in Copies : state.row = audioRow[a] /\ state.audio = a

\* An accepted answer is worked on until the interaction is completed: the player is never left
\* with a flow that takes no more answers and an interaction that is not completed.
AcceptedAnswersComplete ==
    \A i \in InteractionId : Accepted(i) ~> interactions[i].completed

\* The question the player is shown is the one the AI generated whenever the flow has one to
\* answer, and the explanation likewise when the flow is completed.
PlayersSeeGeneratedTexts ==
    \A i \in InteractionId : Known(i) =>
        /\ FlowOf(i).stage = "waiting_answer" => interactions[i].question = "generated"
        /\ interactions[i].completed /\ FlowOf(i).stage = "completed"
                => interactions[i].explanation = "generated"

==============================================================================
