---------------------------- MODULE AiOrchestrator ----------------------------
(***************************************************************************)
(* rcs::ai_orchestrator::AiOrchestratorService: question flows, the queue  *)
(* of AI tasks behind them, and tick(), which any number of threads run at *)
(* the same time.                                                          *)
(*                                                                         *)
(* Every method holds the service's mutex, except that tick() lets go of   *)
(* it while the AI client works: a thread in tick() alternates Take (pick  *)
(* the oldest due task under the lock), the call, and Finish (write the    *)
(* result under the lock).  A refused call that changes nothing is a       *)
(* stuttering step.                                                        *)
(*                                                                         *)
(* Abstractions: prompts, contexts and generated texts are left out, and   *)
(* so are the ids of rooms and scenes; a task without a flow is of kind    *)
(* "other" whatever its AiTaskKind, which only flows look at.  created_at  *)
(* grows with the task id, so "oldest" is "smallest id".  The clock is     *)
(* left out: a backoff or a cooldown may end at any time.                  *)
(***************************************************************************)
EXTENDS Integers, FiniteSets

CONSTANTS
    Ticker,        \* the threads that call tick()
    Rule,          \* trigger rule ids
    Context,       \* (room, player, scene) contexts of trigger events
    Answer,        \* what a player may answer
    NoAnswer,      \* a flow that has no answer yet
    MaxRetries,    \* config_.max_retries
    MaxQueued,     \* config_.max_queued_tasks
    MaxBatch,      \* bound on tick's max_tasks
    MaxTasks,      \* bound on the tasks ever created
    MaxFlows,      \* bound on the flows ever started
    Cancelable,    \* the task statuses in which callers call cancelTask
    ClientThrows   \* may the AI client throw?

TaskStatus == {"absent", "queued", "running", "succeeded", "failed", "timed_out", "canceled"}
FlowStage  == {"absent", "generating_question", "waiting_answer",
               "generating_explanation", "completed", "failed"}

TaskId == 1..MaxTasks
FlowId == 1..MaxFlows

ASSUME LimitsNat ==
    /\ MaxRetries \in Nat /\ MaxQueued \in Nat /\ MaxBatch \in Nat \ {0}
    /\ MaxTasks \in Nat /\ MaxFlows \in Nat
ASSUME NoAnswerIsNone == NoAnswer \notin Answer
\* cancelTask refuses a task that succeeded or failed.
ASSUME CancelableStatuses == Cancelable \subseteq {"queued", "running", "timed_out"}
ASSUME ThrowsBoolean == ClientThrows \in BOOLEAN

VARIABLES
    nextTaskId, nextFlowId,   \* next_task_id_, next_flow_id_
    tasks,                    \* tasks_: never erased
    flows,                    \* flows_: never erased
    rules,                    \* trigger_rules_, those that are enabled
    cooling,                  \* last_triggered_at_: keys whose cooldown has not elapsed
    ticker                    \* where each thread is in tick()

vars == <<nextTaskId, nextFlowId, tasks, flows, rules, cooling, ticker>>

Task == [status: TaskStatus, kind: {"question", "explanation", "other"},
         flow: FlowId \cup {0}, attempts: 0..(MaxRetries + 1), due: BOOLEAN]

Flow == [stage: FlowStage, question: TaskId \cup {0}, explanation: TaskId \cup {0},
         answer: Answer \cup {NoAnswer}]

\* left: loop turns still allowed; job: the id of the task the client works on.
Thread == [pc: {"idle", "taking", "calling"}, left: 0..MaxBatch, job: TaskId \cup {0}]

NoTask == [status |-> "absent", kind |-> "other", flow |-> 0, attempts |-> 0, due |-> FALSE]
NoFlow == [stage |-> "absent", question |-> 0, explanation |-> 0, answer |-> NoAnswer]
Idle   == [pc |-> "idle", left |-> 0, job |-> 0]

------------------------------------------------------------------------------
(* The task queue *)

Active    == {t \in TaskId : tasks[t].status \in {"queued", "running"}}
QueueFull == Cardinality(Active) >= MaxQueued

NewTask(kind, flow) ==
    [status |-> "queued", kind |-> kind, flow |-> flow, attempts |-> 0, due |-> TRUE]

\* enqueueTaskLocked, once it has accepted the task.
Enqueue(kind, flow) ==
    /\ nextTaskId <= MaxTasks
    /\ ~QueueFull
    /\ tasks' = [tasks EXCEPT ![nextTaskId] = NewTask(kind, flow)]
    /\ nextTaskId' = nextTaskId + 1

\* Mutant: tick() also picks up canceled tasks.
TakeableIfCanceled == {t \in TaskId : tasks[t].status \in {"queued", "canceled"} /\ tasks[t].due}

Takeable == {t \in TaskId : tasks[t].status = "queued" /\ tasks[t].due}

------------------------------------------------------------------------------
Init ==
    /\ nextTaskId = 1
    /\ nextFlowId = 1
    /\ tasks = [t \in TaskId |-> NoTask]
    /\ flows = [f \in FlowId |-> NoFlow]
    /\ rules = {}
    /\ cooling = {}
    /\ ticker = [th \in Ticker |-> Idle]

\* Mutant: the flow gets the id of the task after the one made for it.
StartQuestionFlowLateId ==
    /\ nextFlowId <= MaxFlows
    /\ nextTaskId < MaxTasks
    /\ Enqueue("question", nextFlowId)
    /\ flows' = [flows EXCEPT ![nextFlowId] =
                    [NoFlow EXCEPT !.stage = "generating_question", !.question = nextTaskId + 1]]
    /\ nextFlowId' = nextFlowId + 1
    /\ UNCHANGED <<rules, cooling, ticker>>

StartQuestionFlow ==
    /\ nextFlowId <= MaxFlows
    /\ Enqueue("question", nextFlowId)
    /\ flows' = [flows EXCEPT ![nextFlowId] =
                    [NoFlow EXCEPT !.stage = "generating_question", !.question = nextTaskId]]
    /\ nextFlowId' = nextFlowId + 1
    /\ UNCHANGED <<rules, cooling, ticker>>

\* The flow id is drawn before the queue is asked, so a refused start burns one.
StartQuestionFlowRefused ==
    /\ nextFlowId <= MaxFlows
    /\ QueueFull
    /\ nextFlowId' = nextFlowId + 1
    /\ UNCHANGED <<nextTaskId, tasks, flows, rules, cooling, ticker>>

\* Mutant: an answer is also taken while the explanation is generated.
SubmitAnswerTwice(f, answer) ==
    /\ flows[f].stage \in {"waiting_answer", "generating_explanation"}
    /\ flows' = [flows EXCEPT ![f].stage = "generating_explanation",
                              ![f].answer = answer,
                              ![f].explanation = nextTaskId]
    /\ Enqueue("explanation", f)
    /\ UNCHANGED <<nextFlowId, rules, cooling, ticker>>

SubmitAnswer(f, answer) ==
    /\ flows[f].stage = "waiting_answer"
    /\ flows' = [flows EXCEPT ![f].stage = "generating_explanation",
                              ![f].answer = answer,
                              ![f].explanation = nextTaskId]
    /\ Enqueue("explanation", f)
    /\ UNCHANGED <<nextFlowId, rules, cooling, ticker>>

\* The answer is stored first; a full queue then fails the flow for good.
SubmitAnswerRefused(f, answer) ==
    /\ flows[f].stage = "waiting_answer"
    /\ QueueFull
    /\ flows' = [flows EXCEPT ![f].stage = "failed", ![f].answer = answer]
    /\ UNCHANGED <<nextTaskId, nextFlowId, tasks, rules, cooling, ticker>>

EnqueueTask ==
    /\ Enqueue("other", 0)
    /\ UNCHANGED <<nextFlowId, flows, rules, cooling, ticker>>

\* Neither the flow of the task nor the thread that runs it hears of it.
CancelTask(t) ==
    /\ tasks[t].status \in Cancelable
    /\ tasks' = [tasks EXCEPT ![t].status = "canceled"]
    /\ UNCHANGED <<nextTaskId, nextFlowId, flows, rules, cooling, ticker>>

------------------------------------------------------------------------------
(* Trigger rules *)

RegisterTriggerRule(rule) ==
    /\ rules' = rules \cup {rule}
    /\ UNCHANGED <<nextTaskId, nextFlowId, tasks, flows, cooling, ticker>>

RemoveTriggerRule(rule) ==
    /\ rules' = rules \ {rule}
    /\ UNCHANGED <<nextTaskId, nextFlowId, tasks, flows, cooling, ticker>>

CooldownElapses(key) ==
    /\ cooling' = cooling \ {key}
    /\ UNCHANGED <<nextTaskId, nextFlowId, tasks, flows, rules, ticker>>

\* The rules an event matches, minus those in their cooldown, are served in no particular
\* order until the queue is full; only a served rule starts its cooldown.
HandleTriggerEvent(matching, context, served) ==
    LET ready == {rule \in matching : <<rule, context>> \notin cooling}
        count == Cardinality(served)
    IN
    /\ matching \subseteq rules
    /\ served \subseteq ready
    /\ served # {}
    /\ nextTaskId + count <= MaxTasks + 1
    /\ Cardinality(Active) + count <= MaxQueued
    /\ served = ready \/ Cardinality(Active) + count = MaxQueued
    /\ tasks' = [t \in TaskId |-> IF t \in nextTaskId..(nextTaskId + count - 1)
                                  THEN NewTask("other", 0) ELSE tasks[t]]
    /\ nextTaskId' = nextTaskId + count
    /\ cooling' = cooling \cup (served \X {context})
    /\ UNCHANGED <<nextFlowId, flows, rules, ticker>>

------------------------------------------------------------------------------
(* tick() *)

TickStart(th, maxTasks) ==
    /\ ticker[th].pc = "idle"
    /\ ticker' = [ticker EXCEPT ![th] = [pc |-> "taking", left |-> maxTasks, job |-> 0]]
    /\ UNCHANGED <<nextTaskId, nextFlowId, tasks, flows, rules, cooling>>

\* Mutant: the task is handed out but not marked running.
TakeTaskUnmarked(th, t) ==
    /\ ticker[th].pc = "taking"
    /\ t \in Takeable
    /\ tasks[t].attempts <= MaxRetries
    /\ \A u \in Takeable : t <= u
    /\ tasks' = [tasks EXCEPT ![t].attempts = @ + 1]
    /\ ticker' = [ticker EXCEPT ![th].pc = "calling", ![th].job = t]
    /\ UNCHANGED <<nextTaskId, nextFlowId, flows, rules, cooling>>

\* takeNextTaskLocked: the oldest queued task whose backoff is over.
TakeTask(th, t) ==
    /\ ticker[th].pc = "taking"
    /\ t \in Takeable
    /\ \A u \in Takeable : t <= u
    /\ tasks' = [tasks EXCEPT ![t].status = "running", ![t].attempts = @ + 1]
    /\ ticker' = [ticker EXCEPT ![th].pc = "calling", ![th].job = t]
    /\ UNCHANGED <<nextTaskId, nextFlowId, flows, rules, cooling>>

TakeNothing(th) ==
    /\ ticker[th].pc = "taking"
    /\ Takeable = {}
    /\ ticker' = [ticker EXCEPT ![th] = Idle]
    /\ UNCHANGED <<nextTaskId, nextFlowId, tasks, flows, rules, cooling>>

NextTurn(th) ==
    ticker' = [ticker EXCEPT ![th] =
        IF @.left = 1 THEN Idle ELSE [pc |-> "taking", left |-> @.left - 1, job |-> 0]]

\* updateFlowAfterTaskLocked for a task that ended in this status.
FlowAfterTask(flow, kind, status) ==
    IF status = "succeeded"
    THEN [flow EXCEPT !.stage = IF kind = "question" THEN "waiting_answer" ELSE "completed"]
    ELSE [flow EXCEPT !.stage = "failed"]

UpdateFlow(t, status) ==
    flows' = IF tasks[t].flow = 0 THEN flows
             ELSE [flows EXCEPT ![tasks[t].flow] = FlowAfterTask(@, tasks[t].kind, status)]

\* finishTaskLocked never looks at the status the task has by now.
FinishSucceeded(th) ==
    LET t == ticker[th].job IN
    /\ ticker[th].pc = "calling"
    /\ tasks' = [tasks EXCEPT ![t].status = "succeeded"]
    /\ UpdateFlow(t, "succeeded")
    /\ NextTurn(th)
    /\ UNCHANGED <<nextTaskId, nextFlowId, rules, cooling>>

\* Mutant: one retry too many.
FinishRetryOnceMore(th) ==
    LET t == ticker[th].job IN
    /\ ticker[th].pc = "calling"
    /\ tasks[t].attempts <= MaxRetries + 1
    /\ tasks' = [tasks EXCEPT ![t].status = "queued", ![t].due = FALSE]
    /\ NextTurn(th)
    /\ UNCHANGED <<nextTaskId, nextFlowId, flows, rules, cooling>>

FinishRetry(th) ==
    LET t == ticker[th].job IN
    /\ ticker[th].pc = "calling"
    /\ tasks[t].attempts < MaxRetries + 1
    /\ tasks' = [tasks EXCEPT ![t].status = "queued", ![t].due = FALSE]
    /\ NextTurn(th)
    /\ UNCHANGED <<nextTaskId, nextFlowId, flows, rules, cooling>>

\* Mutant: a task that gives up leaves its flow alone.
FinishFailedSilently(th, outcome) ==
    LET t == ticker[th].job IN
    /\ ticker[th].pc = "calling"
    /\ tasks[t].attempts >= MaxRetries + 1
    /\ tasks' = [tasks EXCEPT ![t].status = outcome]
    /\ NextTurn(th)
    /\ UNCHANGED <<nextTaskId, nextFlowId, flows, rules, cooling>>

\* outcome: "failed", or "timed_out" when the call took longer than request_timeout.
FinishFailed(th, outcome) ==
    LET t == ticker[th].job IN
    /\ ticker[th].pc = "calling"
    /\ tasks[t].attempts >= MaxRetries + 1
    /\ tasks' = [tasks EXCEPT ![t].status = outcome]
    /\ UpdateFlow(t, outcome)
    /\ NextTurn(th)
    /\ UNCHANGED <<nextTaskId, nextFlowId, rules, cooling>>

\* An exception of the client leaves tick() without finishTaskLocked.
CallThrows(th) ==
    /\ ClientThrows
    /\ ticker[th].pc = "calling"
    /\ ticker' = [ticker EXCEPT ![th] = Idle]
    /\ UNCHANGED <<nextTaskId, nextFlowId, tasks, flows, rules, cooling>>

BackoffElapses(t) ==
    /\ tasks[t].status = "queued"
    /\ ~tasks[t].due
    /\ tasks' = [tasks EXCEPT ![t].due = TRUE]
    /\ UNCHANGED <<nextTaskId, nextFlowId, flows, rules, cooling, ticker>>

TickStep(th) ==
    \/ \E t \in TaskId : TakeTask(th, t)
    \/ TakeNothing(th)
    \/ FinishSucceeded(th)
    \/ FinishRetry(th)
    \/ \E outcome \in {"failed", "timed_out"} : FinishFailed(th, outcome)

Next ==
    \/ StartQuestionFlow
    \/ StartQuestionFlowRefused
    \/ \E f \in FlowId, a \in Answer : SubmitAnswer(f, a)
    \/ \E f \in FlowId, a \in Answer : SubmitAnswerRefused(f, a)
    \/ EnqueueTask
    \/ \E t \in TaskId : CancelTask(t)
    \/ \E rule \in Rule : RegisterTriggerRule(rule)
    \/ \E rule \in Rule : RemoveTriggerRule(rule)
    \/ \E key \in cooling : CooldownElapses(key)
    \/ \E matching \in SUBSET Rule, c \in Context : \E served \in SUBSET matching :
            HandleTriggerEvent(matching, c, served)
    \/ \E th \in Ticker, n \in 1..MaxBatch : TickStart(th, n)
    \/ \E th \in Ticker : TickStep(th)
    \/ \E th \in Ticker : CallThrows(th)
    \/ \E t \in TaskId : BackoffElapses(t)

Spec == Init /\ [][Next]_vars

\* A host that keeps calling tick(): each thread ticks again and again, every call to the
\* client returns, and time passes.  The library asks this of its host; the server of this
\* repository only ticks inside a request.
FairSpec ==
    /\ Spec
    /\ \A th \in Ticker : WF_vars(\E n \in 1..MaxBatch : TickStart(th, n))
    /\ \A th \in Ticker : WF_vars(TickStep(th))
    /\ \A t \in TaskId : WF_vars(BackoffElapses(t))

------------------------------------------------------------------------------
(* Properties *)

\* The shape of the state; attempts never exceed the retries the configuration allows.
TypeOK ==
    /\ nextTaskId \in 1..(MaxTasks + 1)
    /\ nextFlowId \in 1..(MaxFlows + 1)
    /\ tasks \in [TaskId -> Task]
    /\ flows \in [FlowId -> Flow]
    /\ rules \subseteq Rule
    /\ cooling \subseteq Rule \X Context
    /\ ticker \in [Ticker -> Thread]

Calling(th) == ticker[th].pc = "calling"

\* Two threads in tick() never have the client work on the same task, whatever is canceled,
\* retried or thrown meanwhile: a task only becomes takeable again through its own runner.
\* Hence a result never lands on a task that ended by itself: while the client works on it,
\* the task is still running, or was canceled behind the runner's back.
OneRunnerPerTask ==
    \A th \in Ticker : Calling(th) =>
        /\ \A other \in Ticker :
                Calling(other) /\ ticker[th].job = ticker[other].job => th = other
        /\ tasks[ticker[th].job].status \in {"running", "canceled"}

\* The stage of a flow and the tasks made for it agree: a flow waits for its answer exactly
\* when its question succeeded, and the player who answered has an explanation under way,
\* delivered, or a failure on record.  (A canceled task leaves its flow where it was.)
FlowFollowsItsTasks ==
    \A f \in FlowId :
        LET flow == flows[f]
            Status(t) == IF t = 0 THEN "absent" ELSE tasks[t].status
        IN
        /\ flow.stage = "generating_question" =>
                Status(flow.question) \in {"queued", "running", "canceled"}
        /\ flow.stage \in {"waiting_answer", "generating_explanation", "completed"} =>
                Status(flow.question) = "succeeded"
        /\ flow.stage = "waiting_answer" => flow.answer = NoAnswer
        /\ flow.stage = "generating_explanation" =>
                Status(flow.explanation) \in {"queued", "running", "canceled"}
        /\ flow.stage = "completed" =>
                flow.answer # NoAnswer /\ Status(flow.explanation) = "succeeded"

\* Flows only go forward: once a player's answer is stored no later submitAnswer, and no late
\* result, replaces it or reopens the flow; one that completed or failed stays as it is.
FlowsGoForward ==
    [][\A f \in FlowId :
        /\ flows[f].answer # NoAnswer =>
                flows'[f].answer = flows[f].answer /\ flows'[f].stage # "waiting_answer"
        /\ flows[f].stage \in {"completed", "failed"} => flows'[f] = flows[f]]_vars

\* A step of the client's runner that brings a task back that was canceled meanwhile.
Revives(t) == tasks[t].status = "canceled" /\ \E th \in Ticker : Calling(th) /\ ticker[th].job = t

\* Only its own runner brings a canceled task back: no tick picks it up, no backoff or answer
\* revives it.  And max_queued_tasks bounds the tasks that are queued or running, but for such
\* a revival, as the canceled task's slot was given away.
OnlyRunnersRevive ==
    [][/\ \A t \in TaskId : tasks[t].status = "canceled" /\ ~Revives(t)
                => tasks'[t].status = "canceled"
       /\ Cardinality(Active') > MaxQueued =>
                \/ Cardinality(Active') <= Cardinality(Active)
                \/ \E t \in Active' : Revives(t)]_vars

\* No step of a thread moves task t on: it was canceled, or the client threw and the task is
\* left running.
Stranded(t) ==
    t # 0 /\ \/ tasks[t].status = "canceled"
             \/ tasks[t].status = "running" /\ ~\E th \in Ticker : Calling(th) /\ ticker[th].job = t

\* With a host that keeps ticking and a client that returns, a flow does not stay in a generating
\* stage: the player gets a question, an explanation, or a failure.  Cancelation and a client
\* that throws are the only ways to strand it; retries, a full queue and other tasks are not.
GenerationEnds ==
    \A f \in FlowId :
        /\ flows[f].stage = "generating_question" ~>
                flows[f].stage \in {"waiting_answer", "failed"} \/ Stranded(flows[f].question)
        /\ flows[f].stage = "generating_explanation" ~>
                flows[f].stage \in {"completed", "failed"} \/ Stranded(flows[f].explanation)

==============================================================================
