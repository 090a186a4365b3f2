---------------------------- MODULE Gameplay_proofs ----------------------------
(***************************************************************************)
(* Theorems about AiOrchestrator, for every set of threads, rules and      *)
(* answers and every value of the limits, and about Gameplay, whose        *)
(* workers drive the orchestrator, for every set of workers, answers and   *)
(* audios and every value of the limits.                                   *)
(***************************************************************************)
EXTENDS Gameplay, FiniteSetTheorems, TLAPS

------------------------------------------------------------------------------
(* AiOrchestrator: the invariant *)

\* Ids that were not drawn are unused.
TasksAreFresh == \A t \in TaskId : t >= nextTaskId => tasks[t] = NoTask
FlowsAreFresh == \A f \in FlowId : f >= nextFlowId => flows[f] = NoFlow

\* A thread in its loop has a turn left, and a job while it calls.
ThreadsAreInTheirLoop ==
    \A th \in Ticker :
        /\ ticker[th].pc # "idle" => ticker[th].left # 0
        /\ Calling(th) => ticker[th].job # 0

\* A task that waits has an attempt left.
QueuedMayRun == \A t \in TaskId : tasks[t].status = "queued" => tasks[t].attempts <= MaxRetries

\* A task whose result may still come.
Live(t) ==
    \/ tasks[t].status \in {"queued", "running"}
    \/ \E th \in Ticker : Calling(th) /\ ticker[th].job = t

\* While a result may come the flow waits for it, and for no other.
LiveTasksHaveTheirFlow ==
    \A t \in TaskId : Live(t) /\ tasks[t].flow # 0 =>
        LET flow == flows[tasks[t].flow] IN
        \/ tasks[t].kind = "question" /\ flow.stage = "generating_question" /\ flow.question = t
        \/ tasks[t].kind = "explanation" /\ flow.stage = "generating_explanation"
                /\ flow.explanation = t

\* The tasks of a flow know it.
FlowsHaveTheirTasks ==
    \A f \in FlowId :
        /\ flows[f].question # 0 =>
            tasks[flows[f].question].flow = f /\ tasks[flows[f].question].kind = "question"
        /\ flows[f].explanation # 0 =>
            tasks[flows[f].explanation].flow = f /\ tasks[flows[f].explanation].kind = "explanation"

\* A flow has its answer from submitAnswer on.
AnswersAreStored ==
    \A f \in FlowId :
        /\ flows[f].stage \in {"absent", "generating_question"} => flows[f].answer = NoAnswer
        /\ flows[f].stage = "generating_explanation" => flows[f].answer # NoAnswer

TypeInv ==
    TypeOK /\ IsFiniteSet(rules) /\ TasksAreFresh /\ ThreadsAreInTheirLoop /\ QueuedMayRun

TaskInv == TypeInv /\ OneRunnerPerTask

FlowInv ==
    /\ FlowsAreFresh /\ AnswersAreStored
    /\ LiveTasksHaveTheirFlow /\ FlowsHaveTheirTasks /\ FlowFollowsItsTasks

------------------------------------------------------------------------------
(* Types, and what the operations do *)

LEMMA ConstantsTyped ==
    /\ MaxRetries \in Nat /\ MaxQueued \in Nat /\ MaxBatch \in Nat /\ MaxBatch # 0
    /\ MaxTasks \in Nat /\ MaxFlows \in Nat
    /\ Cancelable \subseteq {"queued", "running", "timed_out"}
    /\ NoAnswer \notin Answer
BY LimitsNat, CancelableStatuses, NoAnswerIsNone

LEMMA BlankTyped ==
    /\ NoTask \in Task /\ NoTask.status = "absent" /\ NoTask.kind = "other" /\ NoTask.flow = 0
    /\ NoFlow \in Flow /\ NoFlow.stage = "absent" /\ NoFlow.answer = NoAnswer
    /\ NoFlow.question = 0 /\ NoFlow.explanation = 0
    /\ Idle \in Thread /\ Idle.pc = "idle"
BY ConstantsTyped DEF NoTask, NoFlow, Idle, Task, Flow, Thread, TaskStatus, FlowStage

LEMMA NewTaskTyped ==
    ASSUME NEW kind \in {"question", "explanation", "other"}, NEW flow \in FlowId \cup {0}
    PROVE  /\ NewTask(kind, flow) \in Task
           /\ NewTask(kind, flow).status = "queued" /\ NewTask(kind, flow).attempts = 0
           /\ NewTask(kind, flow).kind = kind /\ NewTask(kind, flow).flow = flow
BY ConstantsTyped DEF NewTask, Task, TaskStatus

\* The next count ids become tasks of this kind.
Enqueues(kind, flow, count) ==
    /\ count \in Nat
    /\ nextTaskId + count <= MaxTasks + 1
    /\ nextTaskId' = nextTaskId + count
    /\ tasks' = [t \in TaskId |-> IF nextTaskId <= t /\ t < nextTaskId + count
                                  THEN NewTask(kind, flow) ELSE tasks[t]]

LEMMA EnqueueIsOne ==
    ASSUME TypeOK, NEW kind, NEW flow, Enqueue(kind, flow)
    PROVE  Enqueues(kind, flow, 1)
<1>1. nextTaskId \in TaskId /\ tasks \in [TaskId -> Task]
  BY ConstantsTyped DEF Enqueue, TypeOK, TaskId
<1>2. \A t \in TaskId : (nextTaskId <= t /\ t < nextTaskId + 1) <=> t = nextTaskId
  BY <1>1 DEF TaskId
<1>3. tasks' = [t \in TaskId |-> IF nextTaskId <= t /\ t < nextTaskId + 1
                                THEN NewTask(kind, flow) ELSE tasks[t]]
  <2>1. tasks' = [t \in TaskId |-> IF t = nextTaskId THEN NewTask(kind, flow) ELSE tasks[t]]
    BY <1>1 DEF Enqueue
  <2> QED
    BY <1>2, <2>1
<1>4. nextTaskId + 1 <= MaxTasks + 1 /\ nextTaskId' = nextTaskId + 1
  BY <1>1, ConstantsTyped DEF Enqueue, TaskId
<1> QED
  BY <1>3, <1>4 DEF Enqueues

LEMMA TriggerEnqueues ==
    ASSUME TypeInv, NEW matching, NEW context, NEW served,
           HandleTriggerEvent(matching, context, served)
    PROVE  Enqueues("other", 0, Cardinality(served))
<1>1. IsFiniteSet(served)
  BY FS_Subset DEF HandleTriggerEvent, TypeInv
<1>2. Cardinality(served) \in Nat /\ nextTaskId \in Nat
  BY <1>1, FS_CardinalityType, ConstantsTyped DEF TypeInv, TypeOK
<1>3. \A t \in TaskId : t \in nextTaskId..(nextTaskId + Cardinality(served) - 1)
                    <=> nextTaskId <= t /\ t < nextTaskId + Cardinality(served)
  BY <1>2 DEF TaskId
<1> QED
  BY <1>2, <1>3 DEF HandleTriggerEvent, Enqueues

LEMMA EnqueuesTyped ==
    ASSUME TypeInv, NEW kind \in {"question", "explanation", "other"},
           NEW flow \in FlowId \cup {0}, NEW count, Enqueues(kind, flow, count)
    PROVE  /\ nextTaskId' \in 1..(MaxTasks + 1) /\ nextTaskId' >= nextTaskId
           /\ tasks' \in [TaskId -> Task]
           /\ TasksAreFresh' /\ QueuedMayRun'
           /\ \A t \in TaskId : tasks'[t] = tasks[t] \/
                    (t >= nextTaskId /\ tasks[t] = NoTask /\ tasks'[t] = NewTask(kind, flow))
<1>1. nextTaskId \in 1..(MaxTasks + 1) /\ tasks \in [TaskId -> Task]
  BY DEF TypeInv, TypeOK
<1>2. nextTaskId' \in 1..(MaxTasks + 1) /\ nextTaskId' >= nextTaskId
  BY <1>1, ConstantsTyped DEF Enqueues
<1>3. tasks' \in [TaskId -> Task]
  BY <1>1, NewTaskTyped DEF Enqueues
<1>4. \A t \in TaskId : tasks'[t] = tasks[t] \/
            (t >= nextTaskId /\ tasks[t] = NoTask /\ tasks'[t] = NewTask(kind, flow))
  BY <1>1 DEF Enqueues, TypeInv, TasksAreFresh, TaskId
<1>5. TasksAreFresh'
  BY <1>1, ConstantsTyped DEF Enqueues, TypeInv, TasksAreFresh, TaskId
<1>6. QueuedMayRun'
  BY <1>4, NewTaskTyped, ConstantsTyped DEF TypeInv, QueuedMayRun
<1> QED
  BY <1>2, <1>3, <1>4, <1>5, <1>6

\* One task changes.
LEMMA TaskWritten ==
    ASSUME TypeInv, NEW t \in TaskId, NEW task \in Task, tasks[t] # NoTask,
           task.status = "queued" => task.attempts <= MaxRetries,
           tasks' = [tasks EXCEPT ![t] = task], nextTaskId' = nextTaskId
    PROVE  /\ tasks' \in [TaskId -> Task] /\ QueuedMayRun' /\ TasksAreFresh'
           /\ tasks'[t] = task /\ \A u \in TaskId \ {t} : tasks'[u] = tasks[u]
<1>1. tasks \in [TaskId -> Task]
  BY DEF TypeInv, TypeOK
<1>2. tasks' \in [TaskId -> Task] /\ tasks'[t] = task /\ \A u \in TaskId \ {t} : tasks'[u] = tasks[u]
  BY <1>1
<1>3. QueuedMayRun'
  BY <1>2 DEF TypeInv, QueuedMayRun
<1>4. TasksAreFresh'
  BY <1>2 DEF TypeInv, TasksAreFresh
<1> QED
  BY <1>2, <1>3, <1>4

\* One thread moves on.
LEMMA ThreadMoved ==
    ASSUME TypeInv, NEW th \in Ticker, NEW thread \in Thread,
           thread.pc # "idle" => thread.left # 0,
           thread.pc = "calling" => thread.job # 0,
           ticker' = [ticker EXCEPT ![th] = thread]
    PROVE  /\ ticker' \in [Ticker -> Thread] /\ ThreadsAreInTheirLoop'
           /\ ticker'[th] = thread /\ \A u \in Ticker \ {th} : ticker'[u] = ticker[u]
<1>1. ticker \in [Ticker -> Thread]
  BY DEF TypeInv, TypeOK
<1>2. ticker' \in [Ticker -> Thread] /\ ticker'[th] = thread
      /\ \A u \in Ticker \ {th} : ticker'[u] = ticker[u]
  BY <1>1
<1>3. ThreadsAreInTheirLoop'
  BY <1>2 DEF TypeInv, ThreadsAreInTheirLoop, Calling
<1> QED
  BY <1>2, <1>3

\* One flow changes.
LEMMA FlowWritten ==
    ASSUME TypeInv, NEW f \in FlowId, NEW flow \in Flow,
           flows' = [flows EXCEPT ![f] = flow]
    PROVE  /\ flows' \in [FlowId -> Flow]
           /\ flows'[f] = flow /\ \A g \in FlowId \ {f} : flows'[g] = flows[g]
BY DEF TypeInv, TypeOK

LEMMA NextTurnTyped ==
    ASSUME TypeInv, NEW th \in Ticker, Calling(th), NextTurn(th)
    PROVE  /\ ticker' \in [Ticker -> Thread] /\ ThreadsAreInTheirLoop'
           /\ ticker'[th].pc # "calling" /\ \A u \in Ticker \ {th} : ticker'[u] = ticker[u]
<1> DEFINE left == ticker[th].left
           thread == IF left = 1 THEN Idle ELSE [pc |-> "taking", left |-> left - 1, job |-> 0]
<1>1. ticker \in [Ticker -> Thread] /\ left \in 0..MaxBatch /\ left # 0
  BY DEF TypeInv, TypeOK, Thread, ThreadsAreInTheirLoop, Calling
<1>2. thread \in Thread /\ thread.pc # "calling" /\ (thread.pc # "idle" => thread.left # 0)
  BY <1>1, ConstantsTyped, BlankTyped DEF Thread
<1>3. ticker' = [ticker EXCEPT ![th] = thread]
  BY <1>1 DEF NextTurn
<1> HIDE DEF thread
<1> QED
  BY <1>2, <1>3, ThreadMoved

\* What takeNextTaskLocked does.
LEMMA TakeEffect ==
    ASSUME TypeInv, NEW th \in Ticker, NEW t \in TaskId, TakeTask(th, t)
    PROVE  /\ tasks[t].status = "queued"
           /\ tasks' \in [TaskId -> Task] /\ QueuedMayRun' /\ TasksAreFresh'
           /\ tasks'[t].status = "running"
           /\ tasks'[t].flow = tasks[t].flow /\ tasks'[t].kind = tasks[t].kind
           /\ \A u \in TaskId \ {t} : tasks'[u] = tasks[u]
           /\ ticker' \in [Ticker -> Thread] /\ ThreadsAreInTheirLoop'
           /\ ticker[th].pc = "taking" /\ ticker'[th].pc = "calling" /\ ticker'[th].job = t
           /\ \A u \in Ticker \ {th} : ticker'[u] = ticker[u]
           /\ UNCHANGED <<nextTaskId, nextFlowId, flows, rules, cooling>>
<1> DEFINE task == [tasks[t] EXCEPT !.status = "running", !.attempts = @ + 1]
           thread == [ticker[th] EXCEPT !.pc = "calling", !.job = t]
<1>1. tasks[t] \in Task /\ ticker[th] \in Thread /\ tasks[t].status = "queued"
      /\ ticker[th].pc = "taking" /\ ticker[th].left # 0 /\ tasks[t].attempts <= MaxRetries
  BY DEF TakeTask, Takeable, TypeInv, TypeOK, QueuedMayRun, ThreadsAreInTheirLoop
<1>2. task \in Task /\ task.status = "running" /\ task.flow = tasks[t].flow
      /\ task.kind = tasks[t].kind
  <2>1. tasks[t].attempts + 1 \in 0..(MaxRetries + 1)
    BY <1>1, ConstantsTyped DEF Task
  <2> QED
    BY <1>1, <2>1 DEF Task, TaskStatus
<1>3. thread \in Thread /\ thread.pc = "calling" /\ thread.job = t /\ thread.left # 0
  BY <1>1 DEF Thread
<1>4. tasks' = [tasks EXCEPT ![t] = task] /\ ticker' = [ticker EXCEPT ![th] = thread]
  BY DEF TakeTask
<1>5. t # 0 /\ tasks[t] # NoTask
  BY <1>1, BlankTyped DEF TaskId
<1>6. nextTaskId' = nextTaskId /\ UNCHANGED <<nextFlowId, flows, rules, cooling>>
  BY DEF TakeTask
<1> HIDE DEF task, thread
<1> QED
  BY <1>1, <1>2, <1>3, <1>4, <1>5, <1>6, TaskWritten, ThreadMoved

\* The ways a call of the client ends in finishTaskLocked, with the status that t gets.
Finish(th, status) ==
    \/ status = "succeeded" /\ FinishSucceeded(th)
    \/ status = "queued" /\ FinishRetry(th)
    \/ status \in {"failed", "timed_out"} /\ FinishFailed(th, status)

\* What finishTaskLocked does: it writes the task of the thread, and the flow of that task unless
\* it will be tried again.
LEMMA FinishEffect ==
    ASSUME TaskInv, NEW th \in Ticker, NEW status, Finish(th, status)
    PROVE  LET t == ticker[th].job
               f == tasks[t].flow
           IN
           /\ Calling(th) /\ t \in TaskId
           /\ status \in {"succeeded", "queued", "failed", "timed_out"}
           /\ tasks' \in [TaskId -> Task] /\ QueuedMayRun' /\ TasksAreFresh'
           /\ tasks'[t].status = status
           /\ tasks'[t].flow = tasks[t].flow /\ tasks'[t].kind = tasks[t].kind
           /\ \A u \in TaskId \ {t} : tasks'[u] = tasks[u]
           /\ flows' \in [FlowId -> Flow]
           /\ status = "queued" \/ f = 0 => flows' = flows
           /\ status # "queued" /\ f # 0 =>
                /\ f \in FlowId
                /\ flows'[f] = FlowAfterTask(flows[f], tasks[t].kind, status)
                /\ \A g \in FlowId \ {f} : flows'[g] = flows[g]
           /\ ticker' \in [Ticker -> Thread] /\ ThreadsAreInTheirLoop'
           /\ ticker'[th].pc # "calling" /\ \A u \in Ticker \ {th} : ticker'[u] = ticker[u]
           /\ UNCHANGED <<nextTaskId, nextFlowId, rules, cooling>>
<1> DEFINE t == ticker[th].job
           f == tasks[t].flow
           task == IF status = "queued" THEN [tasks[t] EXCEPT !.status = "queued", !.due = FALSE]
                                        ELSE [tasks[t] EXCEPT !.status = status]
<1>1. Calling(th) /\ NextTurn(th) /\ nextTaskId' = nextTaskId
      /\ UNCHANGED <<nextFlowId, rules, cooling>>
  BY DEF Finish, FinishSucceeded, FinishRetry, FinishFailed, Calling
<1>2. t \in TaskId
  BY <1>1 DEF TaskInv, TypeInv, TypeOK, Thread, ThreadsAreInTheirLoop
<1>3. status \in {"succeeded", "queued", "failed", "timed_out"}
  BY DEF Finish
<1>4. tasks[t] \in Task /\ tasks[t] # NoTask /\ f \in FlowId \cup {0}
  BY <1>1, <1>2, BlankTyped DEF TaskInv, TypeInv, TypeOK, Task, OneRunnerPerTask
<1>5. task \in Task /\ task.status = status /\ task.flow = f /\ task.kind = tasks[t].kind
      /\ task.attempts = tasks[t].attempts
  BY <1>3, <1>4 DEF Task, TaskStatus
<1>6. tasks' = [tasks EXCEPT ![t] = task]
  <2>1. CASE status = "queued"
    BY <1>2, <2>1 DEF Finish, FinishRetry, TaskInv, TypeInv, TypeOK
  <2>2. CASE status # "queued"
    BY <2>2 DEF Finish, FinishSucceeded, FinishFailed
  <2> QED
    BY <2>1, <2>2
<1>7. task.status = "queued" => task.attempts <= MaxRetries
  BY <1>4, <1>5, ConstantsTyped DEF Finish, FinishRetry, Task
<1>8. flows' = IF status = "queued" \/ f = 0 THEN flows
               ELSE [flows EXCEPT ![f] = FlowAfterTask(flows[f], tasks[t].kind, status)]
  BY <1>3 DEF Finish, FinishSucceeded, FinishRetry, FinishFailed, UpdateFlow, TaskInv, TypeInv, TypeOK
<1>9. ASSUME f # 0 PROVE f \in FlowId /\ FlowAfterTask(flows[f], tasks[t].kind, status) \in Flow
  <2>1. f \in FlowId /\ flows[f] \in Flow
    BY <1>4, <1>9 DEF TaskInv, TypeInv, TypeOK
  <2> QED
    BY <2>1 DEF FlowAfterTask, Flow, FlowStage
<1>10. /\ flows' \in [FlowId -> Flow]
       /\ status = "queued" \/ f = 0 => flows' = flows
       /\ status # "queued" /\ f # 0 =>
            /\ f \in FlowId
            /\ flows'[f] = FlowAfterTask(flows[f], tasks[t].kind, status)
            /\ \A g \in FlowId \ {f} : flows'[g] = flows[g]
  <2>1. CASE status = "queued" \/ f = 0
    BY <1>8, <2>1 DEF TaskInv, TypeInv, TypeOK
  <2>2. CASE ~(status = "queued" \/ f = 0)
    BY <1>8, <1>9, <2>2, FlowWritten DEF TaskInv
  <2> QED
    BY <2>1, <2>2
<1>11. /\ tasks' \in [TaskId -> Task] /\ QueuedMayRun' /\ TasksAreFresh'
       /\ tasks'[t] = task /\ \A u \in TaskId \ {t} : tasks'[u] = tasks[u]
  BY <1>1, <1>2, <1>4, <1>5, <1>6, <1>7, TaskWritten DEF TaskInv
<1>12. /\ ticker' \in [Ticker -> Thread] /\ ThreadsAreInTheirLoop'
       /\ ticker'[th].pc # "calling" /\ \A u \in Ticker \ {th} : ticker'[u] = ticker[u]
  BY <1>1, NextTurnTyped DEF TaskInv
<1> HIDE DEF t, f, task
<1>13. UNCHANGED <<nextTaskId, nextFlowId, rules, cooling>>
  BY <1>1
<1> QED
  BY <1>1, <1>2, <1>3, <1>5, <1>10, <1>11, <1>12, <1>13 DEF t, f

------------------------------------------------------------------------------
(* Type correctness, and one runner per task *)

LEMMA TaskInit ==
    ASSUME Init
    PROVE  TaskInv
<1>1. TypeOK
  <2>1. nextTaskId \in 1..(MaxTasks + 1) /\ nextFlowId \in 1..(MaxFlows + 1)
    BY ConstantsTyped DEF Init
  <2> QED
    BY <2>1, BlankTyped DEF Init, TypeOK
<1>2. IsFiniteSet(rules)
  BY FS_EmptySet DEF Init
<1>3. TasksAreFresh /\ ThreadsAreInTheirLoop /\ QueuedMayRun /\ OneRunnerPerTask
  BY BlankTyped
     DEF Init, TasksAreFresh, ThreadsAreInTheirLoop, QueuedMayRun, OneRunnerPerTask, Calling
<1> QED
  BY <1>1, <1>2, <1>3 DEF TaskInv, TypeInv

\* A step after which no thread calls that did not, and that keeps the tasks in work, keeps one
\* runner per task.
LEMMA RunnersKept ==
    ASSUME TaskInv,
           \A th \in Ticker : Calling(th)' =>
                /\ Calling(th) /\ ticker'[th].job = ticker[th].job
                /\ tasks'[ticker[th].job].status \in {"running", "canceled"}
    PROVE  OneRunnerPerTask'
BY DEF TaskInv, OneRunnerPerTask

\* Steps that leave the tasks and the threads alone.
LEMMA TaskInvElsewhere ==
    ASSUME TaskInv, UNCHANGED <<nextTaskId, tasks, ticker>>,
           nextFlowId' \in 1..(MaxFlows + 1), flows' \in [FlowId -> Flow],
           rules' \subseteq Rule, IsFiniteSet(rules'), cooling' \subseteq Rule \X Context
    PROVE  TaskInv'
<1>1. TypeOK'
  BY DEF TaskInv, TypeInv, TypeOK
<1>2. TasksAreFresh' /\ ThreadsAreInTheirLoop' /\ QueuedMayRun' /\ OneRunnerPerTask'
  BY DEF TaskInv, TypeInv, TasksAreFresh, ThreadsAreInTheirLoop, QueuedMayRun, OneRunnerPerTask,
         Calling
<1> QED
  BY <1>1, <1>2 DEF TaskInv, TypeInv

\* Steps of a thread that end outside a call and leave the tasks alone.
LEMMA TaskInvThread ==
    ASSUME TaskInv, NEW th \in Ticker, NEW thread \in Thread, thread.pc # "calling",
           thread.pc # "idle" => thread.left # 0,
           ticker' = [ticker EXCEPT ![th] = thread],
           UNCHANGED <<nextTaskId, nextFlowId, tasks, flows, rules, cooling>>
    PROVE  TaskInv'
<1>1. /\ ticker' \in [Ticker -> Thread] /\ ThreadsAreInTheirLoop'
      /\ ticker'[th] = thread /\ \A u \in Ticker \ {th} : ticker'[u] = ticker[u]
  BY ThreadMoved DEF TaskInv
<1>2. TypeOK' /\ TasksAreFresh' /\ QueuedMayRun' /\ IsFiniteSet(rules')
  BY <1>1 DEF TaskInv, TypeInv, TypeOK, TasksAreFresh, QueuedMayRun
<1>3. OneRunnerPerTask'
  BY <1>1 DEF TaskInv, OneRunnerPerTask, Calling
<1> QED
  BY <1>1, <1>2, <1>3 DEF TaskInv, TypeInv

\* Steps that make tasks.
LEMMA TaskInvEnqueues ==
    ASSUME TaskInv, NEW kind \in {"question", "explanation", "other"},
           NEW flow \in FlowId \cup {0}, NEW count, Enqueues(kind, flow, count),
           nextFlowId' \in 1..(MaxFlows + 1), flows' \in [FlowId -> Flow],
           cooling' \subseteq Rule \X Context, UNCHANGED <<rules, ticker>>
    PROVE  TaskInv'
<1>1. /\ nextTaskId' \in 1..(MaxTasks + 1)
      /\ tasks' \in [TaskId -> Task] /\ TasksAreFresh' /\ QueuedMayRun'
      /\ \A t \in TaskId : tasks'[t] = tasks[t] \/
            (t >= nextTaskId /\ tasks[t] = NoTask /\ tasks'[t] = NewTask(kind, flow))
  BY EnqueuesTyped DEF TaskInv
<1>2. TypeOK' /\ ThreadsAreInTheirLoop' /\ IsFiniteSet(rules')
  BY <1>1 DEF TaskInv, TypeInv, TypeOK, ThreadsAreInTheirLoop, Calling
<1>3. ASSUME NEW th \in Ticker, Calling(th)
      PROVE  tasks'[ticker[th].job] = tasks[ticker[th].job]
  <2>1. ticker[th].job \in TaskId /\ tasks[ticker[th].job] # NoTask
    BY <1>3, BlankTyped
       DEF TaskInv, TypeInv, TypeOK, Thread, ThreadsAreInTheirLoop, OneRunnerPerTask
  <2> QED
    BY <1>1, <2>1
<1>4. OneRunnerPerTask'
  BY <1>3 DEF TaskInv, OneRunnerPerTask, Calling
<1> QED
  BY <1>1, <1>2, <1>4 DEF TaskInv, TypeInv

LEMMA TaskInvCancel ==
    ASSUME TaskInv, NEW t \in TaskId, CancelTask(t)
    PROVE  TaskInv'
<1> DEFINE task == [tasks[t] EXCEPT !.status = "canceled"]
<1>1. tasks[t] \in Task /\ tasks[t] # NoTask
  BY ConstantsTyped, BlankTyped DEF CancelTask, TaskInv, TypeInv, TypeOK
<1>2. task \in Task /\ task.status = "canceled"
  BY <1>1 DEF Task, TaskStatus
<1>3. tasks' = [tasks EXCEPT ![t] = task] /\ nextTaskId' = nextTaskId
      /\ UNCHANGED <<nextFlowId, flows, rules, cooling, ticker>>
  BY DEF CancelTask
<1> HIDE DEF task
<1>4. /\ tasks' \in [TaskId -> Task] /\ QueuedMayRun' /\ TasksAreFresh'
      /\ tasks'[t] = task /\ \A u \in TaskId \ {t} : tasks'[u] = tasks[u]
  BY <1>1, <1>2, <1>3, TaskWritten DEF TaskInv
<1>5. TypeOK' /\ ThreadsAreInTheirLoop' /\ IsFiniteSet(rules')
  BY <1>3, <1>4 DEF TaskInv, TypeInv, TypeOK, ThreadsAreInTheirLoop, Calling
<1>6. OneRunnerPerTask'
  <2>1. \A th \in Ticker : Calling(th) => ticker[th].job \in TaskId
    BY DEF TaskInv, TypeInv, TypeOK, Thread, ThreadsAreInTheirLoop
  <2> QED
    BY <1>2, <1>3, <1>4, <2>1 DEF TaskInv, OneRunnerPerTask, Calling
<1> QED
  BY <1>4, <1>5, <1>6 DEF TaskInv, TypeInv

LEMMA TaskInvBackoff ==
    ASSUME TaskInv, NEW t \in TaskId, BackoffElapses(t)
    PROVE  TaskInv'
<1> DEFINE task == [tasks[t] EXCEPT !.due = TRUE]
<1>1. tasks[t] \in Task /\ tasks[t] # NoTask /\ tasks[t].status = "queued"
  BY BlankTyped DEF BackoffElapses, TaskInv, TypeInv, TypeOK
<1>2. task \in Task /\ task.status = "queued" /\ task.attempts <= MaxRetries
  BY <1>1 DEF Task, TaskInv, TypeInv, QueuedMayRun
<1>3. tasks' = [tasks EXCEPT ![t] = task] /\ nextTaskId' = nextTaskId
      /\ UNCHANGED <<nextFlowId, flows, rules, cooling, ticker>>
  BY DEF BackoffElapses
<1> HIDE DEF task
<1>4. /\ tasks' \in [TaskId -> Task] /\ QueuedMayRun' /\ TasksAreFresh'
      /\ tasks'[t] = task /\ \A u \in TaskId \ {t} : tasks'[u] = tasks[u]
  BY <1>1, <1>2, <1>3, TaskWritten DEF TaskInv
<1>5. TypeOK' /\ ThreadsAreInTheirLoop' /\ IsFiniteSet(rules')
  BY <1>3, <1>4 DEF TaskInv, TypeInv, TypeOK, ThreadsAreInTheirLoop, Calling
<1>6. OneRunnerPerTask'
  <2>1. \A th \in Ticker : Calling(th) => ticker[th].job \in TaskId \ {t}
    BY <1>1 DEF TaskInv, TypeInv, TypeOK, Thread, ThreadsAreInTheirLoop, OneRunnerPerTask
  <2> QED
    BY <1>3, <1>4, <2>1 DEF TaskInv, OneRunnerPerTask, Calling
<1> QED
  BY <1>4, <1>5, <1>6 DEF TaskInv, TypeInv

\* A task that is taken is queued, so no thread works on it.
LEMMA TaskInvTake ==
    ASSUME TaskInv, NEW th \in Ticker, NEW t \in TaskId, TakeTask(th, t)
    PROVE  TaskInv'
<1>1. /\ tasks[t].status = "queued"
      /\ tasks' \in [TaskId -> Task] /\ QueuedMayRun' /\ TasksAreFresh'
      /\ tasks'[t].status = "running" /\ \A u \in TaskId \ {t} : tasks'[u] = tasks[u]
      /\ ticker' \in [Ticker -> Thread] /\ ThreadsAreInTheirLoop'
      /\ ticker'[th].pc = "calling" /\ ticker'[th].job = t
      /\ \A u \in Ticker \ {th} : ticker'[u] = ticker[u]
      /\ UNCHANGED <<nextTaskId, nextFlowId, flows, rules, cooling>>
  BY TakeEffect DEF TaskInv
<1>2. TypeOK' /\ IsFiniteSet(rules')
  BY <1>1 DEF TaskInv, TypeInv, TypeOK
<1>3. \A u \in Ticker : Calling(u) => ticker[u].job \in TaskId \ {t}
  BY <1>1 DEF TaskInv, TypeInv, TypeOK, Thread, ThreadsAreInTheirLoop, OneRunnerPerTask
<1>4. OneRunnerPerTask'
  BY <1>1, <1>3 DEF TaskInv, OneRunnerPerTask, Calling
<1> QED
  BY <1>1, <1>2, <1>4 DEF TaskInv, TypeInv

LEMMA TaskInvFinish ==
    ASSUME TaskInv, NEW th \in Ticker, NEW status, Finish(th, status)
    PROVE  TaskInv'
<1> DEFINE t == ticker[th].job
<1>1. /\ Calling(th) /\ t \in TaskId
      /\ tasks' \in [TaskId -> Task] /\ QueuedMayRun' /\ TasksAreFresh'
      /\ \A u \in TaskId \ {t} : tasks'[u] = tasks[u]
      /\ flows' \in [FlowId -> Flow]
      /\ ticker' \in [Ticker -> Thread] /\ ThreadsAreInTheirLoop'
      /\ ticker'[th].pc # "calling" /\ \A u \in Ticker \ {th} : ticker'[u] = ticker[u]
      /\ UNCHANGED <<nextTaskId, nextFlowId, rules, cooling>>
  BY FinishEffect
<1>2. TypeOK' /\ IsFiniteSet(rules')
  BY <1>1 DEF TaskInv, TypeInv, TypeOK
<1>3. \A u \in Ticker \ {th} : Calling(u) => ticker[u].job \in TaskId \ {t}
  BY <1>1 DEF TaskInv, TypeInv, TypeOK, Thread, ThreadsAreInTheirLoop, OneRunnerPerTask
<1>4. OneRunnerPerTask'
  BY <1>1, <1>3 DEF TaskInv, OneRunnerPerTask, Calling
<1> QED
  BY <1>1, <1>2, <1>4 DEF TaskInv, TypeInv

\* What startQuestionFlow does to the flows, and that it makes one task.
LEMMA StartEffect ==
    ASSUME TypeInv, StartQuestionFlow
    PROVE  /\ nextTaskId \in TaskId /\ nextFlowId \in FlowId
           /\ Enqueues("question", nextFlowId, 1)
           /\ nextFlowId' \in 1..(MaxFlows + 1) /\ nextFlowId' = nextFlowId + 1
           /\ flows' \in [FlowId -> Flow]
           /\ flows'[nextFlowId].stage = "generating_question"
           /\ flows'[nextFlowId].question = nextTaskId
           /\ flows'[nextFlowId].explanation = 0
           /\ flows'[nextFlowId].answer = NoAnswer
           /\ \A g \in FlowId \ {nextFlowId} : flows'[g] = flows[g]
           /\ UNCHANGED <<rules, cooling, ticker>>
<1> DEFINE flow == [NoFlow EXCEPT !.stage = "generating_question", !.question = nextTaskId]
<1>1. nextTaskId \in TaskId /\ nextFlowId \in FlowId
  BY ConstantsTyped DEF StartQuestionFlow, Enqueue, TypeInv, TypeOK, TaskId, FlowId
<1>2. flow \in Flow /\ flow.stage = "generating_question" /\ flow.question = nextTaskId
      /\ flow.explanation = 0 /\ flow.answer = NoAnswer
  BY <1>1 DEF NoFlow, Flow, FlowStage
<1>3. flows' = [flows EXCEPT ![nextFlowId] = flow] /\ UNCHANGED <<rules, cooling, ticker>>
  BY DEF StartQuestionFlow
<1>4. nextFlowId' \in 1..(MaxFlows + 1) /\ nextFlowId' = nextFlowId + 1
  BY <1>1, ConstantsTyped DEF StartQuestionFlow, FlowId
<1>5. Enqueues("question", nextFlowId, 1)
  BY EnqueueIsOne DEF StartQuestionFlow, TypeInv
<1> HIDE DEF flow
<1> QED
  BY <1>1, <1>2, <1>3, <1>4, <1>5, FlowWritten

\* What submitAnswer does when the queue takes the task.
LEMMA SubmitEffect ==
    ASSUME TypeInv, NEW f \in FlowId, NEW answer \in Answer, SubmitAnswer(f, answer)
    PROVE  /\ nextTaskId \in TaskId /\ flows[f].stage = "waiting_answer"
           /\ Enqueues("explanation", f, 1)
           /\ flows' \in [FlowId -> Flow]
           /\ flows'[f].stage = "generating_explanation" /\ flows'[f].answer = answer
           /\ flows'[f].explanation = nextTaskId /\ flows'[f].question = flows[f].question
           /\ \A g \in FlowId \ {f} : flows'[g] = flows[g]
           /\ UNCHANGED <<nextFlowId, rules, cooling, ticker>>
<1> DEFINE flow == [flows[f] EXCEPT !.stage = "generating_explanation", !.answer = answer,
                                    !.explanation = nextTaskId]
<1>1. nextTaskId \in TaskId /\ flows \in [FlowId -> Flow]
  BY ConstantsTyped DEF SubmitAnswer, Enqueue, TypeInv, TypeOK, TaskId
<1>2. flow \in Flow /\ flow.stage = "generating_explanation" /\ flow.answer = answer
      /\ flow.explanation = nextTaskId /\ flow.question = flows[f].question
  BY <1>1 DEF Flow, FlowStage
<1>3. flows' = [flows EXCEPT ![f] = flow]
  BY <1>1 DEF SubmitAnswer
<1>4. flows[f].stage = "waiting_answer" /\ UNCHANGED <<nextFlowId, rules, cooling, ticker>>
  BY DEF SubmitAnswer
<1>5. Enqueues("explanation", f, 1)
  BY EnqueueIsOne DEF SubmitAnswer, TypeInv
<1> HIDE DEF flow
<1> QED
  BY <1>1, <1>2, <1>3, <1>4, <1>5, FlowWritten

\* What submitAnswer does when the queue is full.
LEMMA RefusedEffect ==
    ASSUME TypeInv, NEW f \in FlowId, NEW answer \in Answer, SubmitAnswerRefused(f, answer)
    PROVE  /\ flows[f].stage = "waiting_answer"
           /\ flows' \in [FlowId -> Flow]
           /\ flows'[f].stage = "failed" /\ flows'[f].answer = answer
           /\ flows'[f].explanation = flows[f].explanation
           /\ flows'[f].question = flows[f].question
           /\ \A g \in FlowId \ {f} : flows'[g] = flows[g]
           /\ UNCHANGED <<nextTaskId, nextFlowId, tasks, rules, cooling, ticker>>
<1> DEFINE flow == [flows[f] EXCEPT !.stage = "failed", !.answer = answer]
<1>1. flows \in [FlowId -> Flow]
  BY DEF TypeInv, TypeOK
<1>2. flow \in Flow /\ flow.stage = "failed" /\ flow.answer = answer
      /\ flow.explanation = flows[f].explanation /\ flow.question = flows[f].question
  BY <1>1 DEF Flow, FlowStage
<1>3. flows' = [flows EXCEPT ![f] = flow]
  BY <1>1 DEF SubmitAnswerRefused
<1>4. flows[f].stage = "waiting_answer"
      /\ UNCHANGED <<nextTaskId, nextFlowId, tasks, rules, cooling, ticker>>
  BY DEF SubmitAnswerRefused
<1> HIDE DEF flow
<1> QED
  BY <1>1, <1>2, <1>3, <1>4, FlowWritten

\* The steps that only draw a flow id, change the rules or let a cooldown end.
Minor ==
    \/ StartQuestionFlowRefused
    \/ \E rule \in Rule : RegisterTriggerRule(rule)
    \/ \E rule \in Rule : RemoveTriggerRule(rule)
    \/ \E key \in cooling : CooldownElapses(key)

\* The steps of a thread that touch nothing but the thread.
ThreadOnly(th) ==
    \/ \E n \in 1..MaxBatch : TickStart(th, n)
    \/ TakeNothing(th)
    \/ CallThrows(th)

\* The steps, grouped by what they write.
LEMMA Steps ==
    ASSUME Next
    PROVE  \/ Minor
           \/ \E th \in Ticker : ThreadOnly(th)
           \/ EnqueueTask \/ StartQuestionFlow
           \/ \E matching \in SUBSET Rule, c \in Context : \E served \in SUBSET matching :
                    HandleTriggerEvent(matching, c, served)
           \/ \E f \in FlowId, a \in Answer : SubmitAnswer(f, a) \/ SubmitAnswerRefused(f, a)
           \/ \E t \in TaskId : CancelTask(t) \/ BackoffElapses(t)
           \/ \E th \in Ticker, t \in TaskId : TakeTask(th, t)
           \/ \E th \in Ticker, status \in TaskStatus : Finish(th, status)
<1>1. ASSUME NEW th \in Ticker, TickStep(th)
      PROVE  \/ ThreadOnly(th)
             \/ \E t \in TaskId : TakeTask(th, t)
             \/ \E status \in TaskStatus : Finish(th, status)
  <2>1. CASE \E t \in TaskId : TakeTask(th, t)
    BY <2>1
  <2>2. CASE TakeNothing(th)
    BY <2>2 DEF ThreadOnly
  <2>3. CASE FinishSucceeded(th)
    BY <2>3 DEF Finish, TaskStatus
  <2>4. CASE FinishRetry(th)
    BY <2>4 DEF Finish, TaskStatus
  <2>5. CASE \E outcome \in {"failed", "timed_out"} : FinishFailed(th, outcome)
    BY <2>5 DEF Finish, TaskStatus
  <2> QED
    BY <1>1, <2>1, <2>2, <2>3, <2>4, <2>5 DEF TickStep
<1>2. ASSUME NEW th \in Ticker, (\E n \in 1..MaxBatch : TickStart(th, n)) \/ CallThrows(th)
      PROVE  ThreadOnly(th)
  BY <1>2 DEF ThreadOnly
<1> QED
  BY <1>1, <1>2 DEF Next, Minor

\* What the minor steps leave alone.
LEMMA MinorEffect ==
    ASSUME TypeInv, Minor
    PROVE  /\ UNCHANGED <<nextTaskId, tasks, ticker, flows>>
           /\ nextFlowId' \in 1..(MaxFlows + 1) /\ nextFlowId' >= nextFlowId
           /\ rules' \subseteq Rule /\ IsFiniteSet(rules') /\ cooling' \subseteq Rule \X Context
<1>1. CASE StartQuestionFlowRefused
  BY <1>1, ConstantsTyped DEF StartQuestionFlowRefused, TypeInv, TypeOK
<1>2. CASE \E rule \in Rule : RegisterTriggerRule(rule)
  <2>1. PICK rule \in Rule : RegisterTriggerRule(rule)
    BY <1>2
  <2>2. IsFiniteSet(rules \cup {rule})
    BY FS_AddElement DEF TypeInv
  <2> QED
    BY <2>1, <2>2, ConstantsTyped DEF RegisterTriggerRule, TypeInv, TypeOK
<1>3. CASE \E rule \in Rule : RemoveTriggerRule(rule)
  <2>1. PICK rule \in Rule : RemoveTriggerRule(rule)
    BY <1>3
  <2>2. IsFiniteSet(rules \ {rule})
    BY FS_RemoveElement DEF TypeInv
  <2> QED
    BY <2>1, <2>2, ConstantsTyped DEF RemoveTriggerRule, TypeInv, TypeOK
<1>4. CASE \E key \in cooling : CooldownElapses(key)
  BY <1>4, ConstantsTyped DEF CooldownElapses, TypeInv, TypeOK
<1> QED
  BY <1>1, <1>2, <1>3, <1>4 DEF Minor

\* What the steps of a thread leave alone.
LEMMA ThreadOnlyEffect ==
    ASSUME TypeInv, NEW th \in Ticker, ThreadOnly(th)
    PROVE  /\ UNCHANGED <<nextTaskId, nextFlowId, tasks, flows, rules, cooling>>
           /\ \E thread \in Thread :
                /\ thread.pc # "calling" /\ (thread.pc # "idle" => thread.left # 0)
                /\ ticker' = [ticker EXCEPT ![th] = thread]
<1>1. ASSUME NEW n \in 1..MaxBatch, TickStart(th, n)
      PROVE  \E thread \in Thread :
                /\ thread.pc # "calling" /\ (thread.pc # "idle" => thread.left # 0)
                /\ ticker' = [ticker EXCEPT ![th] = thread]
  <2> DEFINE thread == [pc |-> "taking", left |-> n, job |-> 0]
  <2>1. n \in 0..MaxBatch /\ n # 0
    BY ConstantsTyped
  <2>2. thread \in Thread /\ thread.pc # "calling" /\ thread.left # 0
    BY <2>1 DEF Thread
  <2>3. ticker' = [ticker EXCEPT ![th] = thread]
    BY <1>1 DEF TickStart
  <2> HIDE DEF thread
  <2> QED
    BY <2>2, <2>3
<1>2. ASSUME TakeNothing(th) \/ CallThrows(th)
      PROVE  \E thread \in Thread :
                /\ thread.pc # "calling" /\ (thread.pc # "idle" => thread.left # 0)
                /\ ticker' = [ticker EXCEPT ![th] = thread]
  <2>1. ticker' = [ticker EXCEPT ![th] = Idle]
    BY <1>2 DEF TakeNothing, CallThrows
  <2> QED
    BY <2>1, BlankTyped
<1>3. UNCHANGED <<nextTaskId, nextFlowId, tasks, flows, rules, cooling>>
  BY DEF ThreadOnly, TickStart, TakeNothing, CallThrows
<1> QED
  BY <1>1, <1>2, <1>3 DEF ThreadOnly

\* Every step keeps the types and one runner per task.
LEMMA TaskStep ==
    ASSUME TaskInv, [Next]_vars
    PROVE  TaskInv'
<1>1. CASE Minor
  <2>1. flows \in [FlowId -> Flow]
    BY DEF TaskInv, TypeInv, TypeOK
  <2> QED
    BY <1>1, <2>1, MinorEffect, TaskInvElsewhere DEF TaskInv
<1>2. ASSUME NEW th \in Ticker, ThreadOnly(th) PROVE TaskInv'
  BY <1>2, ThreadOnlyEffect, TaskInvThread DEF TaskInv
<1>3. CASE EnqueueTask
  <2>1. Enqueues("other", 0, 1)
    BY <1>3, EnqueueIsOne DEF EnqueueTask, TaskInv, TypeInv
  <2>2. /\ nextFlowId' \in 1..(MaxFlows + 1) /\ flows' \in [FlowId -> Flow]
        /\ cooling' \subseteq Rule \X Context /\ UNCHANGED <<rules, ticker>>
    BY <1>3 DEF EnqueueTask, TaskInv, TypeInv, TypeOK
  <2> QED
    BY <2>1, <2>2, TaskInvEnqueues
<1>4. CASE StartQuestionFlow
  <2>1. cooling \subseteq Rule \X Context
    BY DEF TaskInv, TypeInv, TypeOK
  <2> QED
    BY <1>4, <2>1, StartEffect, TaskInvEnqueues DEF TaskInv
<1>5. ASSUME NEW matching \in SUBSET Rule, NEW c \in Context, NEW served \in SUBSET matching,
             HandleTriggerEvent(matching, c, served)
      PROVE  TaskInv'
  <2>1. Enqueues("other", 0, Cardinality(served))
    BY <1>5, TriggerEnqueues DEF TaskInv
  <2>2. /\ nextFlowId' \in 1..(MaxFlows + 1) /\ flows' \in [FlowId -> Flow]
        /\ cooling' \subseteq Rule \X Context /\ UNCHANGED <<rules, ticker>>
    BY <1>5 DEF HandleTriggerEvent, TaskInv, TypeInv, TypeOK
  <2> QED
    BY <2>1, <2>2, TaskInvEnqueues
<1>6. ASSUME NEW f \in FlowId, NEW a \in Answer, SubmitAnswer(f, a)
      PROVE  TaskInv'
  <2>1. nextFlowId \in 1..(MaxFlows + 1) /\ cooling \subseteq Rule \X Context
    BY DEF TaskInv, TypeInv, TypeOK
  <2> QED
    BY <1>6, <2>1, SubmitEffect, TaskInvEnqueues DEF TaskInv
<1>7. ASSUME NEW f \in FlowId, NEW a \in Answer, SubmitAnswerRefused(f, a)
      PROVE  TaskInv'
  <2>1. /\ nextFlowId \in 1..(MaxFlows + 1) /\ cooling \subseteq Rule \X Context
        /\ rules \subseteq Rule /\ IsFiniteSet(rules)
    BY DEF TaskInv, TypeInv, TypeOK
  <2> QED
    BY <1>7, <2>1, RefusedEffect, TaskInvElsewhere DEF TaskInv
<1>8. ASSUME NEW t \in TaskId, CancelTask(t) \/ BackoffElapses(t) PROVE TaskInv'
  BY <1>8, TaskInvCancel, TaskInvBackoff
<1>9. ASSUME NEW th \in Ticker, NEW t \in TaskId, TakeTask(th, t) PROVE TaskInv'
  BY <1>9, TaskInvTake
<1>10. ASSUME NEW th \in Ticker, NEW status \in TaskStatus, Finish(th, status) PROVE TaskInv'
  BY <1>10, TaskInvFinish
<1>11. CASE UNCHANGED vars
  BY <1>11, TaskInvElsewhere DEF vars, TaskInv, TypeInv, TypeOK
<1> QED
  BY <1>1, <1>2, <1>3, <1>4, <1>5, <1>6, <1>7, <1>8, <1>9, <1>10, <1>11, Steps

\* The state keeps its shape, and no task is attempted more often than max_retries + 1 times:
\* enqueueTaskLocked, takeNextTaskLocked and finishTaskLocked, in any number of threads.
THEOREM TypeCorrect == Spec => []TypeOK
<1>1. Init => TaskInv
  BY TaskInit
<1>2. TaskInv /\ [Next]_vars => TaskInv'
  BY TaskStep
<1>3. TaskInv => TypeOK
  BY DEF TaskInv, TypeInv
<1> QED
  BY <1>1, <1>2, <1>3, PTL DEF Spec

\* tick() never has the client work on one task twice at a time, for any number of threads that
\* tick, cancel, retry and throw.
THEOREM TasksHaveOneRunner == Spec => []OneRunnerPerTask
<1>1. Init => TaskInv
  BY TaskInit
<1>2. TaskInv /\ [Next]_vars => TaskInv'
  BY TaskStep
<1>3. TaskInv => OneRunnerPerTask
  BY DEF TaskInv
<1> QED
  BY <1>1, <1>2, <1>3, PTL DEF Spec

------------------------------------------------------------------------------
(* Flows and their tasks *)

\* The parts of FlowInv, for one flow and for one task.
Stored(f) ==
    /\ flows[f].stage \in {"absent", "generating_question"} => flows[f].answer = NoAnswer
    /\ flows[f].stage = "generating_explanation" => flows[f].answer # NoAnswer

Owning(f) ==
    /\ flows[f].question # 0 =>
        tasks[flows[f].question].flow = f /\ tasks[flows[f].question].kind = "question"
    /\ flows[f].explanation # 0 =>
        tasks[flows[f].explanation].flow = f /\ tasks[flows[f].explanation].kind = "explanation"

StatusOf(t) == IF t = 0 THEN "absent" ELSE tasks[t].status

Following(f) ==
    /\ flows[f].stage = "generating_question" =>
            StatusOf(flows[f].question) \in {"queued", "running", "canceled"}
    /\ flows[f].stage \in {"waiting_answer", "generating_explanation", "completed"} =>
            StatusOf(flows[f].question) = "succeeded"
    /\ flows[f].stage = "waiting_answer" => flows[f].answer = NoAnswer
    /\ flows[f].stage = "generating_explanation" =>
            StatusOf(flows[f].explanation) \in {"queued", "running", "canceled"}
    /\ flows[f].stage = "completed" =>
            flows[f].answer # NoAnswer /\ StatusOf(flows[f].explanation) = "succeeded"

AwaitedBy(t, f) ==
    \/ tasks[t].kind = "question" /\ flows[f].stage = "generating_question"
            /\ flows[f].question = t
    \/ tasks[t].kind = "explanation" /\ flows[f].stage = "generating_explanation"
            /\ flows[f].explanation = t

LEMMA FlowParts ==
    FlowInv <=> /\ FlowsAreFresh
                /\ \A f \in FlowId : Stored(f) /\ Owning(f) /\ Following(f)
                /\ \A t \in TaskId : Live(t) /\ tasks[t].flow # 0 => AwaitedBy(t, tasks[t].flow)
BY DEF FlowInv, AnswersAreStored, FlowsHaveTheirTasks, FlowFollowsItsTasks,
       LiveTasksHaveTheirFlow, Stored, Owning, Following, StatusOf, AwaitedBy

\* The task t is left as the flows other than f want it: it belongs to the same flow, and when that
\* is not f, it did not succeed, fail, or come back to life.
KeptBut(f, t) ==
    /\ tasks[t].flow # 0 \/ tasks'[t].flow # f =>
            tasks'[t].flow = tasks[t].flow /\ tasks'[t].kind = tasks[t].kind
    /\ tasks[t].flow \notin {0, f} =>
            /\ \/ tasks'[t].status = tasks[t].status
               \/ /\ tasks[t].status # "succeeded"
                  /\ tasks'[t].status \in {"queued", "running", "canceled"}
            /\ Live(t)' => Live(t)

\* A step that leaves every flow but f and every task but those of f as they are needs to be looked
\* at for f only.
LEMMA FlowInvBut ==
    ASSUME TaskInv, TaskInv', FlowInv, NEW f,
           \A g \in FlowId \ {f} : flows'[g] = flows[g],
           \A t \in TaskId : KeptBut(f, t),
           FlowsAreFresh',
           f \in FlowId => Stored(f)' /\ Owning(f)' /\ Following(f)',
           f \in FlowId => \A t \in TaskId : Live(t)' /\ tasks'[t].flow = f => AwaitedBy(t, f)',
           f # 0 => f \in FlowId
    PROVE  FlowInv'
<1>1. \A g \in FlowId : flows[g].question \in TaskId \cup {0} /\ flows[g].explanation \in TaskId \cup {0}
                        /\ g # 0
  BY DEF TaskInv, TypeInv, TypeOK, Flow, FlowId
<1>2. \A t \in TaskId : tasks[t].flow \in FlowId \cup {0} /\ tasks'[t].flow \in FlowId \cup {0}
  BY DEF TaskInv, TypeInv, TypeOK, Task
<1>3. ASSUME NEW g \in FlowId \ {f}
      PROVE  Stored(g)' /\ Owning(g)' /\ Following(g)'
  <2>1. Stored(g) /\ Owning(g) /\ Following(g) /\ flows'[g] = flows[g]
    BY FlowParts
  <2>2. ASSUME NEW t \in TaskId, t = flows[g].question \/ t = flows[g].explanation
        PROVE  /\ tasks'[t].flow = tasks[t].flow /\ tasks'[t].kind = tasks[t].kind
               /\ \/ tasks'[t].status = tasks[t].status
                  \/ /\ tasks[t].status # "succeeded"
                     /\ tasks'[t].status \in {"queued", "running", "canceled"}
    <3>1. tasks[t].flow = g /\ t # 0
      BY <2>1, <2>2 DEF Owning, TaskId
    <3> QED
      BY <1>1, <3>1 DEF KeptBut
  <2>3. Stored(g)'
    BY <2>1 DEF Stored
  <2>4. Owning(g)'
    BY <1>1, <2>1, <2>2 DEF Owning
  <2>5. Following(g)'
    BY <1>1, <2>1, <2>2 DEF Following, StatusOf
  <2> QED
    BY <2>3, <2>4, <2>5
<1>4. ASSUME NEW t \in TaskId, Live(t)', tasks'[t].flow # 0
      PROVE  AwaitedBy(t, tasks[t].flow)'
  <2>1. CASE tasks'[t].flow = f
    BY <1>2, <1>4, <2>1
  <2>2. CASE tasks'[t].flow # f
    <3>1. tasks'[t].flow = tasks[t].flow /\ tasks'[t].kind = tasks[t].kind /\ Live(t)
      BY <1>4, <2>2 DEF KeptBut
    <3>2. AwaitedBy(t, tasks[t].flow) /\ flows'[tasks[t].flow] = flows[tasks[t].flow]
      BY <1>2, <1>4, <2>2, <3>1, FlowParts
    <3> QED
      BY <3>1, <3>2 DEF AwaitedBy
  <2> QED
    BY <2>1, <2>2
<1>5. FlowInv' <=> /\ FlowsAreFresh'
                   /\ \A g \in FlowId : Stored(g)' /\ Owning(g)' /\ Following(g)'
                   /\ \A t \in TaskId : Live(t)' /\ tasks'[t].flow # 0 => AwaitedBy(t, tasks[t].flow)'
  BY DEF FlowInv, AnswersAreStored, FlowsHaveTheirTasks, FlowFollowsItsTasks,
         LiveTasksHaveTheirFlow, Stored, Owning, Following, StatusOf, AwaitedBy
<1> QED
  BY <1>3, <1>4, <1>5

LEMMA FlowInit ==
    ASSUME Init
    PROVE  FlowInv
<1>1. \A f \in FlowId : flows[f] = NoFlow
  BY DEF Init
<1>2. \A t \in TaskId : tasks[t] = NoTask
  BY DEF Init
<1>3. FlowsAreFresh
  BY <1>1 DEF FlowsAreFresh
<1>4. \A f \in FlowId : Stored(f) /\ Owning(f) /\ Following(f)
  BY <1>1, BlankTyped DEF Stored, Owning, Following
<1>5. \A t \in TaskId : tasks[t].flow = 0
  BY <1>2, BlankTyped
<1> QED
  BY <1>3, <1>4, <1>5, FlowParts

\* A thread that calls after a step that starts no call was calling before.
NoNewCall ==
    \A th \in Ticker : Calling(th)' => Calling(th) /\ ticker'[th].job = ticker[th].job

\* Steps that leave the flows alone, and the tasks but for new ones without a flow.
LEMMA FlowInvElsewhere ==
    ASSUME TaskInv, TaskInv', FlowInv, NoNewCall, flows' = flows, nextFlowId' >= nextFlowId,
           \/ tasks' = tasks
           \/ \A t \in TaskId :
                tasks'[t] = tasks[t] \/ (tasks[t] = NoTask /\ tasks'[t] = NewTask("other", 0))
    PROVE  FlowInv'
<1>1. ASSUME NEW t \in TaskId PROVE KeptBut(0, t)
  <2>1. CASE tasks'[t] = tasks[t]
    <3>1. Live(t)' => Live(t)
      BY <2>1 DEF NoNewCall, Live
    <3> QED
      BY <2>1, <3>1 DEF KeptBut
  <2>2. CASE tasks[t] = NoTask /\ tasks'[t] = NewTask("other", 0)
    BY <2>2, BlankTyped, NewTaskTyped DEF KeptBut
  <2> QED
    BY <1>1, <2>1, <2>2
<1>2. nextFlowId \in Nat /\ nextFlowId' \in Nat
  BY ConstantsTyped DEF TaskInv, TypeInv, TypeOK
<1>3. FlowsAreFresh'
  BY <1>2 DEF FlowInv, FlowsAreFresh, FlowId
<1>4. 0 \notin FlowId
  BY DEF FlowId
<1> QED
  BY <1>1, <1>3, <1>4, FlowInvBut

\* Steps that change nothing of one task but its status, and no flow, while the task neither
\* succeeds nor comes back to life; or any such step on a task without a flow.
LEMMA FlowInvTask ==
    ASSUME TaskInv, TaskInv', FlowInv, NEW t \in TaskId, flows' = flows, nextFlowId' = nextFlowId,
           tasks'[t].flow = tasks[t].flow, tasks'[t].kind = tasks[t].kind,
           \A u \in TaskId \ {t} : tasks'[u] = tasks[u],
           \A u \in TaskId \ {t} : Live(u)' => Live(u),
           \/ tasks[t].flow = 0
           \/ /\ Live(t)' => Live(t)
              /\ tasks[t].status # "succeeded"
              /\ tasks'[t].status \in {"queued", "running", "canceled"}
    PROVE  FlowInv'
<1>1. \A u \in TaskId : KeptBut(0, u)
  BY DEF KeptBut
<1>2. FlowsAreFresh'
  BY DEF FlowInv, FlowsAreFresh
<1>3. 0 \notin FlowId
  BY DEF FlowId
<1> QED
  BY <1>1, <1>2, <1>3, FlowInvBut

LEMMA FlowInvCancel ==
    ASSUME TaskInv, TaskInv', FlowInv, NEW t \in TaskId, CancelTask(t)
    PROVE  FlowInv'
<1>1. tasks[t] \in Task /\ tasks \in [TaskId -> Task]
  BY DEF TaskInv, TypeInv, TypeOK
<1>2. /\ tasks[t].status # "succeeded" /\ tasks'[t].status = "canceled"
      /\ tasks'[t].flow = tasks[t].flow /\ tasks'[t].kind = tasks[t].kind
      /\ \A u \in TaskId \ {t} : tasks'[u] = tasks[u]
  BY <1>1, ConstantsTyped DEF CancelTask, Task
<1>3. UNCHANGED <<nextFlowId, flows, ticker>>
  BY DEF CancelTask
<1>4. \A u \in TaskId : Live(u)' => Live(u)
  BY <1>2, <1>3 DEF Live, Calling
<1> QED
  BY <1>2, <1>3, <1>4, FlowInvTask

LEMMA FlowInvBackoff ==
    ASSUME TaskInv, TaskInv', FlowInv, NEW t \in TaskId, BackoffElapses(t)
    PROVE  FlowInv'
<1>1. tasks[t] \in Task /\ tasks \in [TaskId -> Task]
  BY DEF TaskInv, TypeInv, TypeOK
<1>2. /\ tasks[t].status = "queued" /\ tasks'[t].status = "queued"
      /\ tasks'[t].flow = tasks[t].flow /\ tasks'[t].kind = tasks[t].kind
      /\ \A u \in TaskId \ {t} : tasks'[u] = tasks[u]
  BY <1>1 DEF BackoffElapses, Task
<1>3. UNCHANGED <<nextFlowId, flows, ticker>>
  BY DEF BackoffElapses
<1>4. \A u \in TaskId : Live(u)' => Live(u)
  BY <1>2, <1>3 DEF Live, Calling
<1> QED
  BY <1>2, <1>3, <1>4, FlowInvTask

LEMMA FlowInvTake ==
    ASSUME TaskInv, TaskInv', FlowInv, NEW th \in Ticker, NEW t \in TaskId, TakeTask(th, t)
    PROVE  FlowInv'
<1>1. /\ tasks[t].status = "queued" /\ tasks'[t].status = "running"
      /\ tasks'[t].flow = tasks[t].flow /\ tasks'[t].kind = tasks[t].kind
      /\ \A u \in TaskId \ {t} : tasks'[u] = tasks[u]
      /\ ticker'[th].job = t /\ \A u \in Ticker \ {th} : ticker'[u] = ticker[u]
      /\ UNCHANGED <<nextFlowId, flows>>
  BY TakeEffect DEF TaskInv
<1>2. \A u \in TaskId : Live(u)' => Live(u)
  BY <1>1 DEF Live, Calling
<1> QED
  BY <1>1, <1>2, FlowInvTask

\* A result that comes in: no other thread works on the task, and its flow, if any, waits for it.
LEMMA FlowInvFinish ==
    ASSUME TaskInv, TaskInv', FlowInv, NEW th \in Ticker, NEW status, Finish(th, status)
    PROVE  FlowInv'
<1>t. PICK t : t = ticker[th].job
  OBVIOUS
<1>f. PICK f : f = tasks[t].flow
  OBVIOUS
<1>1. /\ Calling(th) /\ t \in TaskId
      /\ status \in {"succeeded", "queued", "failed", "timed_out"}
      /\ tasks'[t].status = status
      /\ tasks'[t].flow = tasks[t].flow /\ tasks'[t].kind = tasks[t].kind
      /\ \A u \in TaskId \ {t} : tasks'[u] = tasks[u]
      /\ status = "queued" \/ f = 0 => flows' = flows
      /\ status # "queued" /\ f # 0 =>
            /\ f \in FlowId
            /\ flows'[f] = FlowAfterTask(flows[f], tasks[t].kind, status)
            /\ \A g \in FlowId \ {f} : flows'[g] = flows[g]
      /\ ticker'[th].pc # "calling" /\ \A u \in Ticker \ {th} : ticker'[u] = ticker[u]
      /\ nextFlowId' = nextFlowId
  BY <1>t, <1>f, FinishEffect
<1>2. tasks[t].status \in {"running", "canceled"}
      /\ \A u \in Ticker \ {th} : Calling(u) => ticker[u].job # t
  BY <1>1, <1>t DEF TaskInv, OneRunnerPerTask
<1>3. Live(t)
  BY <1>1, <1>t DEF Live
<1>4. \A u \in TaskId \ {t} : Live(u)' => Live(u)
  BY <1>1, <1>t DEF Live, Calling
<1>5. CASE status = "queued" \/ f = 0
  BY <1>1, <1>f, <1>2, <1>3, <1>4, <1>5, FlowInvTask
<1>6. CASE status # "queued" /\ f # 0
  <2>1. ~Live(t)'
    BY <1>1, <1>2, <1>6 DEF Live, Calling
  <2>2. f \in FlowId /\ flows[f] \in Flow /\ flows'[f] = FlowAfterTask(flows[f], tasks[t].kind, status)
    BY <1>1, <1>6 DEF TaskInv, TypeInv, TypeOK
  <2>3. AwaitedBy(t, f) /\ Stored(f) /\ Owning(f) /\ Following(f)
    BY <1>1, <1>3, <1>6, <1>f, <2>2, FlowParts
  <2>4. /\ flows'[f].question = flows[f].question /\ flows'[f].explanation = flows[f].explanation
        /\ flows'[f].answer = flows[f].answer
        /\ flows'[f].stage = IF status = "succeeded"
                             THEN IF tasks[t].kind = "question" THEN "waiting_answer"
                                                                ELSE "completed"
                             ELSE "failed"
    BY <2>2 DEF FlowAfterTask, Flow
  <2>5. \A u \in TaskId : KeptBut(f, u)
    BY <1>1, <1>f, <1>4 DEF KeptBut
  <2>6. FlowsAreFresh'
    <3>1. flows[f] # NoFlow
      BY <2>3, BlankTyped DEF AwaitedBy
    <3> QED
      BY <1>1, <1>6, <2>2, <3>1 DEF FlowInv, FlowsAreFresh
  <2>7. Stored(f)' /\ Owning(f)'
    <3>1. Stored(f)'
      BY <2>3, <2>4 DEF Stored
    <3>2. Owning(f)'
      <4>1. flows[f].question \in TaskId \cup {0} /\ flows[f].explanation \in TaskId \cup {0}
        BY <2>2 DEF Flow
      <4> QED
        BY <1>1, <2>3, <2>4, <4>1 DEF Owning
    <3> QED
      BY <3>1, <3>2
  <2>8. Following(f)'
    <3>1. t # 0
      BY <1>1 DEF TaskId
    <3>2. CASE tasks[t].kind = "question"
      <4>1. flows[f].question = t /\ flows[f].answer = NoAnswer
        BY <2>3, <3>2 DEF AwaitedBy, Stored
      <4> QED
        BY <1>1, <1>6, <2>4, <3>1, <3>2, <4>1 DEF Following, StatusOf
    <3>3. CASE tasks[t].kind = "explanation"
      <4>1. flows[f].explanation = t /\ flows[f].answer # NoAnswer
            /\ StatusOf(flows[f].question) = "succeeded"
        BY <2>3, <3>3 DEF AwaitedBy, Stored, Following
      <4>2. flows[f].question \in TaskId \ {t}
        BY <2>2, <2>3, <3>3, <4>1 DEF Owning, StatusOf, Flow
      <4>3. StatusOf(flows[f].question)' = "succeeded"
        BY <1>1, <2>4, <4>1, <4>2 DEF StatusOf, TaskId
      <4> QED
        BY <1>1, <1>6, <2>4, <3>1, <3>3, <4>1, <4>3 DEF Following, StatusOf
    <3> QED
      BY <2>3, <3>2, <3>3 DEF AwaitedBy
  <2>9. ASSUME NEW u \in TaskId, Live(u)', tasks'[u].flow = f
        PROVE  FALSE
    <3>1. u # t /\ Live(u) /\ tasks[u].flow = f
      BY <1>1, <1>4, <1>f, <2>1, <2>9
    <3>2. AwaitedBy(u, f)
      BY <1>6, <3>1, FlowParts
    <3> QED
      BY <2>3, <3>1, <3>2 DEF AwaitedBy
  <2> QED
    BY <1>1, <1>6, <1>f, <2>2, <2>5, <2>6, <2>7, <2>8, <2>9, FlowInvBut
<1> QED
  BY <1>5, <1>6

\* What one new task means for the flows and tasks that exist.
LEMMA EnqueueKeeps ==
    ASSUME TaskInv, TaskInv', FlowInv, NEW kind \in {"question", "explanation", "other"},
           NEW f \in FlowId, Enqueues(kind, f, 1), nextTaskId \in TaskId, ticker' = ticker
    PROVE  /\ tasks[nextTaskId] = NoTask /\ tasks'[nextTaskId] = NewTask(kind, f)
           /\ \A t \in TaskId \ {nextTaskId} : tasks'[t] = tasks[t]
           /\ \A t \in TaskId : tasks[t] # NoTask => tasks'[t] = tasks[t]
           /\ \A t \in TaskId \ {nextTaskId} : Live(t)' => Live(t)
           /\ \A t \in TaskId : KeptBut(f, t)
<1>1. nextTaskId \in Nat /\ tasks \in [TaskId -> Task]
  BY DEF TaskId, TaskInv, TypeInv, TypeOK
<1>2. tasks[nextTaskId] = NoTask
  BY <1>1 DEF TaskInv, TypeInv, TasksAreFresh
<1>3. \A t \in TaskId : (nextTaskId <= t /\ t < nextTaskId + 1) <=> t = nextTaskId
  BY <1>1 DEF TaskId
<1>4. tasks'[nextTaskId] = NewTask(kind, f) /\ \A t \in TaskId \ {nextTaskId} : tasks'[t] = tasks[t]
  BY <1>3 DEF Enqueues
<1>5. \A t \in TaskId \ {nextTaskId} : Live(t)' => Live(t)
  BY <1>4 DEF Live, Calling
<1>6. \A t \in TaskId : KeptBut(f, t)
  BY <1>2, <1>4, <1>5, BlankTyped, NewTaskTyped DEF KeptBut
<1> QED
  BY <1>2, <1>4, <1>5, <1>6

LEMMA FlowInvStart ==
    ASSUME TaskInv, TaskInv', FlowInv, StartQuestionFlow
    PROVE  FlowInv'
<1>t. PICK t : t = nextTaskId
  OBVIOUS
<1>f. PICK f : f = nextFlowId
  OBVIOUS
<1>1. /\ t \in TaskId /\ f \in FlowId /\ Enqueues("question", f, 1) /\ nextFlowId' = f + 1
      /\ flows'[f].stage = "generating_question" /\ flows'[f].question = t
      /\ flows'[f].explanation = 0 /\ flows'[f].answer = NoAnswer
      /\ \A g \in FlowId \ {f} : flows'[g] = flows[g]
      /\ ticker' = ticker
  BY <1>t, <1>f, StartEffect DEF TaskInv
<1>2. flows[f] = NoFlow /\ f \in Nat /\ f # 0
  BY <1>1, <1>f DEF FlowInv, FlowsAreFresh, FlowId
<1>3. /\ tasks'[t] = NewTask("question", f) /\ t # 0
      /\ \A u \in TaskId \ {t} : tasks'[u] = tasks[u] /\ (Live(u)' => Live(u))
      /\ \A u \in TaskId : KeptBut(f, u)
  BY <1>1, <1>t, EnqueueKeeps DEF TaskId
<1>4. FlowsAreFresh'
  BY <1>1, <1>2, <1>f DEF FlowInv, FlowsAreFresh, FlowId
<1>5. Stored(f)' /\ Owning(f)' /\ Following(f)'
  BY <1>1, <1>3, NewTaskTyped DEF Stored, Owning, Following, StatusOf
<1>6. ASSUME NEW u \in TaskId, Live(u)', tasks'[u].flow = f
      PROVE  AwaitedBy(u, f)'
  <2>1. CASE u = t
    BY <1>1, <1>3, <2>1, NewTaskTyped DEF AwaitedBy
  <2>2. CASE u # t
    <3>1. AwaitedBy(u, f)
      BY <1>2, <1>3, <1>6, <2>2, FlowParts
    <3> QED
      BY <1>2, <3>1, BlankTyped DEF AwaitedBy
  <2> QED
    BY <2>1, <2>2
<1> QED
  BY <1>1, <1>3, <1>4, <1>5, <1>6, FlowInvBut

LEMMA FlowInvSubmit ==
    ASSUME TaskInv, TaskInv', FlowInv, NEW f \in FlowId, NEW answer \in Answer,
           SubmitAnswer(f, answer)
    PROVE  FlowInv'
<1>t. PICK t : t = nextTaskId
  OBVIOUS
<1>1. /\ t \in TaskId /\ flows[f].stage = "waiting_answer" /\ Enqueues("explanation", f, 1)
      /\ flows'[f].stage = "generating_explanation" /\ flows'[f].answer = answer
      /\ flows'[f].explanation = t /\ flows'[f].question = flows[f].question
      /\ \A g \in FlowId \ {f} : flows'[g] = flows[g]
      /\ nextFlowId' = nextFlowId /\ ticker' = ticker
  BY <1>t, SubmitEffect DEF TaskInv
<1>2. /\ tasks[t] = NoTask /\ tasks'[t] = NewTask("explanation", f) /\ t # 0
      /\ \A u \in TaskId \ {t} : tasks'[u] = tasks[u] /\ (Live(u)' => Live(u))
      /\ \A u \in TaskId : KeptBut(f, u)
  BY <1>1, <1>t, EnqueueKeeps DEF TaskId
<1>3. Owning(f) /\ Following(f) /\ flows[f] \in Flow
  BY FlowParts DEF TaskInv, TypeInv, TypeOK
<1>4. FlowsAreFresh'
  BY <1>1, BlankTyped DEF FlowInv, FlowsAreFresh
<1>5. Stored(f)'
  BY <1>1, ConstantsTyped DEF Stored
<1>6. flows[f].question \in TaskId \ {t}
  BY <1>1, <1>2, <1>3, BlankTyped DEF Following, StatusOf, Flow
<1>7. Owning(f)'
  BY <1>1, <1>2, <1>3, <1>6, NewTaskTyped DEF Owning
<1>8. Following(f)'
  BY <1>1, <1>2, <1>3, <1>6, NewTaskTyped DEF Following, StatusOf
<1>9. ASSUME NEW u \in TaskId, Live(u)', tasks'[u].flow = f
      PROVE  AwaitedBy(u, f)'
  <2>1. CASE u = t
    BY <1>1, <1>2, <2>1, NewTaskTyped DEF AwaitedBy
  <2>2. CASE u # t
    <3>1. AwaitedBy(u, f)
      BY <1>2, <1>9, <2>2, FlowParts DEF FlowId
    <3> QED
      BY <1>1, <3>1 DEF AwaitedBy
  <2> QED
    BY <2>1, <2>2
<1> QED
  BY <1>1, <1>2, <1>4, <1>5, <1>7, <1>8, <1>9, FlowInvBut

LEMMA FlowInvRefused ==
    ASSUME TaskInv, TaskInv', FlowInv, NEW f \in FlowId, NEW answer \in Answer,
           SubmitAnswerRefused(f, answer)
    PROVE  FlowInv'
<1>1. /\ flows[f].stage = "waiting_answer"
      /\ flows'[f].stage = "failed"
      /\ flows'[f].explanation = flows[f].explanation /\ flows'[f].question = flows[f].question
      /\ \A g \in FlowId \ {f} : flows'[g] = flows[g]
      /\ UNCHANGED <<nextFlowId, tasks, ticker>>
  BY RefusedEffect DEF TaskInv
<1>2. Owning(f)
  BY FlowParts
<1>3. \A u \in TaskId : Live(u)' => Live(u)
  BY <1>1 DEF Live, Calling
<1>4. \A u \in TaskId : KeptBut(f, u)
  BY <1>1, <1>3 DEF KeptBut
<1>5. FlowsAreFresh'
  BY <1>1, BlankTyped DEF FlowInv, FlowsAreFresh
<1>6. Stored(f)' /\ Owning(f)' /\ Following(f)'
  BY <1>1, <1>2 DEF Stored, Owning, Following
<1>7. ASSUME NEW u \in TaskId, Live(u)', tasks'[u].flow = f
      PROVE  FALSE
  <2>1. AwaitedBy(u, f)
    BY <1>1, <1>3, <1>7, FlowParts DEF FlowId
  <2> QED
    BY <1>1, <2>1 DEF AwaitedBy
<1> QED
  BY <1>1, <1>4, <1>5, <1>6, <1>7, FlowInvBut

\* Every step keeps the flows and their tasks in agreement.
LEMMA FlowStep ==
    ASSUME TaskInv, FlowInv, [Next]_vars
    PROVE  FlowInv'
<1>0. TaskInv'
  BY TaskStep
<1>a. ASSUME NEW count, Enqueues("other", 0, count),
             UNCHANGED <<flows, nextFlowId, ticker>>
      PROVE  FlowInv'
  <2>1. \A t \in TaskId : tasks'[t] = tasks[t] \/ (tasks[t] = NoTask /\ tasks'[t] = NewTask("other", 0))
    BY <1>a, EnqueuesTyped DEF TaskInv
  <2>2. NoNewCall /\ nextFlowId' >= nextFlowId
    BY <1>a, ConstantsTyped DEF NoNewCall, Calling, TaskInv, TypeInv, TypeOK
  <2> QED
    BY <1>0, <1>a, <2>1, <2>2, FlowInvElsewhere
<1>1. CASE Minor
  <2>1. UNCHANGED <<tasks, ticker, flows>> /\ nextFlowId' >= nextFlowId
    BY <1>1, MinorEffect DEF TaskInv
  <2>2. NoNewCall
    BY <2>1 DEF NoNewCall, Calling
  <2> QED
    BY <1>0, <2>1, <2>2, FlowInvElsewhere
<1>2. ASSUME NEW th \in Ticker, ThreadOnly(th) PROVE FlowInv'
  <2>1. UNCHANGED <<nextFlowId, tasks, flows>>
    BY <1>2, ThreadOnlyEffect DEF TaskInv
  <2>2. PICK thread \in Thread : thread.pc # "calling" /\ ticker' = [ticker EXCEPT ![th] = thread]
    BY <1>2, ThreadOnlyEffect DEF TaskInv
  <2>3. NoNewCall
    BY <2>2 DEF NoNewCall, Calling, TaskInv, TypeInv, TypeOK
  <2>4. nextFlowId' >= nextFlowId
    BY <2>1, ConstantsTyped DEF TaskInv, TypeInv, TypeOK
  <2> QED
    BY <1>0, <2>1, <2>3, <2>4, FlowInvElsewhere
<1>3. CASE EnqueueTask
  <2>1. Enqueues("other", 0, 1) /\ UNCHANGED <<flows, nextFlowId, ticker>>
    BY <1>3, EnqueueIsOne DEF EnqueueTask, TaskInv, TypeInv
  <2> QED
    BY <1>a, <2>1
<1>4. CASE StartQuestionFlow
  BY <1>0, <1>4, FlowInvStart
<1>5. ASSUME NEW matching \in SUBSET Rule, NEW c \in Context, NEW served \in SUBSET matching,
             HandleTriggerEvent(matching, c, served)
      PROVE  FlowInv'
  <2>1. Enqueues("other", 0, Cardinality(served))
    BY <1>5, TriggerEnqueues DEF TaskInv
  <2>2. UNCHANGED <<flows, nextFlowId, ticker>>
    BY <1>5 DEF HandleTriggerEvent
  <2> QED
    BY <1>a, <2>1, <2>2
<1>6. ASSUME NEW f \in FlowId, NEW a \in Answer, SubmitAnswer(f, a) \/ SubmitAnswerRefused(f, a)
      PROVE  FlowInv'
  BY <1>0, <1>6, FlowInvSubmit, FlowInvRefused
<1>7. ASSUME NEW t \in TaskId, CancelTask(t) \/ BackoffElapses(t) PROVE FlowInv'
  BY <1>0, <1>7, FlowInvCancel, FlowInvBackoff
<1>8. ASSUME NEW th \in Ticker, NEW t \in TaskId, TakeTask(th, t) PROVE FlowInv'
  BY <1>0, <1>8, FlowInvTake
<1>9. ASSUME NEW th \in Ticker, NEW status \in TaskStatus, Finish(th, status) PROVE FlowInv'
  BY <1>0, <1>9, FlowInvFinish
<1>10. CASE UNCHANGED vars
  <2>1. UNCHANGED <<tasks, ticker, flows, nextFlowId>>
    BY <1>10 DEF vars
  <2>2. NoNewCall /\ nextFlowId' >= nextFlowId
    BY <2>1, ConstantsTyped DEF NoNewCall, Calling, TaskInv, TypeInv, TypeOK
  <2> QED
    BY <1>0, <2>1, <2>2, FlowInvElsewhere
<1> QED
  BY <1>1, <1>2, <1>3, <1>4, <1>5, <1>6, <1>7, <1>8, <1>9, <1>10, Steps

\* A flow and the tasks made for it never disagree: no cancelation, retry, late result or full
\* queue leaves a flow waiting for an answer to a question that did not succeed, or a stored answer
\* without its explanation.
THEOREM FlowsFollowTheirTasks == Spec => []FlowFollowsItsTasks
<1>1. Init => TaskInv /\ FlowInv
  BY TaskInit, FlowInit
<1>2. TaskInv /\ FlowInv /\ [Next]_vars => TaskInv' /\ FlowInv'
  BY TaskStep, FlowStep
<1>3. FlowInv => FlowFollowsItsTasks
  BY DEF FlowInv
<1> QED
  BY <1>1, <1>2, <1>3, PTL DEF Spec

------------------------------------------------------------------------------
(* What a step may never do *)

\* The step leaves the flows other than f alone.
OnlyFlow(f) == \A g \in FlowId \ {f} : flows'[g] = flows[g]

LEMMA ForwardStep ==
    ASSUME TaskInv, FlowInv, [Next]_vars, NEW f \in FlowId
    PROVE  /\ flows[f].answer # NoAnswer =>
                flows'[f].answer = flows[f].answer /\ flows'[f].stage # "waiting_answer"
           /\ flows[f].stage \in {"completed", "failed"} => flows'[f] = flows[f]
<1>0. Stored(f) /\ Following(f) /\ flows[f] \in Flow
  BY FlowParts DEF TaskInv, TypeInv, TypeOK
<1>1. CASE flows'[f] = flows[f]
  BY <1>0, <1>1 DEF Following
<1>2. CASE Minor
  BY <1>1, <1>2, MinorEffect DEF TaskInv
<1>3. ASSUME NEW th \in Ticker, ThreadOnly(th) PROVE flows' = flows
  BY <1>3, ThreadOnlyEffect DEF TaskInv
<1>4. CASE StartQuestionFlow
  <2>1. OnlyFlow(nextFlowId) /\ flows'[nextFlowId].stage = "generating_question"
    BY <1>4, StartEffect DEF TaskInv, OnlyFlow
  <2>2. flows[f] = NoFlow \/ f # nextFlowId
    BY DEF FlowInv, FlowsAreFresh, FlowId
  <2> QED
    BY <1>1, <2>1, <2>2, BlankTyped DEF OnlyFlow
<1>5. ASSUME NEW g \in FlowId, NEW a \in Answer, SubmitAnswer(g, a) \/ SubmitAnswerRefused(g, a)
      PROVE  OnlyFlow(g) /\ (f = g => flows[f].stage = "waiting_answer")
  BY <1>5, SubmitEffect, RefusedEffect DEF TaskInv, OnlyFlow
<1>6. ASSUME NEW th \in Ticker, NEW status, Finish(th, status)
      PROVE  \/ flows'[f] = flows[f]
             \/ /\ flows[f].stage \in {"generating_question", "generating_explanation"}
                /\ flows'[f].answer = flows[f].answer
                /\ flows'[f].stage = "waiting_answer" => flows[f].stage = "generating_question"
  <2>t. PICK t : t = ticker[th].job
    OBVIOUS
  <2>1. /\ Calling(th) /\ t \in TaskId
        /\ status = "queued" \/ tasks[t].flow = 0 => flows' = flows
        /\ status # "queued" /\ tasks[t].flow # 0 =>
            /\ tasks[t].flow \in FlowId
            /\ flows'[tasks[t].flow] = FlowAfterTask(flows[tasks[t].flow], tasks[t].kind, status)
            /\ OnlyFlow(tasks[t].flow)
    BY <1>6, <2>t, FinishEffect DEF OnlyFlow
  <2>2. CASE status # "queued" /\ tasks[t].flow = f
    <3>1. f # 0 /\ Live(t)
      BY <2>1, <2>t DEF FlowId, Live
    <3>2. AwaitedBy(t, f)
      BY <2>1, <2>2, <3>1, FlowParts
    <3>3. flows'[f] = FlowAfterTask(flows[f], tasks[t].kind, status)
      BY <2>1, <2>2, <3>1
    <3> QED
      BY <1>0, <3>2, <3>3 DEF AwaitedBy, FlowAfterTask, Flow
  <2> QED
    BY <2>1, <2>2 DEF OnlyFlow
<1>7. ASSUME EnqueueTask
             \/ (\E matching \in SUBSET Rule, c \in Context : \E served \in SUBSET matching :
                    HandleTriggerEvent(matching, c, served))
             \/ (\E t \in TaskId : CancelTask(t) \/ BackoffElapses(t))
             \/ (\E th \in Ticker, t \in TaskId : TakeTask(th, t))
             \/ UNCHANGED vars
      PROVE  flows' = flows
  BY <1>7 DEF EnqueueTask, HandleTriggerEvent, CancelTask, BackoffElapses, TakeTask, vars
<1>8. CASE Next
  BY <1>0, <1>1, <1>2, <1>3, <1>4, <1>5, <1>6, <1>7, <1>8, Steps DEF Stored, Following, OnlyFlow
<1> QED
  BY <1>1, <1>7, <1>8

\* A stored answer is never replaced, and a flow that ended stays as it ended: submitAnswer and the
\* late results of updateFlowAfterTaskLocked.
THEOREM FlowsOnlyGoForward == Spec => FlowsGoForward
<1>1. Init => TaskInv /\ FlowInv
  BY TaskInit, FlowInit
<1>2. TaskInv /\ FlowInv /\ [Next]_vars => TaskInv' /\ FlowInv'
  BY TaskStep, FlowStep
<1>3. TaskInv /\ FlowInv /\ [Next]_vars =>
        [\A f \in FlowId :
            /\ flows[f].answer # NoAnswer =>
                    flows'[f].answer = flows[f].answer /\ flows'[f].stage # "waiting_answer"
            /\ flows[f].stage \in {"completed", "failed"} => flows'[f] = flows[f]]_vars
  BY ForwardStep
<1> QED
  BY <1>1, <1>2, <1>3, PTL DEF Spec, FlowsGoForward

LEMMA ActiveFinite ==
    /\ IsFiniteSet(Active) /\ Cardinality(Active) \in Nat
    /\ \A S \in SUBSET Active : Cardinality(S) <= Cardinality(Active)
<1>1. IsFiniteSet(TaskId)
  BY FS_Interval, ConstantsTyped DEF TaskId
<1>2. IsFiniteSet(Active)
  BY <1>1, FS_Subset DEF Active
<1> QED
  BY <1>2, FS_Subset, FS_CardinalityType

\* Tasks that the queue had room for leave it within its limit.
LEMMA EnqueuesBounded ==
    ASSUME TaskInv, NEW kind \in {"question", "explanation", "other"},
           NEW flow \in FlowId \cup {0}, NEW count, Enqueues(kind, flow, count),
           Cardinality(Active) + count <= MaxQueued
    PROVE  Cardinality(Active') <= MaxQueued
<1>0. nextTaskId \in Nat /\ count \in Nat
  BY DEF TaskInv, TypeInv, TypeOK, Enqueues
<1> DEFINE new == nextTaskId..(nextTaskId + count - 1)
<1>1. IsFiniteSet(new) /\ Cardinality(new) = count
  <2>1. nextTaskId \in Int /\ nextTaskId + count - 1 \in Int
    BY <1>0
  <2>2. IsFiniteSet(new) /\ Cardinality(new) = IF nextTaskId > nextTaskId + count - 1 THEN 0
                                              ELSE (nextTaskId + count - 1) - nextTaskId + 1
    BY <2>1, FS_Interval
  <2> QED
    BY <1>0, <2>2
<1>2. Active' \subseteq Active \cup new
  BY <1>0 DEF Active, Enqueues, TaskId
<1> HIDE DEF new
<1>3. /\ IsFiniteSet(Active \cup new)
      /\ Cardinality(Active \cup new) = Cardinality(Active) + count - Cardinality(Active \cap new)
  BY <1>1, ActiveFinite, FS_Union
<1>4. Cardinality(Active \cap new) \in Nat
  BY ActiveFinite, FS_Subset, FS_CardinalityType
<1>5. Cardinality(Active') <= Cardinality(Active \cup new) /\ IsFiniteSet(Active')
  BY <1>2, <1>3, FS_Subset
<1>6. Cardinality(Active') \in Nat
  BY <1>5, FS_CardinalityType
<1> QED
  BY <1>0, <1>3, <1>4, <1>5, <1>6, ActiveFinite, ConstantsTyped

\* What a step does to the tasks that are canceled, and to those that are queued or running.
BringsNoneBack ==
    /\ \A t \in TaskId : tasks[t].status = "canceled" => tasks'[t].status = "canceled"
    /\ Active' \subseteq Active \/ Cardinality(Active') <= MaxQueued

LEMMA EnqueuesBringNoneBack ==
    ASSUME TaskInv, NEW kind \in {"question", "explanation", "other"},
           NEW flow \in FlowId \cup {0}, NEW count, Enqueues(kind, flow, count),
           Cardinality(Active) + count <= MaxQueued
    PROVE  BringsNoneBack
<1>1. \A t \in TaskId : tasks'[t] = tasks[t] \/ tasks[t] = NoTask
  BY EnqueuesTyped DEF TaskInv
<1> QED
  BY <1>1, EnqueuesBounded, BlankTyped DEF BringsNoneBack

LEMMA EnqueueBringsNoneBack ==
    ASSUME TaskInv, NEW kind \in {"question", "explanation", "other"},
           NEW flow \in FlowId \cup {0}, Enqueue(kind, flow)
    PROVE  BringsNoneBack
<1>1. Enqueues(kind, flow, 1)
  BY EnqueueIsOne DEF TaskInv, TypeInv
<1>2. Cardinality(Active) + 1 <= MaxQueued
  BY ActiveFinite, ConstantsTyped DEF Enqueue, QueueFull
<1> QED
  BY <1>1, <1>2, EnqueuesBringNoneBack

\* A result either settles its task or queues it again, for the thread that ran it.
LEMMA FinishBringsBack ==
    ASSUME TaskInv, NEW th \in Ticker, NEW status, Finish(th, status)
    PROVE  /\ \A t \in TaskId : tasks[t].status = "canceled" /\ ~Revives(t)
                => tasks'[t].status = "canceled"
           /\ \/ Active' \subseteq Active
              \/ \E t \in Active' : Revives(t)
<1>t. PICK t : t = ticker[th].job
  OBVIOUS
<1>1. /\ Calling(th) /\ t \in TaskId /\ tasks'[t].status = status
      /\ \A u \in TaskId \ {t} : tasks'[u] = tasks[u]
  BY <1>t, FinishEffect
<1>2. tasks[t].status = "running" \/ Revives(t)
  BY <1>1, <1>t DEF TaskInv, OneRunnerPerTask, Revives
<1> QED
  BY <1>1, <1>2 DEF Active

LEMMA ReviveStep ==
    ASSUME TaskInv, [Next]_vars
    PROVE  /\ \A t \in TaskId : tasks[t].status = "canceled" /\ ~Revives(t)
                => tasks'[t].status = "canceled"
           /\ \/ Active' \subseteq Active
              \/ Cardinality(Active') <= MaxQueued
              \/ \E t \in Active' : Revives(t)
<1>0. tasks \in [TaskId -> Task]
  BY DEF TaskInv, TypeInv, TypeOK
<1>1. CASE tasks' = tasks
  BY <1>1 DEF Active
<1>2. ASSUME Minor \/ (\E th \in Ticker : ThreadOnly(th))
             \/ (\E f \in FlowId, a \in Answer : SubmitAnswerRefused(f, a)) \/ UNCHANGED vars
      PROVE  tasks' = tasks
  BY <1>2, MinorEffect, ThreadOnlyEffect, RefusedEffect DEF TaskInv, vars
<1>3. CASE EnqueueTask
  BY <1>3, EnqueueBringsNoneBack DEF EnqueueTask, BringsNoneBack
<1>4. CASE StartQuestionFlow
  <2>1. nextFlowId \in FlowId
    BY <1>4, StartEffect DEF TaskInv
  <2> QED
    BY <1>4, <2>1, EnqueueBringsNoneBack DEF StartQuestionFlow, BringsNoneBack
<1>5. ASSUME NEW matching \in SUBSET Rule, NEW c \in Context, NEW served \in SUBSET matching,
             HandleTriggerEvent(matching, c, served)
      PROVE  BringsNoneBack
  <2>1. Enqueues("other", 0, Cardinality(served))
    BY <1>5, TriggerEnqueues DEF TaskInv
  <2>2. Cardinality(Active) + Cardinality(served) <= MaxQueued
    BY <1>5 DEF HandleTriggerEvent
  <2> QED
    BY <2>1, <2>2, EnqueuesBringNoneBack
<1>6. ASSUME NEW f \in FlowId, NEW a \in Answer, SubmitAnswer(f, a)
      PROVE  BringsNoneBack
  BY <1>6, EnqueueBringsNoneBack DEF SubmitAnswer
<1>7. ASSUME NEW t \in TaskId, CancelTask(t)
      PROVE  BringsNoneBack
  <2>1. tasks'[t].status = "canceled" /\ \A u \in TaskId \ {t} : tasks'[u] = tasks[u]
    BY <1>0, <1>7 DEF CancelTask, Task
  <2> QED
    BY <2>1 DEF BringsNoneBack, Active
<1>8. ASSUME NEW t \in TaskId, BackoffElapses(t)
      PROVE  BringsNoneBack
  <2>1. \A u \in TaskId : tasks'[u].status = tasks[u].status
    BY <1>0, <1>8 DEF BackoffElapses, Task
  <2> QED
    BY <2>1 DEF BringsNoneBack, Active
<1>9. ASSUME NEW th \in Ticker, NEW t \in TaskId, TakeTask(th, t)
      PROVE  BringsNoneBack
  <2>1. tasks[t].status = "queued" /\ \A u \in TaskId \ {t} : tasks'[u] = tasks[u]
    BY <1>9, TakeEffect DEF TaskInv
  <2> QED
    BY <2>1 DEF BringsNoneBack, Active
<1>10. CASE Next
  BY <1>1, <1>2, <1>3, <1>4, <1>5, <1>6, <1>7, <1>8, <1>9, <1>10, FinishBringsBack, Steps
     DEF BringsNoneBack
<1> QED
  BY <1>1, <1>2, <1>10

\* A canceled task comes back only through the thread that worked on it, and nothing but that puts
\* more than max_queued_tasks in the queue: cancelTask against finishTaskLocked.
THEOREM OnlyTheRunnerRevives == Spec => OnlyRunnersRevive
<1>1. Init => TaskInv
  BY TaskInit
<1>2. TaskInv /\ [Next]_vars => TaskInv'
  BY TaskStep
<1>3. TaskInv /\ [Next]_vars =>
        [/\ \A t \in TaskId : tasks[t].status = "canceled" /\ ~Revives(t)
                => tasks'[t].status = "canceled"
         /\ Cardinality(Active') > MaxQueued =>
                \/ Cardinality(Active') <= Cardinality(Active)
                \/ \E t \in Active' : Revives(t)]_vars
  <2> SUFFICES ASSUME TaskInv, [Next]_vars,
                      Cardinality(Active') > MaxQueued, ~\E t \in Active' : Revives(t)
               PROVE  Cardinality(Active') <= Cardinality(Active)
    BY ReviveStep
  <2>1. IsFiniteSet(Active')
    <3>1. IsFiniteSet(TaskId)
      BY FS_Interval, ConstantsTyped DEF TaskId
    <3> QED
      BY <3>1, FS_Subset DEF Active
  <2>2. ~(Cardinality(Active') <= MaxQueued)
    BY <2>1, FS_CardinalityType, ConstantsTyped
  <2>3. Active' \subseteq Active
    BY <2>2, ReviveStep
  <2> QED
    BY <2>3, ActiveFinite
<1> QED
  BY <1>1, <1>2, <1>3, PTL DEF Spec, OnlyRunnersRevive

USE DEF Worker

------------------------------------------------------------------------------
(* Gameplay: the invariant *)

\* Where a start is: it has its flow but no id yet; it has its id; it has yet to insert its row.
Drawing == {"start:tick", "start:find"}
Drawn   == {"start:save", "start:user", "start:row", "start:store"}
Opening == StartSteps \ {"start:store"}

\* Where an answer is: the flow has taken it; the explanation is in the copy; the rows are the
\* ones it will find; the completion was tried; the audio was tried.
Taken     == AnswerSteps \ {"answer:flow"}
Explained  == Taken \ {"answer:tick", "answer:find"}
Unrecorded == {"answer:tick", "answer:find", "answer:save", "answer:user", "answer:record"}
Unsaved    == {"answer:flow", "answer:tick", "answer:find", "answer:save", "answer:user"}
Tried      == {"answer:audio", "answer:progress", "answer:store"}
Spoken     == {"answer:progress", "answer:store"}

\* The workers that are at one of these steps.
Within(steps) == {w \in Worker : request[w].step \in steps}

\* A row is the next free one, and each start has a flow of its own: there are no more ids than
\* flows, and no more rows.
IdsAreDrawnInOrder ==
    /\ IsFiniteSet(Within(Drawing)) /\ IsFiniteSet(Within(Opening))
    /\ nextInteractionId + Cardinality(Within(Drawing)) <= nextFlowId
    /\ past.flows + nextFlowId <= MaxFlows + 1
    /\ \E n \in Nat :
        /\ n + Cardinality(Within(Opening)) < past.flows + nextFlowId
        /\ \A r \in Row : database[r].status # "absent" <=> r <= n

\* This process inserted the row.
Ours(r) == database[r].status # "absent" /\ past.rows[r].status = "absent"

\* A request agrees with what is shared.
StartSound(q) ==
    /\ q.step \in StartSteps => q.state.flow # 0 /\ ~q.state.completed
    /\ q.step \in Opening => q.state.row = 0
    /\ q.step \in Drawn =>
        q.id # 0 /\ q.id < nextInteractionId /\ interactions[q.id] = NoState
    /\ q.step = "start:store" /\ q.state.row # 0 =>
        Ours(q.state.row) /\ database[q.state.row] = Started

AnswerSound(q) ==
    /\ q.step \in AnswerSteps =>
        /\ q.id # 0 /\ q.state.flow # 0 /\ q.state.answer # NoAnswer
        /\ interactions[q.id].flow = q.state.flow /\ interactions[q.id].row = q.state.row
    /\ q.step \in Taken =>
        /\ flows[q.state.flow].answer = q.state.answer
        /\ ~interactions[q.id].completed
    /\ q.step \in Explained => q.state.completed
    /\ q.step \in Unrecorded /\ q.state.row # 0 => database[q.state.row] = Started

\* saved is the truth so far.
SavedSound(q) ==
    /\ q.saved => q.step \notin StartSteps \cup Unsaved
    /\ q.saved /\ q.step = "answer:complete" /\ q.state.row # 0 =>
        database[q.state.row].records = 1
    /\ q.saved /\ q.step \in Tried =>
        /\ q.state.row # 0
        /\ database[q.state.row].records = 1 /\ database[q.state.row].status = "completed"
    /\ q.saved /\ q.step \in Spoken /\ q.state.audio # NoAudio =>
        audioRow[q.state.audio] # NoRow
    /\ q.saved /\ q.step = "answer:store" => progress # 0

Sound(q) == StartSound(q) /\ AnswerSound(q) /\ SavedSound(q)

\* Two requests do not get in each other's way.
Apart(p, q) ==
    /\ p.step \in Drawn /\ q.step \in Drawn => p.id # q.id
    /\ p.step = "start:store" /\ q.step = "start:store" /\ p.state.row # 0 =>
        p.state.row # q.state.row
    /\ p.step \in Taken /\ q.step \in Taken => p.state.flow # q.state.flow

RequestsAreSound ==
    /\ \A w \in Worker : Sound(request[w])
    /\ \A v, w \in Worker : v # w => Apart(request[v], request[w])

\* An interaction agrees with its flow and its row.
InteractionSound(i) ==
    LET s == interactions[i] IN
    /\ i >= nextInteractionId => s = NoState
    /\ s.completed => s.flow # 0 /\ s.answer # NoAnswer /\ s.answer = flows[s.flow].answer
    /\ s.row # 0 =>
        /\ s.flow # 0 /\ Ours(s.row)
        /\ database[s.row].records <= 1
        /\ database[s.row].status = "completed" => database[s.row].answer = flows[s.flow].answer
        /\ flows[s.flow].answer = NoAnswer => database[s.row] = Started
        /\ \A w \in Worker : At(w, "start:store") => request[w].state.row # s.row

InteractionsAreSound ==
    /\ \A i \in InteractionId : InteractionSound(i)
    /\ \A i, j \in InteractionId :
        interactions[i].row # 0 /\ interactions[i].row = interactions[j].row => i = j

\* The interaction or the request that plays the audio, and will show it.
Plays(a, r) ==
    \/ \E i \in InteractionId :
        interactions[i].completed /\ interactions[i].row = r /\ interactions[i].audio = a
    \/ \E w \in Worker :
        request[w].step \in Spoken /\ request[w].state.row = r /\ request[w].state.audio = a

AudioIsPlayed ==
    \A a \in Audio : audioRow[a] \in Row =>
        /\ database[audioRow[a]].status # "absent"
        /\ past.rows[audioRow[a]].status = "absent" => Plays(a, audioRow[a])

PastIsPast == \A r \in Row : past.rows[r].status # "absent" => database[r] = past.rows[r]

\* With the invariant of the orchestrator below it.
GameplayInv ==
    /\ TaskInv /\ FlowInv
    /\ GameplayTypeOK /\ IdsAreDrawnInOrder
    /\ RequestsAreSound /\ InteractionsAreSound /\ AudioIsPlayed /\ PastIsPast

------------------------------------------------------------------------------
(* Below: the orchestrator *)

LEMMA GameplayParts ==
    ASSUME GameplayInv
    PROVE  /\ TaskInv /\ FlowInv /\ TypeOK
           /\ MaxFlows \in Nat /\ NoAnswer \notin Answer
           /\ nextFlowId \in 1..(MaxFlows + 1)
           /\ nextInteractionId \in 1..(MaxFlows + 1)
           /\ interactions \in [InteractionId -> State]
           /\ request \in [Worker -> Request]
           /\ database \in [Row -> Rows]
           /\ audioRow \in [Audio -> Row \cup {0, NoRow}]
           /\ progress \in InteractionId \cup {0}
           /\ past \in [flows: 0..MaxFlows, rows: [Row -> Rows]]
           /\ \A w \in Worker : Sound(request[w])
           /\ \A i \in InteractionId : InteractionSound(i)
BY ConstantsTyped DEF GameplayInv, GameplayTypeOK, TypeOK, RequestsAreSound, InteractionsAreSound

\* The ids in use are those of flows, and rows have other ids than NoRow.
LEMMA IdsTyped ==
    /\ InteractionId = 1..MaxFlows /\ FlowId = 1..MaxFlows /\ Row = 1..MaxFlows
    /\ NoRow = MaxFlows + 1 /\ NoRow \notin Row /\ NoRow # 0 /\ 0 \notin Row /\ 0 \notin FlowId
    /\ 0 \notin InteractionId
BY ConstantsTyped DEF InteractionId, FlowId, Row, NoRow

LEMMA BlanksTyped ==
    /\ NoState \in State /\ NoState.flow = 0 /\ NoState.row = 0 /\ ~NoState.completed
    /\ NoState.answer = NoAnswer /\ NoState.audio = NoAudio
    /\ NoRequest \in Request /\ NoRequest.step = "idle" /\ NoRequest.id = 0
    /\ NoRequest.state = NoState /\ NoRequest.saved = FALSE
    /\ NoRows \in Rows /\ NoRows.status = "absent"
    /\ Started \in Rows /\ Started.status = "started" /\ Started.records = 0
<1>1. NoState \in State /\ NoState.flow = 0 /\ NoState.row = 0 /\ ~NoState.completed
      /\ NoState.answer = NoAnswer /\ NoState.audio = NoAudio
  BY DEF NoState, State, Text
<1>2. NoRequest \in Request /\ NoRequest.step = "idle" /\ NoRequest.id = 0
      /\ NoRequest.state = NoState /\ NoRequest.saved = FALSE
  BY <1>1 DEF NoRequest, Request
<1>3. /\ NoRows \in Rows /\ NoRows.status = "absent"
      /\ Started \in Rows /\ Started.status = "started" /\ Started.records = 0
  BY DEF NoRows, Started, Rows
<1> QED
  BY <1>1, <1>2, <1>3

\* Every step of the handlers is a step of the orchestrator, or leaves it alone.
LEMMA AiStep ==
    ASSUME GameplayInv, GameplayNext
    PROVE  Restart \/ [Next]_vars
<1>1. ASSUME NEW w \in Worker, StartFlow(w) \/ StartFlowRefused(w) PROVE Next
  BY <1>1 DEF StartFlow, StartFlowRefused, Next
<1>2. ASSUME NEW w \in Worker, AnswerFlow(w) \/ AnswerFlowRefused(w) PROVE [Next]_vars
  <2>1. request[w] \in Request /\ At(w, "answer:flow")
    BY <1>2, GameplayParts DEF AnswerFlow, AnswerFlowRefused
  <2>2. request[w].state.flow # 0 /\ request[w].state.answer # NoAnswer
    BY <2>1, GameplayParts DEF At, Sound, AnswerSound, AnswerSteps
  <2>3. request[w].state.flow \in FlowId /\ request[w].state.answer \in Answer
    BY <2>1, <2>2 DEF Request, State
  <2> QED
    BY <1>2, <2>3 DEF AnswerFlow, AnswerFlowRefused, Next
<1>3. ASSUME NEW w \in Worker, EnterTick(w) PROVE Next
  BY <1>3, LimitsNat DEF EnterTick, Next
<1>4. ASSUME NEW w \in Worker, TickGoesOn(w) \/ TickThrows(w) PROVE Next
  BY <1>4 DEF TickGoesOn, TickThrows, Next
<1>5. ASSUME NEW t \in TaskId, BackoffPasses(t) PROVE Next
  BY <1>5 DEF BackoffPasses, Next
<1>6. ASSUME NEW w \in Worker,
             \/ FindQuestion(w) \/ SaveStart(w) \/ SaveStartUser(w) \/ SaveStartUserRefused(w)
             \/ \E outcome \in Outcome : SaveStartRow(w, outcome)
             \/ StoreInteraction(w)
             \/ \E i \in InteractionId, a \in Answer : LookUp(w, i, a)
             \/ \E audio \in Audio \cup {NoAudio} : FindExplanation(w, audio)
             \/ SpeechThrows(w)
             \/ SaveAnswer(w) \/ SaveAnswerUser(w) \/ SaveNoAudio(w) \/ StoreAnswer(w)
      PROVE  UNCHANGED vars
  BY <1>6 DEF FindQuestion, SaveStart, SaveStartUser, SaveStartUserRefused, SaveStartRow,
     StoreInteraction, LookUp, FindExplanation, SpeechThrows, SaveAnswer, SaveAnswerUser,
     SaveNoAudio, StoreAnswer
<1>7. ASSUME NEW w \in Worker, NEW outcome \in Outcome,
             \/ SaveRecord(w, outcome) \/ SaveCompletion(w, outcome)
             \/ SaveAudio(w, outcome) \/ SaveProgress(w, outcome)
      PROVE  UNCHANGED vars
  BY <1>7 DEF SaveRecord, SaveCompletion, SaveAudio, SaveProgress, Write
<1>8. CASE StorageBreaks
  BY <1>8 DEF StorageBreaks
<1> QED
  BY <1>1, <1>2, <1>3, <1>4, <1>5, <1>6, <1>7, <1>8 DEF GameplayNext, HandlerStep, TaskId

\* What the handlers rely on: an answer that a flow has taken stays.
AnswersStay ==
    \A f \in FlowId : flows[f].answer # NoAnswer => flows'[f].answer = flows[f].answer

LEMMA AiKeeps ==
    ASSUME GameplayInv, [Next]_vars
    PROVE  TaskInv' /\ FlowInv' /\ TypeOK' /\ AnswersStay
<1>1. TaskInv' /\ FlowInv'
  BY TaskStep, FlowStep DEF GameplayInv
<1>2. TypeOK'
  BY <1>1 DEF TaskInv, TypeInv
<1>3. AnswersStay
  BY ForwardStep DEF GameplayInv, AnswersStay
<1> QED
  BY <1>1, <1>2, <1>3

------------------------------------------------------------------------------
(* A process that starts *)

\* Memory is empty, and every row is of the past.
JustStarted ==
    /\ Init
    /\ nextInteractionId = 1
    /\ interactions = [i \in InteractionId |-> NoState]
    /\ request = [w \in Worker |-> NoRequest]
    /\ storageUp \in BOOLEAN
    /\ database \in [Row -> Rows]
    /\ audioRow \in [Audio -> Row \cup {0, NoRow}]
    /\ progress \in InteractionId \cup {0}
    /\ past \in [flows: 0..MaxFlows, rows: [Row -> Rows]] /\ past.rows = database
    /\ \E n \in Nat : n <= past.flows /\ \A r \in Row : database[r].status # "absent" <=> r <= n
    /\ \A a \in Audio : audioRow[a] \in Row => database[audioRow[a]].status # "absent"

LEMMA JustStartedInv ==
    ASSUME JustStarted
    PROVE  GameplayInv
<1>1. TaskInv /\ FlowInv /\ TypeOK /\ nextFlowId = 1 /\ MaxFlows \in Nat
  BY TaskInit, FlowInit, ConstantsTyped DEF JustStarted, TaskInv, TypeInv, Init
<1>2. /\ \A i \in InteractionId : interactions[i] = NoState
      /\ \A w \in Worker : request[w] = NoRequest
  BY DEF JustStarted
<1>3. GameplayTypeOK
  BY <1>1, BlanksTyped DEF JustStarted, GameplayTypeOK
<1>4. Within(Drawing) = {} /\ Within(Opening) = {}
  BY <1>2, BlanksTyped DEF Within, Drawing, Opening, StartSteps
<1>5. IdsAreDrawnInOrder
  <2>1. /\ IsFiniteSet(Within(Drawing)) /\ IsFiniteSet(Within(Opening))
        /\ Cardinality(Within(Drawing)) = 0 /\ Cardinality(Within(Opening)) = 0
    BY <1>4, FS_EmptySet
  <2>2. past.flows \in 0..MaxFlows
    BY DEF JustStarted
  <2>3. PICK n \in Nat :
            n <= past.flows /\ \A r \in Row : database[r].status # "absent" <=> r <= n
    BY DEF JustStarted
  <2>4. n + Cardinality(Within(Opening)) < past.flows + nextFlowId
    BY <1>1, <2>1, <2>2, <2>3
  <2>5. nextInteractionId + Cardinality(Within(Drawing)) <= nextFlowId
        /\ past.flows + nextFlowId <= MaxFlows + 1
    BY <1>1, <2>1, <2>2 DEF JustStarted
  <2> QED
    BY <2>1, <2>3, <2>4, <2>5 DEF IdsAreDrawnInOrder
<1>6. RequestsAreSound
  <2>1. Sound(NoRequest)
    BY BlanksTyped DEF Sound, StartSound, AnswerSound, SavedSound, StartSteps, AnswerSteps, Drawn,
       Opening, Taken, Explained, Unrecorded, Unsaved, Tried, Spoken
  <2>2. Apart(NoRequest, NoRequest)
    BY BlanksTyped DEF Apart, Drawn, Taken, AnswerSteps
  <2> QED
    BY <1>2, <2>1, <2>2 DEF RequestsAreSound
<1>7. InteractionsAreSound
  BY <1>2, BlanksTyped DEF InteractionsAreSound, InteractionSound
<1>8. AudioIsPlayed /\ PastIsPast
  BY DEF JustStarted, AudioIsPlayed, PastIsPast
<1> QED
  BY <1>1, <1>3, <1>5, <1>6, <1>7, <1>8 DEF GameplayInv

LEMMA GameplayInvInit ==
    ASSUME GameplayInit
    PROVE  GameplayInv
<1>0. MaxFlows \in Nat
  BY ConstantsTyped
<1>1. database \in [Row -> Rows] /\ \A r \in Row : database[r].status = "absent"
  BY BlanksTyped DEF GameplayInit
<1>2. past = [flows |-> 0, rows |-> database]
  BY DEF GameplayInit
<1>3. past \in [flows: 0..MaxFlows, rows: [Row -> Rows]] /\ past.rows = database /\ past.flows = 0
  BY <1>0, <1>1, <1>2
<1>4. 0 <= past.flows /\ \A r \in Row : database[r].status # "absent" <=> r <= 0
  BY <1>0, <1>1, <1>3 DEF Row
<1>5. \A a \in Audio : audioRow[a] = NoRow
  BY DEF GameplayInit
<1>6. JustStarted
  BY <1>1, <1>3, <1>4, <1>5, IdsTyped DEF GameplayInit, JustStarted
<1> QED
  BY <1>6, JustStartedInv

\* What holds of a process that just started holds of one that starts anew.
LEMMA RestartedInv == JustStarted' => GameplayInv'
<1>1. JustStarted => GameplayInv
  BY JustStartedInv
<1> QED
  BY <1>1, PTL

\* The rows are as many as the starts inserted, and all of this process.
LEMMA GameplayInvRestart ==
    ASSUME GameplayInv, Restart
    PROVE  GameplayInv'
<1>0. /\ MaxFlows \in Nat /\ nextFlowId \in 1..(MaxFlows + 1) /\ past.flows = 0
      /\ database \in [Row -> Rows] /\ UNCHANGED tables
      /\ past' = [flows |-> nextFlowId - 1, rows |-> database]
  BY GameplayParts DEF Restart
<1>1. database' = database /\ audioRow' = audioRow /\ progress' = progress
  BY <1>0 DEF tables
<1>2. /\ past' \in [flows: 0..MaxFlows, rows: [Row -> Rows]]
      /\ past'.rows = database' /\ past'.flows = nextFlowId - 1
  BY <1>0, <1>1
<1>3. PICK n \in Nat : /\ n + Cardinality(Within(Opening)) < past.flows + nextFlowId
                       /\ \A r \in Row : database[r].status # "absent" <=> r <= n
  BY DEF GameplayInv, IdsAreDrawnInOrder
<1>4. Cardinality(Within(Opening)) \in Nat
  BY FS_CardinalityType DEF GameplayInv, IdsAreDrawnInOrder
<1>5. n <= past'.flows
  BY <1>0, <1>2, <1>3, <1>4
<1>6. \A a \in Audio : audioRow[a] \in Row => database[audioRow[a]].status # "absent"
  BY DEF GameplayInv, AudioIsPlayed
<1>7. Init'
  BY DEF Restart, Init, TaskId, FlowId
<1>8. JustStarted'
  BY <1>1, <1>2, <1>3, <1>5, <1>6, <1>7, GameplayParts DEF JustStarted, Restart
<1> QED
  BY <1>8, RestartedInv

------------------------------------------------------------------------------
(* Counting ids, flows and rows *)

\* The request of a worker becomes q.
Moves(w, q) == q \in Request /\ request' = [request EXCEPT ![w] = q]

LEMMA MovesTyped ==
    ASSUME GameplayInv, NEW w \in Worker, NEW q, Moves(w, q)
    PROVE  /\ request' \in [Worker -> Request]
           /\ request'[w] = q /\ \A v \in Worker \ {w} : request'[v] = request[v]
BY GameplayParts DEF Moves

LEMMA WithinMoved ==
    ASSUME GameplayInv, NEW w \in Worker, NEW q, Moves(w, q),
           NEW steps, IsFiniteSet(Within(steps))
    PROVE  /\ IsFiniteSet(Within(steps)')
           /\ Cardinality(Within(steps)) \in Nat /\ Cardinality(Within(steps)') \in Nat
           /\ q.step \in steps /\ request[w].step \notin steps =>
                Cardinality(Within(steps)') = Cardinality(Within(steps)) + 1
           /\ q.step \notin steps /\ request[w].step \in steps =>
                Cardinality(Within(steps)') = Cardinality(Within(steps)) - 1
           /\ (q.step \in steps <=> request[w].step \in steps) =>
                Cardinality(Within(steps)') = Cardinality(Within(steps))
<1> DEFINE W == Within(steps)
<1>1. /\ request'[w] = q /\ \A v \in Worker \ {w} : request'[v] = request[v]
      /\ (w \in W <=> request[w].step \in steps)
  BY MovesTyped DEF Within
<1>2. CASE q.step \in steps
  <2>1. Within(steps)' = W \cup {w}
    BY <1>1, <1>2 DEF Within
  <2> HIDE DEF W
  <2>2. /\ IsFiniteSet(W \cup {w})
        /\ Cardinality(W \cup {w}) = IF w \in W THEN Cardinality(W) ELSE Cardinality(W) + 1
    BY FS_AddElement DEF W
  <2>3. Cardinality(W) \in Nat /\ Cardinality(W \cup {w}) \in Nat
    BY <2>2, FS_CardinalityType DEF W
  <2> QED
    BY <1>1, <1>2, <2>1, <2>2, <2>3 DEF W
<1>3. CASE q.step \notin steps
  <2>1. Within(steps)' = W \ {w}
    BY <1>1, <1>3 DEF Within
  <2> HIDE DEF W
  <2>2. /\ IsFiniteSet(W \ {w})
        /\ Cardinality(W \ {w}) = IF w \in W THEN Cardinality(W) - 1 ELSE Cardinality(W)
    BY FS_RemoveElement DEF W
  <2>3. Cardinality(W) \in Nat /\ Cardinality(W \ {w}) \in Nat
    BY <2>2, FS_CardinalityType DEF W
  <2> QED
    BY <1>1, <1>3, <2>1, <2>2, <2>3 DEF W
<1> QED
  BY <1>2, <1>3

\* What IdsAreDrawnInOrder counts.
LEMMA IdsParts ==
    ASSUME GameplayInv
    PROVE  /\ IsFiniteSet(Within(Drawing)) /\ IsFiniteSet(Within(Opening))
           /\ Cardinality(Within(Drawing)) \in Nat /\ Cardinality(Within(Opening)) \in Nat
           /\ nextInteractionId + Cardinality(Within(Drawing)) <= nextFlowId
           /\ past.flows + nextFlowId <= MaxFlows + 1
           /\ past.flows \in Nat /\ nextFlowId \in Nat /\ nextInteractionId \in Nat
           /\ \E n \in Nat :
                /\ n + Cardinality(Within(Opening)) < past.flows + nextFlowId
                /\ \A r \in Row : database[r].status # "absent" <=> r <= n
<1>1. past.flows \in Nat /\ nextFlowId \in Nat /\ nextInteractionId \in Nat
  BY GameplayParts
<1> QED
  BY <1>1, FS_CardinalityType DEF GameplayInv, IdsAreDrawnInOrder

\* The rows that are there stay, and no other ones come.
SameRows == \A r \in Row : database'[r].status # "absent" <=> database[r].status # "absent"

\* The flow ids that a step may draw.
FlowIdsGoOn ==
    nextFlowId' \in Nat /\ nextFlowId' >= nextFlowId /\ past' = past
    /\ past.flows + nextFlowId' <= MaxFlows + 1

LEMMA FlowIdsStay ==
    ASSUME GameplayInv, nextFlowId' = nextFlowId, past' = past
    PROVE  FlowIdsGoOn
BY IdsParts DEF FlowIdsGoOn

\* Requests that do not move leave the count as it is.
LEMMA IdsQuiet ==
    ASSUME GameplayInv, FlowIdsGoOn, SameRows, request' = request,
           nextInteractionId' = nextInteractionId
    PROVE  IdsAreDrawnInOrder'
<1>1. Within(Drawing)' = Within(Drawing) /\ Within(Opening)' = Within(Opening)
  BY DEF Within
<1>2. PICK n \in Nat : /\ n + Cardinality(Within(Opening)) < past.flows + nextFlowId
                       /\ \A r \in Row : database[r].status # "absent" <=> r <= n
  BY IdsParts
<1>3. n + Cardinality(Within(Opening)) < past.flows + nextFlowId'
  BY <1>2, IdsParts DEF FlowIdsGoOn
<1>4. nextInteractionId + Cardinality(Within(Drawing)) <= nextFlowId'
  BY IdsParts DEF FlowIdsGoOn
<1>5. \A r \in Row : database'[r].status # "absent" <=> r <= n
  BY <1>2 DEF SameRows
<1> QED
  BY <1>1, <1>3, <1>4, <1>5, IdsParts DEF FlowIdsGoOn, IdsAreDrawnInOrder

\* A request that goes on, or ends, leaves room.
LEMMA IdsMoved ==
    ASSUME GameplayInv, NEW w \in Worker, NEW q, Moves(w, q), SameRows,
           q.step \in Drawing => request[w].step \in Drawing,
           q.step \in Opening => request[w].step \in Opening,
           nextInteractionId' = nextInteractionId, nextFlowId' = nextFlowId, past' = past
    PROVE  IdsAreDrawnInOrder'
<1>1. /\ IsFiniteSet(Within(Drawing)') /\ Cardinality(Within(Drawing)') \in Nat
      /\ Cardinality(Within(Drawing)') <= Cardinality(Within(Drawing))
  BY IdsParts, WithinMoved
<1>2. /\ IsFiniteSet(Within(Opening)') /\ Cardinality(Within(Opening)') \in Nat
      /\ Cardinality(Within(Opening)') <= Cardinality(Within(Opening))
  BY IdsParts, WithinMoved
<1>3. PICK n \in Nat : /\ n + Cardinality(Within(Opening)) < past.flows + nextFlowId
                       /\ \A r \in Row : database[r].status # "absent" <=> r <= n
  BY IdsParts
<1>4. n + Cardinality(Within(Opening)') < past.flows + nextFlowId
  BY <1>2, <1>3, IdsParts
<1>5. nextInteractionId + Cardinality(Within(Drawing)') <= nextFlowId
  BY <1>1, IdsParts
<1>6. \A r \in Row : database'[r].status # "absent" <=> r <= n
  BY <1>3 DEF SameRows
<1> QED
  BY <1>1, <1>2, <1>4, <1>5, <1>6, IdsParts DEF IdsAreDrawnInOrder

\* A start has a flow id of its own.
LEMMA IdsStarted ==
    ASSUME GameplayInv, NEW w \in Worker, NEW q, Moves(w, q), FlowIdsGoOn, SameRows,
           q.step = "start:tick", request[w].step = "idle",
           nextInteractionId' = nextInteractionId, nextFlowId' = nextFlowId + 1
    PROVE  IdsAreDrawnInOrder'
<1>0. /\ q.step \in Drawing /\ request[w].step \notin Drawing
      /\ q.step \in Opening /\ request[w].step \notin Opening
  BY DEF Drawing, Opening, StartSteps
<1>1. /\ IsFiniteSet(Within(Drawing)') /\ Cardinality(Within(Drawing)') \in Nat
      /\ Cardinality(Within(Drawing)') = Cardinality(Within(Drawing)) + 1
  BY <1>0, IdsParts, WithinMoved
<1>2. /\ IsFiniteSet(Within(Opening)') /\ Cardinality(Within(Opening)') \in Nat
      /\ Cardinality(Within(Opening)') = Cardinality(Within(Opening)) + 1
  BY <1>0, IdsParts, WithinMoved
<1>3. PICK n \in Nat : /\ n + Cardinality(Within(Opening)) < past.flows + nextFlowId
                       /\ \A r \in Row : database[r].status # "absent" <=> r <= n
  BY IdsParts
<1>4. n + Cardinality(Within(Opening)') < past.flows + nextFlowId'
  BY <1>2, <1>3, IdsParts
<1>5. nextInteractionId + Cardinality(Within(Drawing)') <= nextFlowId'
  BY <1>1, IdsParts
<1>6. \A r \in Row : database'[r].status # "absent" <=> r <= n
  BY <1>3 DEF SameRows
<1> QED
  BY <1>1, <1>2, <1>4, <1>5, <1>6 DEF FlowIdsGoOn, IdsAreDrawnInOrder

\* A flow leaves room for the id that FindQuestion draws.
LEMMA NextInteractionFree ==
    ASSUME GameplayInv, NEW w \in Worker, At(w, "start:find")
    PROVE  nextInteractionId \in InteractionId /\ interactions[nextInteractionId] = NoState
<1>1. w \in Within(Drawing)
  BY DEF Within, At, Drawing
<1>2. Cardinality(Within(Drawing)) # 0
  BY <1>1, IdsParts, FS_EmptySet
<1>3. /\ Cardinality(Within(Drawing)) \in Nat /\ past.flows \in Nat /\ nextFlowId \in Nat
      /\ past.flows + nextFlowId <= MaxFlows + 1
      /\ nextInteractionId + Cardinality(Within(Drawing)) <= nextFlowId
      /\ nextInteractionId \in Nat
  BY IdsParts
<1>4. MaxFlows \in Nat /\ nextInteractionId \in 1..(MaxFlows + 1)
  BY ConstantsTyped, GameplayParts
<1>5. nextInteractionId \in InteractionId
  BY <1>2, <1>3, <1>4 DEF InteractionId
<1> QED
  BY <1>3, <1>5, GameplayParts DEF InteractionSound

LEMMA IdsFound ==
    ASSUME GameplayInv, NEW w \in Worker, NEW q, Moves(w, q), SameRows,
           q.step = "start:save", request[w].step = "start:find",
           nextInteractionId' = nextInteractionId + 1, nextFlowId' = nextFlowId, past' = past
    PROVE  IdsAreDrawnInOrder'
<1>0. /\ q.step \notin Drawing /\ request[w].step \in Drawing
      /\ q.step \in Opening /\ request[w].step \in Opening
  BY DEF Drawing, Opening, StartSteps
<1>1. /\ IsFiniteSet(Within(Drawing)') /\ Cardinality(Within(Drawing)') \in Nat
      /\ Cardinality(Within(Drawing)') = Cardinality(Within(Drawing)) - 1
  BY <1>0, IdsParts, WithinMoved
<1>2. /\ IsFiniteSet(Within(Opening)') /\ Cardinality(Within(Opening)') \in Nat
      /\ Cardinality(Within(Opening)') = Cardinality(Within(Opening))
  BY <1>0, IdsParts, WithinMoved
<1>3. PICK n \in Nat : /\ n + Cardinality(Within(Opening)) < past.flows + nextFlowId
                       /\ \A r \in Row : database[r].status # "absent" <=> r <= n
  BY IdsParts
<1>4. nextInteractionId' + Cardinality(Within(Drawing)') <= nextFlowId
  BY <1>1, IdsParts
<1>5. \A r \in Row : database'[r].status # "absent" <=> r <= n
  BY <1>3 DEF SameRows
<1> QED
  BY <1>1, <1>2, <1>3, <1>4, <1>5, IdsParts DEF IdsAreDrawnInOrder

\* The sequence gives the id after those of the rows that are there, and a start that has yet to
\* insert its row finds one.
LEMMA NextRowFree ==
    ASSUME GameplayInv, NEW w \in Worker, At(w, "start:row"), NEW n \in Nat,
           n + Cardinality(Within(Opening)) < past.flows + nextFlowId,
           \A r \in Row : database[r].status # "absent" <=> r <= n
    PROVE  NextRow = n + 1 /\ NextRow \in Row /\ database[NextRow].status = "absent"
<1>1. w \in Within(Opening)
  BY DEF Within, At, Opening, StartSteps
<1>2. Cardinality(Within(Opening)) # 0
  BY <1>1, IdsParts, FS_EmptySet
<1>3. n + 1 <= MaxFlows
  <2>1. /\ Cardinality(Within(Opening)) \in Nat /\ past.flows \in Nat /\ nextFlowId \in Nat
        /\ past.flows + nextFlowId <= MaxFlows + 1
    BY IdsParts
  <2>2. n + Cardinality(Within(Opening)) < past.flows + nextFlowId
    OBVIOUS
  <2>3. MaxFlows \in Nat
    BY ConstantsTyped
  <2> QED
    BY <1>2, <2>1, <2>2, <2>3
<1>4. {r \in Row : database[r].status # "absent"} = 1..n
  BY <1>3, ConstantsTyped DEF Row
<1>5. Cardinality(1..n) = n
  <2>1. Cardinality(1..n) = IF 1 > n THEN 0 ELSE n - 1 + 1
    BY FS_Interval
  <2> QED
    BY <2>1
<1>6. NextRow = n + 1
  BY <1>4, <1>5 DEF NextRow
<1> QED
  BY <1>3, <1>6, ConstantsTyped DEF Row

LEMMA NextRowTyped ==
    ASSUME GameplayInv, NEW w \in Worker, At(w, "start:row")
    PROVE  NextRow \in Row /\ database[NextRow].status = "absent"
BY IdsParts, NextRowFree

\* A row that is inserted takes the place of a start that had yet to do so.
LEMMA IdsInserted ==
    ASSUME GameplayInv, NEW w \in Worker, NEW q, Moves(w, q), At(w, "start:row"),
           q.step = "start:store", nextInteractionId' = nextInteractionId,
           nextFlowId' = nextFlowId, past' = past,
           database' = [database EXCEPT ![NextRow] = Started]
    PROVE  IdsAreDrawnInOrder'
<1>0. /\ q.step \notin Drawing /\ request[w].step \notin Drawing
      /\ q.step \notin Opening /\ request[w].step \in Opening
  BY DEF At, Drawing, Opening, StartSteps
<1>1. /\ IsFiniteSet(Within(Drawing)') /\ Cardinality(Within(Drawing)') \in Nat
      /\ Cardinality(Within(Drawing)') = Cardinality(Within(Drawing))
  BY <1>0, IdsParts, WithinMoved
<1>2. /\ IsFiniteSet(Within(Opening)') /\ Cardinality(Within(Opening)') \in Nat
      /\ Cardinality(Within(Opening)') = Cardinality(Within(Opening)) - 1
  BY <1>0, IdsParts, WithinMoved
<1>3. PICK n \in Nat : /\ n + Cardinality(Within(Opening)) < past.flows + nextFlowId
                       /\ \A r \in Row : database[r].status # "absent" <=> r <= n
  BY IdsParts
<1>4. NextRow = n + 1 /\ NextRow \in Row
  BY <1>3, NextRowFree
<1>5. \A r \in Row : database'[r].status # "absent" <=> r <= n + 1
  <2> SUFFICES ASSUME NEW r \in Row PROVE database'[r].status # "absent" <=> r <= n + 1
    OBVIOUS
  <2>1. r \in Nat
    BY ConstantsTyped DEF Row
  <2>2. CASE r = NextRow
    BY <1>4, <2>1, <2>2, GameplayParts, BlanksTyped
  <2>3. CASE r # NextRow
    <3>1. database'[r] = database[r]
      BY <2>3, GameplayParts
    <3> QED
      BY <1>3, <1>4, <2>1, <2>3, <3>1
  <2> QED
    BY <2>2, <2>3
<1>6. (n + 1) + Cardinality(Within(Opening)') < past.flows + nextFlowId
  BY <1>2, <1>3, IdsParts
<1>7. nextInteractionId + Cardinality(Within(Drawing)') <= nextFlowId
  BY <1>1, IdsParts
<1>8. n + 1 \in Nat
  OBVIOUS
<1> QED
  BY <1>1, <1>2, <1>5, <1>6, <1>7, <1>8, IdsParts DEF IdsAreDrawnInOrder

------------------------------------------------------------------------------
(* Steps that write nothing that is shared *)

\* The step leaves the interactions, the tables and the history alone.
WritesNothing == UNCHANGED <<interactions, database, audioRow, progress, past>>

\* What every step but a restart leaves to the other handlers.
GoesOn ==
    /\ TaskInv' /\ FlowInv' /\ GameplayTypeOK' /\ IdsAreDrawnInOrder'
    /\ AnswersStay
    /\ nextInteractionId' >= nextInteractionId

LEMMA FlowAnswerStays ==
    ASSUME GameplayInv, AnswersStay, NEW f \in FlowId
    PROVE  /\ flows[f].answer # NoAnswer => flows'[f].answer = flows[f].answer
           /\ flows'[f].answer = NoAnswer => flows[f].answer = NoAnswer
BY DEF AnswersStay

\* The step leaves alone what p relies on.
Spares(p) ==
    /\ past' = past
    /\ p.step \in Drawn => interactions'[p.id] = interactions[p.id]
    /\ p.step \in AnswerSteps =>
        /\ interactions'[p.id].flow = interactions[p.id].flow
        /\ interactions'[p.id].row = interactions[p.id].row
    /\ p.step \in Taken => interactions'[p.id].completed = interactions[p.id].completed
    /\ p.step \in Taken \cup {"start:store"} /\ p.state.row # 0 =>
        database'[p.state.row] = database[p.state.row]
    /\ \A a \in Audio : audioRow[a] # NoRow => audioRow'[a] # NoRow
    /\ progress # 0 => progress' # 0

LEMMA SparedSound ==
    ASSUME GameplayInv, GoesOn, NEW p \in Request, Sound(p), Spares(p)
    PROVE  Sound(p)'
<1>1. StartSound(p)'
  <2>1. p.step \in Drawn => p.id < nextInteractionId'
    <3>1. p.id \in Int /\ nextInteractionId \in Int /\ nextInteractionId' \in Int
      BY GameplayParts, IdsTyped, ConstantsTyped DEF Request, GoesOn, GameplayTypeOK
    <3> QED
      BY <3>1 DEF GoesOn, Sound, StartSound
  <2> QED
    BY <2>1 DEF Spares, Sound, StartSound, Ours
<1>2. AnswerSound(p)'
  <2>1. ASSUME p.step \in Taken PROVE flows'[p.state.flow].answer = p.state.answer
    <3>1. /\ p.state.flow # 0 /\ p.state.answer # NoAnswer
          /\ flows[p.state.flow].answer = p.state.answer
      BY <2>1 DEF Sound, AnswerSound, Taken
    <3>2. p.state.flow \in FlowId
      BY <3>1 DEF Request, State
    <3> QED
      BY <3>1, <3>2, FlowAnswerStays DEF GoesOn
  <2>2. p.step \in Unrecorded /\ p.state.row # 0 => database'[p.state.row] = Started
    BY DEF Spares, Sound, AnswerSound, Unrecorded, Taken, AnswerSteps
  <2> QED
    BY <2>1, <2>2 DEF Spares, Sound, AnswerSound
<1>3. SavedSound(p)'
  <2>1. ASSUME p.step \in Tried \cup {"answer:complete"}, p.state.row # 0
        PROVE  database'[p.state.row] = database[p.state.row]
    BY <2>1 DEF Spares, Tried, Taken, AnswerSteps
  <2>2. p.state.audio # NoAudio => p.state.audio \in Audio
    BY DEF Request, State
  <2> QED
    BY <2>1, <2>2 DEF Spares, Sound, SavedSound
<1> QED
  BY <1>1, <1>2, <1>3 DEF Sound

LEMMA StaysSound ==
    ASSUME GameplayInv, GoesOn, WritesNothing, NEW p \in Request, Sound(p)
    PROVE  Sound(p)'
BY SparedSound DEF WritesNothing, Spares

\* The step leaves alone what interaction i relies on.
SparesInteraction(i) ==
    /\ past' = past
    /\ interactions'[i] = interactions[i]
    /\ interactions[i].row # 0 =>
        database'[interactions[i].row] = database[interactions[i].row]
    /\ \A w \in Worker : request'[w].step = "start:store" =>
        \/ request'[w].state.row = 0 \/ request'[w] = request[w]
        \/ request'[w].state.row # interactions[i].row

LEMMA SparedInteraction ==
    ASSUME GameplayInv, GoesOn, NEW i \in InteractionId, SparesInteraction(i)
    PROVE  InteractionSound(i)'
<1>s. PICK s \in State : s = interactions[i]
  BY GameplayParts
<1>1. /\ InteractionSound(i) /\ interactions'[i] = s /\ past' = past
      /\ s.row # 0 => database'[s.row] = database[s.row]
  BY <1>s, GameplayParts DEF SparesInteraction
<1>2. i >= nextInteractionId' => i >= nextInteractionId
  <2>1. i \in Int /\ nextInteractionId \in Int /\ nextInteractionId' \in Int
    BY GameplayParts, IdsTyped, ConstantsTyped DEF GoesOn, GameplayTypeOK
  <2> QED
    BY <2>1 DEF GoesOn
<1>3. ASSUME s.flow # 0
      PROVE  /\ flows[s.flow].answer # NoAnswer => flows'[s.flow].answer = flows[s.flow].answer
             /\ flows'[s.flow].answer = NoAnswer => flows[s.flow].answer = NoAnswer
  <2>1. s.flow \in FlowId
    BY <1>1, <1>3 DEF State
  <2> QED
    BY <2>1, FlowAnswerStays DEF GoesOn
<1>4. s.completed => s.answer = flows'[s.flow].answer
  BY <1>s, <1>1, <1>3 DEF InteractionSound
<1>5. ASSUME s.row # 0
      PROVE  /\ database[s.row].status = "completed" => database[s.row].answer = flows'[s.flow].answer
             /\ flows'[s.flow].answer = NoAnswer => database[s.row] = Started
  <2>1. /\ s.flow # 0
        /\ database[s.row].status = "completed" => database[s.row].answer = flows[s.flow].answer
        /\ flows[s.flow].answer = NoAnswer => database[s.row] = Started
    BY <1>s, <1>1, <1>5 DEF InteractionSound
  <2>2. CASE flows[s.flow].answer = NoAnswer
    BY <2>1, <2>2, BlanksTyped
  <2>3. CASE flows[s.flow].answer # NoAnswer
    BY <1>3, <2>1, <2>3
  <2> QED
    BY <2>2, <2>3
<1>6. ASSUME s.row # 0, NEW w \in Worker, request'[w].step = "start:store"
      PROVE  request'[w].state.row # s.row
  BY <1>s, <1>1, <1>6 DEF InteractionSound, At, SparesInteraction
<1> QED
  BY <1>s, <1>1, <1>2, <1>4, <1>5, <1>6 DEF InteractionSound, Ours, At

\* The other handlers are out of the way of q.
ApartFrom(w, q) == \A v \in Worker \ {w} : Apart(q, request[v]) /\ Apart(request[v], q)

\* q has no id, flow or row that the worker's request did not have.
Follows(q, p) ==
    /\ q.step \in Drawn => p.step \in Drawn /\ q.id = p.id
    /\ q.step \in Taken => p.step \in Taken /\ q.state.flow = p.state.flow
    /\ q.step = "start:store" => q.state.row = 0

LEMMA FollowsApart ==
    ASSUME GameplayInv, NEW w \in Worker, NEW q, Follows(q, request[w])
    PROVE  ApartFrom(w, q)
BY DEF GameplayInv, RequestsAreSound, Follows, ApartFrom, Apart

LEMMA ApartMoved ==
    ASSUME GameplayInv, NEW w \in Worker, NEW q, Moves(w, q), ApartFrom(w, q)
    PROVE  \A u, v \in Worker : u # v => Apart(request'[u], request'[v])
<1> SUFFICES ASSUME NEW u \in Worker, NEW v \in Worker, u # v
             PROVE  Apart(request'[u], request'[v])
  OBVIOUS
<1>1. request'[w] = q /\ \A x \in Worker \ {w} : request'[x] = request[x]
  BY MovesTyped
<1>2. CASE u = w
  BY <1>1, <1>2 DEF ApartFrom
<1>3. CASE v = w
  BY <1>1, <1>3 DEF ApartFrom
<1>4. CASE u # w /\ v # w
  <2>1. Apart(request[u], request[v])
    BY DEF GameplayInv, RequestsAreSound
  <2> QED
    BY <1>1, <1>4, <2>1
<1> QED
  BY <1>2, <1>3, <1>4

LEMMA SoundThen ==
    ASSUME NEW w \in Worker, NEW q, request'[w] = q, Sound(q)'
    PROVE  Sound(request[w])'
BY DEF Sound, StartSound, AnswerSound, SavedSound, Ours

\* The others stay sound, so the requests do when the one that moves is.
LEMMA RequestsMoved ==
    ASSUME GameplayInv, NEW w \in Worker, NEW q, Moves(w, q), ApartFrom(w, q), Sound(q)',
           \A v \in Worker \ {w}, p \in Request : request[v] = p => Sound(p)'
    PROVE  RequestsAreSound'
<1>1. request'[w] = q /\ \A v \in Worker \ {w} : request'[v] = request[v]
  BY MovesTyped
<1>2. ASSUME NEW v \in Worker PROVE Sound(request[v])'
  <2>1. CASE v = w
    BY <1>1, <2>1, SoundThen
  <2>2. CASE v # w
    <3>1. PICK p \in Request : request[v] = p
      BY GameplayParts
    <3>2. request'[v] = p /\ Sound(p)'
      BY <1>1, <2>2, <3>1
    <3> QED
      BY <3>2, SoundThen
  <2> QED
    BY <2>1, <2>2
<1>3. (\A v \in Worker : Sound(request[v]))'
  BY <1>2
<1> QED
  BY <1>3, ApartMoved DEF RequestsAreSound

LEMMA PlaysOn ==
    ASSUME GameplayInv, NEW w \in Worker, NEW q, Moves(w, q), NEW a, NEW r,
           request[w].step \in Spoken => q.step \in Spoken /\ q.state = request[w].state,
           interactions' = interactions, Plays(a, r)
    PROVE  Plays(a, r)'
<1>1. request'[w] = q /\ \A v \in Worker \ {w} : request'[v] = request[v]
  BY MovesTyped
<1> QED
  BY <1>1 DEF Plays

LEMMA LocalMove ==
    ASSUME GameplayInv, GoesOn, WritesNothing, NEW w \in Worker, NEW q, Moves(w, q),
           Sound(q)', ApartFrom(w, q),
           request[w].step \in Spoken => q.step \in Spoken /\ q.state = request[w].state,
           q.step = "start:store" => q.state.row = 0
    PROVE  GameplayInv'
<1>1. request'[w] = q /\ \A v \in Worker \ {w} : request'[v] = request[v]
  BY MovesTyped
<1>2. RequestsAreSound'
  <2>1. \A v \in Worker \ {w}, p \in Request : request[v] = p => Sound(p)'
    BY GameplayParts, StaysSound
  <2> QED
    BY <2>1, RequestsMoved
<1>3. InteractionsAreSound'
  <2>2. ASSUME NEW i \in InteractionId PROVE InteractionSound(i)'
    BY <1>1, SparedInteraction DEF WritesNothing, SparesInteraction
  <2> QED
    BY <2>2 DEF WritesNothing, GameplayInv, InteractionsAreSound
<1>4. AudioIsPlayed'
  <2>1. ASSUME NEW a \in Audio, audioRow[a] \in Row
        PROVE  /\ database[audioRow[a]].status # "absent"
               /\ past.rows[audioRow[a]].status = "absent" => Plays(a, audioRow[a])'
    BY <2>1, PlaysOn DEF WritesNothing, GameplayInv, AudioIsPlayed
  <2> QED
    BY <2>1 DEF WritesNothing, AudioIsPlayed
<1>5. PastIsPast'
  BY DEF WritesNothing, GameplayInv, PastIsPast
<1> QED
  BY <1>2, <1>3, <1>4, <1>5 DEF GameplayInv, GoesOn

\* Of a handler that only goes on to q, this is all there is to show.
GoesTo(w, q) ==
    /\ Moves(w, q)
    /\ WritesNothing /\ UNCHANGED <<nextFlowId, nextInteractionId>>
    /\ storageUp' \in {storageUp, FALSE}
    /\ Follows(q, request[w])
    /\ q.step \in Drawing => request[w].step \in Drawing
    /\ q.step \in Opening => request[w].step \in Opening
    /\ request[w].step \in Spoken => q.step \in Spoken /\ q.state = request[w].state

LEMMA WritesNothingTyped ==
    ASSUME GameplayInv, [Next]_vars, WritesNothing, request' \in [Worker -> Request],
           storageUp' \in BOOLEAN, nextInteractionId' \in 1..(MaxFlows + 1)
    PROVE  GameplayTypeOK' /\ SameRows
<1>1. TypeOK'
  BY AiKeeps
<1> QED
  BY <1>1 DEF GameplayInv, GameplayTypeOK, WritesNothing, SameRows

LEMMA GoesToInv ==
    ASSUME GameplayInv, [Next]_vars, NEW w \in Worker, NEW q, GoesTo(w, q), Sound(q)
    PROVE  GameplayInv'
<1>1. /\ Moves(w, q) /\ WritesNothing /\ UNCHANGED <<nextFlowId, nextInteractionId>>
      /\ storageUp' \in {storageUp, FALSE}
  BY DEF GoesTo
<1>2. GameplayTypeOK' /\ SameRows
  <2>1. request' \in [Worker -> Request] /\ storageUp' \in BOOLEAN
        /\ nextInteractionId' \in 1..(MaxFlows + 1)
    BY <1>1, MovesTyped DEF GameplayInv, GameplayTypeOK
  <2> QED
    BY <1>1, <2>1, WritesNothingTyped
<1>3. IdsAreDrawnInOrder'
  <2>1. past' = past
    BY <1>1 DEF WritesNothing
  <2> QED
    BY <1>1, <1>2, <2>1, IdsMoved DEF GoesTo
<1>4. GoesOn
  <2>1. nextInteractionId' >= nextInteractionId
    BY <1>1, IdsParts
  <2> QED
    BY <1>2, <1>3, <2>1, AiKeeps DEF GoesOn
<1>5. Sound(q)'
  BY <1>1, <1>4, StaysSound DEF Moves
<1>6. ApartFrom(w, q)
  BY FollowsApart DEF GoesTo
<1> QED
  BY <1>1, <1>4, <1>5, <1>6, LocalMove DEF GoesTo, Follows

\* Steps in which no request moves.
LEMMA QuietInv ==
    ASSUME GameplayInv, [Next]_vars, WritesNothing, FlowIdsGoOn,
           request' = request, nextInteractionId' = nextInteractionId, storageUp' \in BOOLEAN
    PROVE  GameplayInv'
<1>1. GameplayTypeOK' /\ SameRows
  BY GameplayParts, WritesNothingTyped
<1>2. IdsAreDrawnInOrder'
  BY <1>1, IdsQuiet
<1>3. GoesOn
  <2>1. nextInteractionId' >= nextInteractionId
    BY IdsParts
  <2> QED
    BY <1>1, <1>2, <2>1, AiKeeps DEF GoesOn
<1>4. RequestsAreSound'
  <2>1. ASSUME NEW v \in Worker PROVE Sound(request[v])'
    <3>1. PICK p \in Request : request[v] = p /\ Sound(p)
      BY GameplayParts
    <3>2. request'[v] = p /\ Sound(p)'
      BY <1>3, <3>1, StaysSound
    <3> QED
      BY <3>2, SoundThen
  <2>2. (\A v \in Worker : Sound(request[v]))'
    BY <2>1
  <2> QED
    BY <2>2 DEF GameplayInv, RequestsAreSound
<1>5. InteractionsAreSound'
  <2>1. ASSUME NEW i \in InteractionId PROVE InteractionSound(i)'
    BY <1>3, SparedInteraction DEF WritesNothing, SparesInteraction
  <2> QED
    BY <2>1 DEF WritesNothing, GameplayInv, InteractionsAreSound
<1>6. AudioIsPlayed'
  BY DEF WritesNothing, GameplayInv, AudioIsPlayed, Plays
<1>7. PastIsPast'
  BY DEF WritesNothing, GameplayInv, PastIsPast
<1> QED
  BY <1>3, <1>4, <1>5, <1>6, <1>7 DEF GameplayInv, GoesOn

------------------------------------------------------------------------------
(* The steps that write nothing *)

LEMMA TickKeepsIds ==
    ASSUME NEW w \in Worker, TickStep(w)
    PROVE  nextFlowId' = nextFlowId
BY DEF TickStep, TakeTask, TakeNothing, FinishSucceeded, FinishRetry, FinishFailed

LEMMA InvQuiet ==
    ASSUME GameplayInv, [Next]_vars,
           \/ UNCHANGED gameplayVars
           \/ StorageBreaks
           \/ \E t \in TaskId : BackoffPasses(t)
           \/ \E w \in Worker : EnterTick(w) \/ StartFlowRefused(w)
           \/ \E w \in Worker : TickGoesOn(w) /\ UNCHANGED request
    PROVE  GameplayInv'
<1>0. storageUp \in BOOLEAN /\ nextFlowId \in Nat /\ past.flows \in Nat /\ MaxFlows \in Nat
  BY IdsParts, ConstantsTyped DEF GameplayInv, GameplayTypeOK
<1>1. CASE UNCHANGED gameplayVars
  BY <1>0, <1>1, FlowIdsStay, QuietInv DEF gameplayVars, vars, tables, WritesNothing
<1>2. CASE StorageBreaks
  BY <1>2, FlowIdsStay, QuietInv DEF StorageBreaks, vars, tables, WritesNothing
<1>3. CASE \E t \in TaskId : BackoffPasses(t)
  BY <1>0, <1>3, FlowIdsStay, QuietInv DEF BackoffPasses, BackoffElapses, tables, WritesNothing
<1>4. ASSUME NEW w \in Worker, EnterTick(w) PROVE GameplayInv'
  BY <1>0, <1>4, FlowIdsStay, QuietInv DEF EnterTick, TickStart, tables, WritesNothing
<1>5. ASSUME NEW w \in Worker, StartFlowRefused(w) PROVE GameplayInv'
  <2>1. FlowIdsGoOn
    BY <1>0, <1>5 DEF FlowIdsGoOn, StartFlowRefused, StartQuestionFlowRefused, FlowsLeft
  <2> QED
    BY <1>0, <1>5, <2>1, QuietInv DEF StartFlowRefused, tables, WritesNothing
<1>6. ASSUME NEW w \in Worker, TickGoesOn(w), UNCHANGED request PROVE GameplayInv'
  <2>1. nextFlowId' = nextFlowId
    BY <1>6, TickKeepsIds DEF TickGoesOn
  <2> QED
    BY <1>0, <1>6, <2>1, FlowIdsStay, QuietInv DEF TickGoesOn, tables, WritesNothing
<1> QED
  BY <1>1, <1>2, <1>3, <1>4, <1>5, <1>6

\* A handler that returns or fails.
LEMMA InvReturn ==
    ASSUME GameplayInv, [Next]_vars, NEW w \in Worker, Return(w),
           request[w].step \notin Spoken, WritesNothing,
           UNCHANGED <<nextFlowId, nextInteractionId, storageUp>>
    PROVE  GameplayInv'
<1> DEFINE q == NoRequest
<1>1. Moves(w, q)
  BY BlanksTyped DEF Return, Moves
<1>2. Sound(q)
  BY BlanksTyped DEF Sound, StartSound, AnswerSound, SavedSound, StartSteps, AnswerSteps, Drawn,
     Opening, Taken, Explained, Unrecorded, Unsaved, Tried, Spoken
<1>3. GoesTo(w, q)
  BY <1>1, BlanksTyped DEF GoesTo, Follows, Drawn, Taken, AnswerSteps, Drawing, Opening, StartSteps
<1> QED
  BY <1>2, <1>3, GoesToInv

\* q is p at another step.
Advanced(q, p, step) == q.step = step /\ q.id = p.id /\ q.state = p.state /\ q.saved = p.saved

LEMMA GotoMoves ==
    ASSUME GameplayInv, NEW w \in Worker, NEW step \in StartSteps \cup AnswerSteps, Goto(w, step)
    PROVE  \E q \in Request : Moves(w, q) /\ Advanced(q, request[w], step)
<1> DEFINE q == [request[w] EXCEPT !.step = step]
<1>1. request[w] \in Request /\ request \in [Worker -> Request]
  BY GameplayParts
<1>2. q \in Request /\ Advanced(q, request[w], step)
  BY <1>1 DEF Request, Advanced
<1>3. request' = [request EXCEPT ![w] = q]
  BY <1>1 DEF Goto
<1> QED
  BY <1>2, <1>3 DEF Moves

\* The ways from a step to the next one that write nothing.
Goes(p, step) ==
    \/ p.step = "start:tick" /\ step = "start:find"
    \/ p.step = "start:save" /\ step \in {"start:user", "start:store"}
    \/ p.step = "start:user" /\ step \in {"start:row", "start:store"}
    \/ p.step = "answer:tick" /\ step = "answer:find"
    \/ p.step = "answer:save" /\ step \in {"answer:user", "answer:store"}
    \/ p.step = "answer:audio" /\ p.state.audio = NoAudio /\ step = "answer:progress"

LEMMA AdvancedSound ==
    ASSUME NEW p \in Request, NEW q \in Request, NEW step, Sound(p), Goes(p, step),
           Advanced(q, p, step)
    PROVE  Sound(q) /\ Follows(q, p)
<1>1. CASE p.step \in StartSteps
  BY <1>1 DEF Goes, Advanced, Follows, Sound, StartSound, AnswerSound, SavedSound, StartSteps,
     AnswerSteps, Drawn, Opening, Taken, Explained, Unrecorded, Unsaved, Tried, Spoken
<1>2. CASE p.step \in {"answer:tick", "answer:save"}
  BY <1>2 DEF Goes, Advanced, Follows, Sound, StartSound, AnswerSound, SavedSound, StartSteps,
     AnswerSteps, Drawn, Opening, Taken, Explained, Unrecorded, Unsaved, Tried, Spoken
<1>3. CASE p.step = "answer:audio"
  BY <1>3 DEF Goes, Advanced, Follows, Sound, StartSound, AnswerSound, SavedSound, StartSteps,
     AnswerSteps, Drawn, Opening, Taken, Explained, Unrecorded, Unsaved, Tried, Spoken
<1> QED
  BY <1>1, <1>2, <1>3 DEF Goes, StartSteps

LEMMA InvGoto ==
    ASSUME GameplayInv, [Next]_vars, NEW w \in Worker, NEW step, Goto(w, step),
           Goes(request[w], step), WritesNothing,
           UNCHANGED <<nextFlowId, nextInteractionId, storageUp>>
    PROVE  GameplayInv'
<1>1. step \in StartSteps \cup AnswerSteps
  BY DEF Goes, StartSteps, AnswerSteps
<1>2. PICK q \in Request : Moves(w, q) /\ Advanced(q, request[w], step)
  BY <1>1, GotoMoves
<1>3. Sound(q) /\ Follows(q, request[w])
  BY <1>2, AdvancedSound, GameplayParts
<1>4. /\ q.step \in Drawing => request[w].step \in Drawing
      /\ q.step \in Opening => request[w].step \in Opening
      /\ request[w].step \notin Spoken
  BY <1>2 DEF Goes, Advanced, Drawing, Opening, StartSteps, Spoken
<1>5. GoesTo(w, q)
  BY <1>2, <1>3, <1>4 DEF GoesTo
<1> QED
  BY <1>3, <1>5, GoesToInv

LEMMA InvLocal ==
    ASSUME GameplayInv, [Next]_vars, NEW w \in Worker,
           \/ TickGoesOn(w) /\ ~UNCHANGED request
           \/ TickThrows(w) \/ SaveStart(w) \/ SaveStartUser(w) \/ SaveStartUserRefused(w)
           \/ AnswerFlowRefused(w) \/ SpeechThrows(w) \/ SaveAnswer(w) \/ SaveNoAudio(w)
    PROVE  GameplayInv'
<1>1. CASE TickGoesOn(w) /\ ~UNCHANGED request
  <2>1. nextFlowId' = nextFlowId
    BY <1>1, TickKeepsIds DEF TickGoesOn
  <2>2. Goto(w, TickReturned(w)) /\ WritesNothing /\ UNCHANGED <<nextInteractionId, storageUp>>
    BY <1>1 DEF TickGoesOn, tables, WritesNothing
  <2>3. Goes(request[w], TickReturned(w))
    BY <1>1 DEF TickGoesOn, Ticking, TickReturned, At, Goes
  <2> QED
    BY <2>1, <2>2, <2>3, InvGoto
<1>2. CASE TickThrows(w)
  <2>1. nextFlowId' = nextFlowId
    BY <1>2 DEF TickThrows, CallThrows
  <2>2. /\ Return(w) /\ WritesNothing /\ UNCHANGED <<nextInteractionId, storageUp>>
        /\ request[w].step \notin Spoken
    BY <1>2 DEF TickThrows, Ticking, tables, WritesNothing, Spoken
  <2> QED
    BY <2>1, <2>2, InvReturn
<1>3. CASE SaveStart(w)
  <2>1. PICK step \in {"start:user", "start:store"} : Goto(w, step)
    BY <1>3 DEF SaveStart
  <2>2. /\ Goes(request[w], step) /\ WritesNothing
        /\ UNCHANGED <<nextFlowId, nextInteractionId, storageUp>>
    BY <1>3, <2>1 DEF SaveStart, At, Goes, vars, tables, WritesNothing
  <2> QED
    BY <2>1, <2>2, InvGoto
<1>4. CASE SaveStartUser(w) /\ Goto(w, "start:row")
  <2>1. /\ Goto(w, "start:row") /\ Goes(request[w], "start:row") /\ WritesNothing
        /\ UNCHANGED <<nextFlowId, nextInteractionId, storageUp>>
    BY <1>4 DEF SaveStartUser, At, Goes, vars, tables, WritesNothing
  <2> QED
    BY <2>1, InvGoto
<1>5. CASE (SaveStartUser(w) \/ SpeechThrows(w)) /\ Return(w)
  <2>1. /\ WritesNothing /\ request[w].step \notin Spoken
        /\ UNCHANGED <<nextFlowId, nextInteractionId, storageUp>>
    BY <1>5 DEF SaveStartUser, SpeechThrows, At, vars, tables, WritesNothing, Spoken
  <2> QED
    BY <1>5, <2>1, InvReturn
<1>6. CASE SaveStartUserRefused(w)
  <2>1. /\ Goto(w, "start:store") /\ Goes(request[w], "start:store") /\ WritesNothing
        /\ UNCHANGED <<nextFlowId, nextInteractionId, storageUp>>
    BY <1>6 DEF SaveStartUserRefused, At, Goes, vars, tables, WritesNothing
  <2> QED
    BY <2>1, InvGoto
<1>7. CASE AnswerFlowRefused(w)
  <2>1. nextFlowId' = nextFlowId
    BY <1>7 DEF AnswerFlowRefused, SubmitAnswerRefused, vars
  <2>2. /\ Return(w) /\ WritesNothing /\ request[w].step \notin Spoken
        /\ UNCHANGED <<nextInteractionId, storageUp>>
    BY <1>7 DEF AnswerFlowRefused, At, tables, WritesNothing, Spoken
  <2> QED
    BY <2>1, <2>2, InvReturn
<1>8. CASE SaveAnswer(w)
  <2>1. PICK step \in {"answer:user", "answer:store"} : Goto(w, step)
    BY <1>8 DEF SaveAnswer
  <2>2. /\ Goes(request[w], step) /\ WritesNothing
        /\ UNCHANGED <<nextFlowId, nextInteractionId, storageUp>>
    BY <1>8, <2>1 DEF SaveAnswer, At, Goes, vars, tables, WritesNothing
  <2> QED
    BY <2>1, <2>2, InvGoto
<1>9. CASE SaveNoAudio(w)
  <2>1. /\ Goto(w, "answer:progress") /\ Goes(request[w], "answer:progress") /\ WritesNothing
        /\ UNCHANGED <<nextFlowId, nextInteractionId, storageUp>>
    BY <1>9 DEF SaveNoAudio, At, Goes, vars, tables, WritesNothing
  <2> QED
    BY <2>1, InvGoto
<1> QED
  BY <1>1, <1>2, <1>3, <1>4, <1>5, <1>6, <1>7, <1>8, <1>9 DEF SaveStartUser, SpeechThrows

\* The copy of an interaction that takes no part in anything yet.
LEMMA InvLookUp ==
    ASSUME GameplayInv, [Next]_vars, NEW w \in Worker, NEW i \in InteractionId,
           NEW answer \in Answer, LookUp(w, i, answer)
    PROVE  GameplayInv'
<1> DEFINE state == [interactions[i] EXCEPT !.answer = answer]
<1>0. interactions[i] \in State /\ interactions[i].flow # 0 /\ request[w].step = "idle"
  BY GameplayParts DEF LookUp, At
<1>1. /\ state \in State /\ state.answer = answer /\ state.flow = interactions[i].flow
      /\ state.row = interactions[i].row
  BY <1>0 DEF State
<1> HIDE DEF state
<1>2. PICK q \in Request : q = [step |-> "answer:flow", id |-> i, saved |-> FALSE, state |-> state]
  BY <1>1 DEF Request, AnswerSteps
<1>3. q.step = "answer:flow" /\ q.id = i /\ q.saved = FALSE /\ q.state = state
  BY <1>2
<1>4. Moves(w, q)
  BY <1>2 DEF LookUp, Moves, state
<1>5. Sound(q)
  <2>1. i # 0 /\ answer # NoAnswer
    BY IdsTyped, GameplayParts
  <2> QED
    BY <1>0, <1>1, <1>3, <2>1 DEF Sound, StartSound, AnswerSound, SavedSound, StartSteps,
       AnswerSteps, Drawn, Opening, Taken, Explained, Unrecorded, Unsaved, Tried, Spoken
<1>6. WritesNothing /\ UNCHANGED <<nextFlowId, nextInteractionId, storageUp>>
  BY DEF LookUp, vars, tables, WritesNothing
<1>7. GoesTo(w, q)
  BY <1>0, <1>3, <1>4, <1>6 DEF GoesTo, Follows, Drawn, Taken, AnswerSteps, Drawing, Opening,
     StartSteps, Spoken
<1> QED
  BY <1>5, <1>7, GoesToInv

LEMMA InvFindExplanation ==
    ASSUME GameplayInv, [Next]_vars, NEW w \in Worker, NEW audio \in Audio \cup {NoAudio},
           FindExplanation(w, audio)
    PROVE  GameplayInv'
<1>0. request[w] \in Request /\ request[w].step = "answer:find" /\ Sound(request[w])
      /\ request \in [Worker -> Request]
  BY GameplayParts DEF FindExplanation, At
<1>p. PICK p \in Request : p = request[w]
  BY <1>0
<1>t. PICK text \in Text :
        text = IF HasExplanation(p.state.flow) THEN "generated" ELSE "fallback"
  BY DEF Text
<1> DEFINE state == [p.state EXCEPT !.explanation = text, !.audio = audio, !.completed = TRUE]
           q     == [p EXCEPT !.step = "answer:save", !.state = state]
<1>1. /\ state \in State
      /\ state.flow = p.state.flow /\ state.answer = p.state.answer /\ state.row = p.state.row
      /\ state.completed
  BY DEF Request, State
<1> HIDE DEF state
<1>2. /\ q \in Request
      /\ q.step = "answer:save" /\ q.id = p.id /\ q.saved = p.saved /\ q.state = state
  BY <1>1 DEF Request, AnswerSteps
<1> HIDE DEF q
<1>3. Moves(w, q)
  <2>1. request' = [request EXCEPT ![w] =
            [p EXCEPT !.step = "answer:save",
                      !.state = [p.state EXCEPT !.explanation = text, !.audio = audio,
                                                !.completed = TRUE]]]
    <3>1. request' = [request EXCEPT ![w].step = "answer:save",
                                     ![w].state.explanation = text,
                                     ![w].state.audio = audio,
                                     ![w].state.completed = TRUE]
      BY <1>p, <1>t DEF FindExplanation
    <3> QED
      BY <1>0, <1>p, <3>1, ZenonT(60) DEF Request, State
  <2> QED
    BY <1>2, <2>1 DEF Moves, q, state
<1>4. Sound(q)
  BY <1>0, <1>p, <1>1, <1>2 DEF Sound, StartSound, AnswerSound, SavedSound, StartSteps,
     AnswerSteps, Drawn, Opening, Taken, Explained, Unrecorded, Unsaved, Tried, Spoken
<1>5. WritesNothing /\ UNCHANGED <<nextFlowId, nextInteractionId, storageUp>>
  BY DEF FindExplanation, vars, tables, WritesNothing
<1>6. GoesTo(w, q)
  BY <1>0, <1>p, <1>1, <1>2, <1>3, <1>5 DEF GoesTo, Follows, Drawn, Taken, AnswerSteps, Drawing,
     Opening, StartSteps, Spoken
<1> QED
  BY <1>4, <1>6, GoesToInv

LEMMA InvSaveAnswerUser ==
    ASSUME GameplayInv, [Next]_vars, NEW w \in Worker, SaveAnswerUser(w)
    PROVE  GameplayInv'
<1>1. /\ WritesNothing /\ UNCHANGED <<nextFlowId, nextInteractionId, storageUp>>
      /\ request[w].step = "answer:user" /\ request[w].step \notin Spoken
  BY DEF SaveAnswerUser, At, vars, tables, WritesNothing, Spoken
<1>2. CASE Return(w)
  BY <1>1, <1>2, InvReturn
<1>3. CASE request' = [request EXCEPT ![w].step = "answer:record", ![w].saved = TRUE]
  <2>1. PICK p \in Request : p = request[w] /\ Sound(p)
    BY GameplayParts
  <2> DEFINE q == [p EXCEPT !.step = "answer:record", !.saved = TRUE]
  <2>2. q \in Request /\ q.step = "answer:record" /\ q.id = p.id /\ q.saved /\ q.state = p.state
    BY DEF Request, AnswerSteps
  <2> HIDE DEF q
  <2>3. Moves(w, q)
    BY <1>3, <2>1, <2>2, GameplayParts DEF Moves, q, Request
  <2>4. Sound(q)
    BY <1>1, <2>1, <2>2 DEF Sound, StartSound, AnswerSound, SavedSound, StartSteps,
       AnswerSteps, Drawn, Opening, Taken, Explained, Unrecorded, Unsaved, Tried, Spoken
  <2>5. GoesTo(w, q)
    BY <1>1, <2>1, <2>2, <2>3 DEF GoesTo, Follows, Drawn, Taken, AnswerSteps, Drawing,
       Opening, StartSteps, Spoken
  <2> QED
    BY <2>4, <2>5, GoesToInv
<1> QED
  BY <1>2, <1>3 DEF SaveAnswerUser

LEMMA InvStartFlow ==
    ASSUME GameplayInv, [Next]_vars, NEW w \in Worker, StartFlow(w)
    PROVE  GameplayInv'
<1>f. PICK f : f = nextFlowId
  OBVIOUS
<1> DEFINE state == [NoState EXCEPT !.flow = f]
           q     == [NoRequest EXCEPT !.step = "start:tick", !.state = state]
<1>0. /\ request[w].step = "idle" /\ WritesNothing /\ UNCHANGED <<nextInteractionId, storageUp>>
      /\ nextFlowId' = nextFlowId + 1 /\ nextFlowId <= MaxFlows
      /\ past.flows + nextFlowId <= MaxFlows
  BY DEF StartFlow, StartQuestionFlow, FlowsLeft, At, tables, WritesNothing
<1>1. nextFlowId \in FlowId /\ nextFlowId # 0 /\ nextFlowId \in Nat /\ past.flows \in Nat
      /\ MaxFlows \in Nat
  BY <1>0, GameplayParts DEF FlowId
<1>2. /\ state \in State /\ state.flow = f /\ state.row = 0 /\ ~state.completed
      /\ state.answer = NoAnswer
  BY <1>1, <1>f, BlanksTyped DEF State
<1> HIDE DEF state
<1>3. /\ q \in Request
      /\ q.step = "start:tick" /\ q.id = 0 /\ q.state = state /\ q.saved = FALSE
  BY <1>2, BlanksTyped DEF Request, StartSteps
<1> HIDE DEF q
<1>4. Moves(w, q)
  <2>1. q = [NoRequest EXCEPT !.step = "start:tick", !.state.flow = nextFlowId]
    BY <1>f, BlanksTyped DEF q, state, Request
  <2> QED
    BY <1>3, <2>1 DEF StartFlow, Moves
<1>5. Sound(q)
  BY <1>1, <1>f, <1>2, <1>3 DEF Sound, StartSound, AnswerSound, SavedSound, StartSteps,
     AnswerSteps, Drawn, Opening, Taken, Explained, Unrecorded, Unsaved, Tried, Spoken
<1>6. GameplayTypeOK' /\ SameRows
  <2>1. request' \in [Worker -> Request] /\ storageUp' \in BOOLEAN
        /\ nextInteractionId' \in 1..(MaxFlows + 1)
    BY <1>0, <1>4, MovesTyped DEF GameplayInv, GameplayTypeOK
  <2> QED
    BY <1>0, <2>1, WritesNothingTyped
<1>7. IdsAreDrawnInOrder'
  <2>1. FlowIdsGoOn
    BY <1>0, <1>1 DEF FlowIdsGoOn, WritesNothing
  <2> QED
    BY <1>0, <1>3, <1>4, <1>6, <2>1, IdsStarted
<1>8. GoesOn
  <2>1. nextInteractionId' >= nextInteractionId
    BY <1>0, IdsParts
  <2> QED
    BY <1>6, <1>7, <2>1, AiKeeps DEF GoesOn
<1>9. Sound(q)'
  BY <1>0, <1>3, <1>5, <1>8, StaysSound
<1>10. ApartFrom(w, q)
  BY <1>3, FollowsApart DEF Follows, Drawn, Taken, AnswerSteps
<1> QED
  BY <1>0, <1>3, <1>4, <1>8, <1>9, <1>10, LocalMove DEF Spoken

\* The id that is drawn is nobody's, and its interaction is not there yet.
LEMMA InvFindQuestion ==
    ASSUME GameplayInv, [Next]_vars, NEW w \in Worker, FindQuestion(w)
    PROVE  GameplayInv'
<1>1. /\ request[w].step = "start:find" /\ WritesNothing /\ past' = past
      /\ nextInteractionId' = nextInteractionId + 1 /\ UNCHANGED <<nextFlowId, storageUp>>
  BY DEF FindQuestion, At, vars, tables, WritesNothing
<1>p. PICK p \in Request : p = request[w] /\ Sound(p)
  BY GameplayParts
<1>t. PICK text \in Text :
        text = IF HasQuestion(p.state.flow) THEN "generated" ELSE "fallback"
  BY DEF Text
<1>i. PICK i \in InteractionId : i = nextInteractionId /\ i # 0 /\ interactions[i] = NoState
  BY <1>1, NextInteractionFree, IdsTyped DEF At
<1> DEFINE state == [p.state EXCEPT !.question = text]
           q     == [p EXCEPT !.step = "start:save", !.id = i, !.state = state]
<1>2. /\ state \in State
      /\ state.flow = p.state.flow /\ state.answer = p.state.answer /\ state.row = p.state.row
      /\ state.completed = p.state.completed
  BY DEF Request, State
<1> HIDE DEF state
<1>3. /\ q \in Request
      /\ q.step = "start:save" /\ q.id = i /\ q.saved = p.saved /\ q.state = state
  BY <1>2 DEF Request, StartSteps
<1> HIDE DEF q
<1>4. Moves(w, q)
  <2>1. request' = [request EXCEPT ![w] =
            [p EXCEPT !.step = "start:save", !.id = i,
                      !.state = [p.state EXCEPT !.question = text]]]
    BY <1>p, <1>t, <1>i, GameplayParts DEF FindQuestion, Request, State
  <2> QED
    BY <1>3, <2>1 DEF Moves, q, state
<1>5. GameplayTypeOK' /\ SameRows
  <2>1. request' \in [Worker -> Request] /\ storageUp' \in BOOLEAN
    BY <1>1, <1>4, MovesTyped DEF GameplayInv, GameplayTypeOK
  <2>2. nextInteractionId' \in 1..(MaxFlows + 1)
    BY <1>1, <1>i, ConstantsTyped DEF InteractionId
  <2> QED
    BY <1>1, <2>1, <2>2, WritesNothingTyped
<1>6. IdsAreDrawnInOrder'
  BY <1>1, <1>3, <1>4, <1>5, IdsFound
<1>7. i < nextInteractionId' /\ nextInteractionId' >= nextInteractionId
  BY <1>1, <1>i, IdsParts
<1>8. GoesOn
  BY <1>5, <1>6, <1>7, AiKeeps DEF GoesOn
<1>9. Sound(q)'
  <2>1. StartSound(q)'
    BY <1>1, <1>p, <1>i, <1>2, <1>3, <1>7
       DEF Sound, StartSound, StartSteps, Opening, Drawn, WritesNothing
  <2>2. AnswerSound(q)' /\ SavedSound(q)'
    BY <1>1, <1>p, <1>3 DEF Sound, AnswerSound, SavedSound, StartSteps, AnswerSteps, Taken,
       Explained, Unrecorded, Unsaved, Tried, Spoken
  <2> QED
    BY <2>1, <2>2 DEF Sound
<1>10. ApartFrom(w, q)
  <2>1. ASSUME NEW v \in Worker, request[v].step \in Drawn PROVE request[v].id # i
    BY <1>i, <2>1, GameplayParts, IdsParts DEF Sound, StartSound
  <2> QED
    BY <1>3, <2>1 DEF ApartFrom, Apart, Taken, AnswerSteps
<1> QED
  BY <1>1, <1>3, <1>4, <1>8, <1>9, <1>10, LocalMove DEF Spoken

\* The flow takes the answer of one handler only, and while it has none nothing was written.
LEMMA InvAnswerFlow ==
    ASSUME GameplayInv, [Next]_vars, NEW w \in Worker, AnswerFlow(w)
    PROVE  GameplayInv'
<1>p. PICK p \in Request : p = request[w] /\ Sound(p) /\ p.step = "answer:flow"
  BY GameplayParts DEF AnswerFlow, At
<1>1. /\ Goto(w, "answer:tick") /\ SubmitAnswer(p.state.flow, p.state.answer)
      /\ WritesNothing /\ UNCHANGED <<nextFlowId, nextInteractionId, storageUp>>
  BY <1>p DEF AnswerFlow, SubmitAnswer, tables, WritesNothing
<1>2. /\ p.id \in InteractionId /\ p.state.flow \in FlowId /\ p.state.answer # NoAnswer
      /\ interactions[p.id].flow = p.state.flow /\ interactions[p.id].row = p.state.row
  BY <1>p DEF Sound, AnswerSound, AnswerSteps, Request, State
<1>3. flows[p.state.flow].answer = NoAnswer /\ flows'[p.state.flow].answer = p.state.answer
  <2>1. flows[p.state.flow].stage = "waiting_answer" /\ flows \in [FlowId -> Flow]
    BY <1>1, GameplayParts DEF SubmitAnswer, TypeOK
  <2>2. flows[p.state.flow].answer = NoAnswer
    BY <1>2, <2>1 DEF GameplayInv, FlowInv, FlowFollowsItsTasks
  <2>3. flows'[p.state.flow].answer = p.state.answer
    BY <1>1, <1>2, <2>1 DEF SubmitAnswer, Flow
  <2> QED
    BY <2>2, <2>3
<1>4. PICK q \in Request : Moves(w, q) /\ Advanced(q, p, "answer:tick")
  BY <1>1, <1>p, GotoMoves DEF AnswerSteps
<1>5. GameplayTypeOK' /\ SameRows
  <2>1. request' \in [Worker -> Request] /\ storageUp' \in BOOLEAN
        /\ nextInteractionId' \in 1..(MaxFlows + 1)
    BY <1>1, <1>4, MovesTyped DEF GameplayInv, GameplayTypeOK
  <2> QED
    BY <1>1, <2>1, WritesNothingTyped
<1>6. IdsAreDrawnInOrder'
  BY <1>1, <1>4, <1>5, IdsMoved DEF Advanced, Drawing, Opening, StartSteps, WritesNothing
<1>7. GoesOn
  <2>1. nextInteractionId' >= nextInteractionId
    BY <1>1, IdsParts
  <2> QED
    BY <1>5, <1>6, <2>1, AiKeeps DEF GoesOn
<1>8. Sound(q)'
  <2>1. ~interactions[p.id].completed
    BY <1>2, <1>3, GameplayParts DEF InteractionSound
  <2>2. p.state.row # 0 => database[p.state.row] = Started
    BY <1>2, <1>3, GameplayParts DEF InteractionSound
  <2>3. StartSound(q)'
    BY <1>4 DEF Advanced, StartSound, StartSteps, Opening, Drawn
  <2>4. AnswerSound(q)'
    BY <1>p, <1>1, <1>2, <1>3, <1>4, <2>1, <2>2 DEF WritesNothing, Advanced, Sound, AnswerSound,
       AnswerSteps, Taken, Explained, Unrecorded
  <2>5. SavedSound(q)'
    BY <1>p, <1>4 DEF Advanced, Sound, SavedSound, Unsaved
  <2> QED
    BY <2>3, <2>4, <2>5 DEF Sound
<1>9. ApartFrom(w, q)
  <2>1. ASSUME NEW v \in Worker, request[v].step \in Taken
        PROVE  request[v].state.flow # p.state.flow
    <3>1. Sound(request[v])
      BY GameplayParts
    <3>2. /\ request[v].state.answer # NoAnswer
          /\ flows[request[v].state.flow].answer = request[v].state.answer
      BY <2>1, <3>1 DEF Sound, AnswerSound, Taken
    <3> QED
      BY <1>3, <3>2
  <2> QED
    BY <1>4, <2>1 DEF Advanced, ApartFrom, Apart, Drawn
<1>10. q.step \notin {"start:store"} /\ request[w].step \notin Spoken
  BY <1>p, <1>4 DEF Advanced, Spoken
<1> QED
  BY <1>1, <1>4, <1>7, <1>8, <1>9, <1>10, LocalMove

\* The request of a handler after a write.
Wrote(q, p, next, outcome) ==
    /\ q.step = next /\ q.id = p.id /\ q.state = p.state
    /\ q.saved = (p.saved /\ outcome = "written")

LEMMA WriteMoves ==
    ASSUME GameplayInv, NEW w \in Worker, NEW next \in AnswerSteps, NEW outcome \in Outcome,
           Write(w, next, outcome)
    PROVE  \E q \in Request : Moves(w, q) /\ Wrote(q, request[w], next, outcome)
<1> DEFINE q == [request[w] EXCEPT !.step = next, !.saved = @ /\ outcome = "written"]
<1>1. request[w] \in Request /\ request \in [Worker -> Request]
  BY GameplayParts
<1>2. q \in Request /\ Wrote(q, request[w], next, outcome)
  BY <1>1 DEF Request, Wrote
<1>3. request' = [request EXCEPT ![w] = q]
  BY <1>1 DEF Write
<1> QED
  BY <1>2, <1>3 DEF Moves

\* A write that fails is one of nothing.
LEMMA InvWriteFails ==
    ASSUME GameplayInv, [Next]_vars, NEW w \in Worker,
           \/ SaveRecord(w, "failed") \/ SaveCompletion(w, "failed")
           \/ SaveAudio(w, "failed") \/ SaveProgress(w, "failed")
    PROVE  GameplayInv'
<1>p. PICK p \in Request : p = request[w] /\ Sound(p)
  BY GameplayParts
<1>1. PICK next \in AnswerSteps :
        /\ Write(w, next, "failed") /\ WritesNothing
        /\ p.step \in AnswerSteps \ Unsaved /\ next \in AnswerSteps \ Unsaved
        /\ next # "answer:record" /\ (p.step \in Spoken => next \in Spoken)
  <2>1. CASE SaveRecord(w, "failed")
    BY <1>p, <2>1 DEF SaveRecord, At, Write, Written, WritesNothing, AnswerSteps,
       Unsaved, Spoken
  <2>2. CASE SaveCompletion(w, "failed")
    BY <1>p, <2>2 DEF SaveCompletion, At, Write, Written, WritesNothing, AnswerSteps,
       Unsaved, Spoken
  <2>3. CASE SaveAudio(w, "failed")
    BY <1>p, <2>3 DEF SaveAudio, At, Write, Written, WritesNothing, AnswerSteps,
       Unsaved, Spoken
  <2>4. CASE SaveProgress(w, "failed")
    BY <1>p, <2>4 DEF SaveProgress, At, Write, Written, WritesNothing, AnswerSteps,
       Unsaved, Spoken
  <2> QED
    BY <2>1, <2>2, <2>3, <2>4
<1>2. PICK q \in Request : Moves(w, q) /\ Wrote(q, p, next, "failed")
  BY <1>p, <1>1, WriteMoves DEF Outcome
<1>3. Sound(q)
  <2>1. StartSound(q)
    BY <1>1, <1>2 DEF Wrote, StartSound, AnswerSteps, StartSteps, Opening, Drawn
  <2>2. AnswerSound(q)
    BY <1>p, <1>1, <1>2 DEF Wrote, Sound, AnswerSound, AnswerSteps, Taken, Explained, Unrecorded,
       Unsaved
  <2>3. SavedSound(q)
    BY <1>2 DEF Wrote, SavedSound
  <2> QED
    BY <2>1, <2>2, <2>3 DEF Sound
<1>4. GoesTo(w, q)
  <2>1. UNCHANGED <<nextFlowId, nextInteractionId>> /\ storageUp' \in {storageUp, FALSE}
    BY <1>1 DEF Write, Ends, vars
  <2>2. Follows(q, p) /\ q.step \notin Drawing /\ q.step \notin Opening
    BY <1>1, <1>2 DEF Wrote, Follows, AnswerSteps, Unsaved, Drawn, Taken, Drawing, Opening,
       StartSteps
  <2> QED
    BY <1>p, <1>1, <1>2, <2>1, <2>2 DEF GoesTo, Wrote
<1> QED
  BY <1>3, <1>4, GoesToInv

------------------------------------------------------------------------------
(* The steps that write the tables *)

\* An answer goes on to q, and may write.
AnswerMoves(w, q) ==
    /\ Moves(w, q)
    /\ UNCHANGED <<nextFlowId, nextInteractionId, past>>
    /\ storageUp' \in {storageUp, FALSE}
    /\ request[w].step \in Taken /\ q.step \in Taken

\* What it writes has its shape.
WritesTyped ==
    /\ interactions' \in [InteractionId -> State]
    /\ database' \in [Row -> Rows]
    /\ audioRow' \in [Audio -> Row \cup {0, NoRow}]
    /\ progress' \in InteractionId \cup {0}

LEMMA AnswerGoesOn ==
    ASSUME GameplayInv, [Next]_vars, NEW w \in Worker, NEW q, AnswerMoves(w, q),
           WritesTyped, SameRows
    PROVE  GoesOn
<1>1. GameplayTypeOK'
  BY AiKeeps, MovesTyped DEF GameplayInv, GameplayTypeOK, AnswerMoves, WritesTyped
<1>2. IdsAreDrawnInOrder'
  <2>1. q.step \notin Drawing /\ q.step \notin Opening
    BY DEF AnswerMoves, Taken, AnswerSteps, Drawing, Opening, StartSteps
  <2> QED
    BY <2>1, IdsMoved DEF AnswerMoves
<1>3. nextInteractionId' >= nextInteractionId
  BY IdsParts DEF AnswerMoves
<1> QED
  BY <1>1, <1>2, <1>3, AiKeeps DEF GoesOn

\* A handler that has its flow's answer is alone with the row of its interaction.
LEMMA RowIsOwn ==
    ASSUME GameplayInv, NEW w \in Worker, request[w].step \in Taken, request[w].state.row # 0
    PROVE  /\ request[w].id \in InteractionId /\ request[w].state.row \in Row
           /\ interactions[request[w].id].flow = request[w].state.flow
           /\ interactions[request[w].id].row = request[w].state.row
           /\ Ours(request[w].state.row)
           /\ \A v \in Worker \ {w} : request[v].step \in Taken \cup {"start:store"} =>
                request[v].state.row # request[w].state.row
           /\ \A i \in InteractionId \ {request[w].id} :
                interactions[i].row # request[w].state.row
<1>1. request[w] \in Request /\ Sound(request[w])
  BY GameplayParts
<1>2. /\ request[w].id \in InteractionId /\ request[w].state.row \in Row
      /\ interactions[request[w].id].flow = request[w].state.flow
      /\ interactions[request[w].id].row = request[w].state.row
  BY <1>1 DEF Sound, AnswerSound, Taken, Request, State
<1>3. Ours(request[w].state.row)
  BY <1>2, GameplayParts DEF InteractionSound
<1>4. \A i \in InteractionId \ {request[w].id} : interactions[i].row # request[w].state.row
  BY <1>2 DEF GameplayInv, InteractionsAreSound
<1>5. ASSUME NEW v \in Worker \ {w}, request[v].step = "start:store"
      PROVE  request[v].state.row # request[w].state.row
  BY <1>2, <1>5, GameplayParts DEF InteractionSound, At
<1>6. ASSUME NEW v \in Worker \ {w}, request[v].step \in Taken,
             request[v].state.row = request[w].state.row
      PROVE  FALSE
  <2>1. /\ request[v].id \in InteractionId
        /\ interactions[request[v].id].flow = request[v].state.flow
        /\ interactions[request[v].id].row = request[v].state.row
    BY <1>6, GameplayParts DEF Sound, AnswerSound, Taken, Request
  <2>2. request[v].id = request[w].id
    BY <1>4, <1>6, <2>1
  <2>3. Apart(request[v], request[w])
    BY <1>6 DEF GameplayInv, RequestsAreSound
  <2> QED
    BY <1>2, <1>6, <2>1, <2>2, <2>3 DEF Apart
<1> QED
  BY <1>2, <1>3, <1>4, <1>5, <1>6

\* An answer writes the row of its interaction.
LEMMA RowWritten ==
    ASSUME GameplayInv, [Next]_vars, NEW w \in Worker, NEW q, AnswerMoves(w, q),
           q.id = request[w].id, q.state = request[w].state,
           request[w].step \notin Spoken, q.step \in Explained \ Unrecorded,
           request[w].step \in Explained, NEW r, r = q.state.row, r # 0,
           NEW row \in Rows, database' = [database EXCEPT ![r] = row],
           row.status # "absent", row.records <= 1,
           row.status = "completed" => row.answer = q.state.answer,
           UNCHANGED <<interactions, audioRow, progress>>, SavedSound(q)'
    PROVE  GameplayInv'
<1>p. PICK p \in Request : p = request[w] /\ Sound(p)
  BY GameplayParts
<1>1. /\ p.id \in InteractionId /\ r \in Row
      /\ interactions[p.id].flow = p.state.flow /\ interactions[p.id].row = r
      /\ Ours(r)
      /\ \A v \in Worker \ {w} : request[v].step \in Taken \cup {"start:store"} =>
            request[v].state.row # r
      /\ \A i \in InteractionId \ {p.id} : interactions[i].row # r
  BY <1>p, RowIsOwn DEF AnswerMoves
<1>2. /\ database'[r] = row /\ \A x \in Row \ {r} : database'[x] = database[x]
      /\ database' \in [Row -> Rows]
  BY <1>1, GameplayParts
<1>3. SameRows
  BY <1>1, <1>2 DEF SameRows, Ours
<1>4. GoesOn
  <2>1. WritesTyped
    BY <1>2, GameplayParts DEF WritesTyped
  <2> QED
    BY <1>3, <2>1, AnswerGoesOn
<1>5. /\ p.state.answer # NoAnswer /\ p.state.flow # 0 /\ p.state.flow \in FlowId
      /\ flows'[p.state.flow].answer = p.state.answer
  <2>1. /\ p.state.answer # NoAnswer /\ p.state.flow # 0
        /\ flows[p.state.flow].answer = p.state.answer
    BY <1>p DEF AnswerMoves, Sound, AnswerSound, Taken
  <2>2. p.state.flow \in FlowId
    BY <2>1 DEF Request, State
  <2> QED
    BY <1>4, <2>1, <2>2, FlowAnswerStays DEF GoesOn
<1>6. Sound(q)'
  <2>1. StartSound(q)'
    BY DEF StartSound, Explained, Taken, AnswerSteps, StartSteps, Opening, Drawn
  <2>2. AnswerSound(q)'
    BY <1>p, <1>5 DEF AnswerMoves, Sound, AnswerSound, Taken, Explained
  <2> QED
    BY <2>1, <2>2 DEF Sound
<1>7. RequestsAreSound'
  <2>1. ApartFrom(w, q)
    <3>1. Follows(q, request[w])
      BY DEF AnswerMoves, Follows, Taken, AnswerSteps, Drawn
    <3> QED
      BY <3>1, FollowsApart
  <2>2. ASSUME NEW v \in Worker \ {w}, NEW o \in Request, request[v] = o PROVE Sound(o)'
    <3>1. Sound(o)
      BY <2>2, GameplayParts
    <3>2. o.step \in Taken \cup {"start:store"} /\ o.state.row # 0 =>
            database'[o.state.row] = database[o.state.row]
      BY <1>1, <1>2, <2>2 DEF Request, State
    <3>3. Spares(o)
      BY <3>2 DEF Spares, AnswerMoves
    <3> QED
      BY <1>4, <3>1, <3>3, SparedSound
  <2> QED
    BY <1>6, <2>1, <2>2, RequestsMoved DEF AnswerMoves
<1>m. request'[w] = q /\ \A v \in Worker \ {w} : request'[v] = request[v]
  BY MovesTyped DEF AnswerMoves
<1>s. q.step # "start:store"
  BY DEF AnswerMoves, Taken, AnswerSteps
<1>8. InteractionsAreSound'
  <2>1. ASSUME NEW i \in InteractionId \ {p.id} PROVE InteractionSound(i)'
    <3>1. interactions[i].row # 0 => interactions[i].row \in Row \ {r}
      BY <1>1, GameplayParts DEF State
    <3>2. SparesInteraction(i)
      BY <1>2, <1>m, <1>s, <3>1 DEF SparesInteraction, AnswerMoves
    <3> QED
      BY <1>4, <3>2, SparedInteraction
  <2>2. InteractionSound(p.id)'
    <3>1. InteractionSound(p.id)
      BY <1>1, GameplayParts
    <3>2. nextInteractionId' = nextInteractionId /\ past' = past
      BY DEF AnswerMoves
    <3>3. interactions[p.id].completed => interactions[p.id].answer = p.state.answer
      <4>1. ~interactions[p.id].completed
        BY <1>p DEF AnswerMoves, Sound, AnswerSound
      <4> QED
        BY <4>1
    <3>4. \A v \in Worker : request'[v].step = "start:store" => request'[v].state.row # r
      BY <1>1, <1>m, <1>s
    <3> QED
      BY <1>p, <1>1, <1>2, <1>5, <3>1, <3>2, <3>3, <3>4 DEF InteractionSound, Ours, At
  <2> QED
    BY <2>1, <2>2 DEF GameplayInv, InteractionsAreSound
<1>9. AudioIsPlayed'
  <2>1. ASSUME NEW a \in Audio, audioRow[a] \in Row
        PROVE  /\ database[audioRow[a]].status # "absent"
               /\ past.rows[audioRow[a]].status = "absent" => Plays(a, audioRow[a])'
    BY <2>1, PlaysOn DEF AnswerMoves, GameplayInv, AudioIsPlayed
  <2> QED
    BY <1>3, <2>1 DEF SameRows, AudioIsPlayed, AnswerMoves
<1>10. PastIsPast'
  BY <1>1, <1>2 DEF Ours, AnswerMoves, GameplayInv, PastIsPast
<1> QED
  BY <1>4, <1>7, <1>8, <1>9, <1>10 DEF GameplayInv, GoesOn

LEMMA InvSaveRecord ==
    ASSUME GameplayInv, [Next]_vars, NEW w \in Worker, NEW outcome \in Outcome,
           Written(outcome), SaveRecord(w, outcome)
    PROVE  GameplayInv'
<1>p. PICK p \in Request : p = request[w] /\ Sound(p) /\ p.step = "answer:record"
  BY GameplayParts DEF SaveRecord, At
<1>1. /\ Write(w, "answer:complete", outcome)
      /\ UNCHANGED <<interactions, audioRow, progress, past,
                     nextFlowId, nextInteractionId>>
      /\ storageUp' \in {storageUp, FALSE}
  BY DEF SaveRecord, Write, Ends, vars
<1>2. PICK q \in Request : Moves(w, q) /\ Wrote(q, p, "answer:complete", outcome)
  BY <1>p, <1>1, WriteMoves DEF AnswerSteps
<1>3. q.step = "answer:complete" /\ q.id = p.id /\ q.state = p.state /\ (q.saved => p.saved)
  BY <1>2 DEF Wrote, Request
<1>4. CASE p.state.row = 0
  <2>1. WritesNothing
    BY <1>1, <1>p, <1>4 DEF SaveRecord, WritesNothing
  <2>2. Sound(q)
    BY <1>p, <1>3, <1>4 DEF Sound, StartSound, AnswerSound, SavedSound, StartSteps,
       AnswerSteps, Drawn, Opening, Taken, Explained, Unrecorded, Unsaved, Tried, Spoken
  <2>3. GoesTo(w, q)
    BY <1>1, <1>p, <1>2, <1>3, <2>1 DEF GoesTo, Follows, Drawn, Taken, AnswerSteps, Drawing,
       Opening, StartSteps, Spoken
  <2> QED
    BY <2>2, <2>3, GoesToInv
<1>5. CASE p.state.row # 0
  <2>r. PICK r \in Row : r = p.state.row /\ r # 0
    BY <1>5 DEF Request, State
  <2>1. database[r] = Started
    BY <1>p, <2>r DEF Sound, AnswerSound, Unrecorded
  <2>2. PICK row \in Rows : /\ row = WithRecord(Started)
                            /\ row.status = "started" /\ row.records = 1
    <3> DEFINE row == WithRecord(Started)
    <3>1. row = [Started EXCEPT !.records = 1]
      BY BlanksTyped DEF WithRecord
    <3>2. row \in Rows /\ row.status = "started" /\ row.records = 1
      BY <3>1, BlanksTyped DEF Rows
    <3> QED
      BY <3>2
  <2>4. database' = [database EXCEPT ![r] = row]
    BY <1>p, <2>r, <2>1, <2>2 DEF SaveRecord
  <2>5. database'[r] = row
    BY <2>4, GameplayParts
  <2>6. SavedSound(q)'
    BY <1>3, <2>r, <2>2, <2>5 DEF SavedSound, StartSteps, Unsaved, Tried, Spoken
  <2>7. AnswerMoves(w, q)
    BY <1>p, <1>1, <1>2, <1>3 DEF AnswerMoves, Taken, AnswerSteps
  <2>8. /\ q.step \in Explained \ Unrecorded /\ request[w].step \in Explained
        /\ request[w].step \notin Spoken
    BY <1>p, <1>3 DEF Explained, Taken, AnswerSteps, Unrecorded, Spoken
  <2>9. row.status # "absent" /\ row.status # "completed" /\ row.records <= 1
    BY <2>2
  <2>10. r = q.state.row /\ q.id = request[w].id /\ q.state = request[w].state
    BY <1>p, <1>3, <2>r
  <2> QED
    BY <1>1, <2>r, <2>4, <2>6, <2>7, <2>8, <2>9, <2>10, RowWritten
<1> QED
  BY <1>4, <1>5

LEMMA InvSaveCompletion ==
    ASSUME GameplayInv, [Next]_vars, NEW w \in Worker, NEW outcome \in Outcome,
           Written(outcome), SaveCompletion(w, outcome)
    PROVE  GameplayInv'
<1>p. PICK p \in Request : p = request[w] /\ Sound(p) /\ p.step = "answer:complete"
  BY GameplayParts DEF SaveCompletion, At
<1>1. /\ Write(w, "answer:audio", outcome) /\ p.state.row # 0
      /\ UNCHANGED <<interactions, audioRow, progress, past,
                     nextFlowId, nextInteractionId>>
      /\ storageUp' \in {storageUp, FALSE}
  BY <1>p DEF SaveCompletion, Write, Ends, vars
<1>2. PICK q \in Request : Moves(w, q) /\ Wrote(q, p, "answer:audio", outcome)
  BY <1>p, <1>1, WriteMoves DEF AnswerSteps
<1>3. q.step = "answer:audio" /\ q.id = p.id /\ q.state = p.state /\ (q.saved => p.saved)
  BY <1>2 DEF Wrote, Request
<1>r. PICK r \in Row : r = p.state.row /\ r # 0
  BY <1>1 DEF Request, State
<1>4. PICK old \in Rows : old = database[r]
  BY GameplayParts
<1>5. /\ old.records <= 1
      /\ p.saved => old.records = 1
  <2>1. /\ request[w].id \in InteractionId
        /\ interactions[request[w].id].row = request[w].state.row
    BY <1>p, <1>1, RowIsOwn DEF Taken, AnswerSteps
  <2>2. old.records <= 1
    BY <1>p, <1>r, <1>4, <2>1, GameplayParts DEF InteractionSound
  <2> QED
    BY <1>p, <1>r, <1>4, <2>2 DEF Sound, SavedSound
<1>6. PICK row \in Rows : /\ row = Completed(old, p.state.answer)
                          /\ row.status = "completed" /\ row.answer = p.state.answer
                          /\ row.records = old.records
  <2> DEFINE row == Completed(old, p.state.answer)
  <2>1. p.state.answer \in Answer \cup {NoAnswer}
    BY DEF Request, State
  <2>2. row \in Rows /\ row.status = "completed" /\ row.answer = p.state.answer
        /\ row.records = old.records
    BY <2>1 DEF Completed, Rows
  <2> QED
    BY <2>2
<1>7. database' = [database EXCEPT ![r] = row]
  BY <1>p, <1>r, <1>4, <1>6 DEF SaveCompletion
<1>8. database'[r] = row
  BY <1>7, GameplayParts
<1>9. SavedSound(q)'
  BY <1>3, <1>r, <1>5, <1>6, <1>8 DEF SavedSound, StartSteps, Unsaved, Tried, Spoken
<1>10. AnswerMoves(w, q)
  BY <1>p, <1>1, <1>2, <1>3 DEF AnswerMoves, Taken, AnswerSteps
<1>11. /\ q.step \in Explained \ Unrecorded /\ request[w].step \in Explained
       /\ request[w].step \notin Spoken
  BY <1>p, <1>3 DEF Explained, Taken, AnswerSteps, Unrecorded, Spoken
<1>12. row.status # "absent" /\ row.records <= 1 /\ row.answer = q.state.answer
  BY <1>3, <1>5, <1>6
<1>13. r = q.state.row /\ q.id = request[w].id /\ q.state = request[w].state
  BY <1>p, <1>3, <1>r
<1> QED
  BY <1>1, <1>r, <1>7, <1>9, <1>10, <1>11, <1>12, <1>13, RowWritten

\* An answer writes no row of an interaction, but its audio or the progress.
LEMMA OtherTableWritten ==
    ASSUME GameplayInv, [Next]_vars, NEW w \in Worker, NEW q, AnswerMoves(w, q),
           q.id = request[w].id, q.state = request[w].state,
           request[w].step \in Explained \ Unrecorded, q.step \in Explained \ Unrecorded,
           request[w].step \in Spoken => q.step \in Spoken,
           WritesTyped, UNCHANGED <<interactions, database>>, SavedSound(q)',
           \A a \in Audio : audioRow[a] # NoRow => audioRow'[a] # NoRow,
           progress # 0 => progress' # 0, AudioIsPlayed'
    PROVE  GameplayInv'
<1>p. PICK p \in Request : p = request[w] /\ Sound(p)
  BY GameplayParts
<1>1. SameRows
  BY DEF SameRows
<1>2. GoesOn
  BY <1>1, AnswerGoesOn
<1>3. Sound(q)'
  <2>1. StartSound(q)'
    BY DEF StartSound, Explained, Taken, AnswerSteps, StartSteps, Opening, Drawn
  <2>2. flows'[p.state.flow].answer = p.state.answer
    <3>1. /\ p.state.answer # NoAnswer /\ p.state.flow # 0
          /\ flows[p.state.flow].answer = p.state.answer
      BY <1>p DEF AnswerMoves, Sound, AnswerSound, Taken
    <3>2. p.state.flow \in FlowId
      BY <3>1 DEF Request, State
    <3> QED
      BY <1>2, <3>1, <3>2, FlowAnswerStays DEF GoesOn
  <2>3. AnswerSound(q)'
    BY <1>p, <2>2 DEF AnswerMoves, Sound, AnswerSound, Taken, Explained
  <2> QED
    BY <2>1, <2>3 DEF Sound
<1>4. RequestsAreSound'
  <2>1. ApartFrom(w, q)
    <3>1. Follows(q, request[w])
      BY DEF AnswerMoves, Follows, Taken, AnswerSteps, Drawn
    <3> QED
      BY <3>1, FollowsApart
  <2>2. ASSUME NEW v \in Worker \ {w}, NEW o \in Request, request[v] = o PROVE Sound(o)'
    <3>1. Sound(o)
      BY <2>2, GameplayParts
    <3>2. Spares(o)
      BY DEF Spares, AnswerMoves
    <3> QED
      BY <1>2, <3>1, <3>2, SparedSound
  <2> QED
    BY <1>3, <2>1, <2>2, RequestsMoved DEF AnswerMoves
<1>5. InteractionsAreSound'
  <2>1. ASSUME NEW i \in InteractionId PROVE InteractionSound(i)'
    <3>1. SparesInteraction(i)
      BY MovesTyped DEF SparesInteraction, AnswerMoves, Taken, AnswerSteps
    <3> QED
      BY <1>2, <3>1, SparedInteraction
  <2> QED
    BY <2>1 DEF GameplayInv, InteractionsAreSound
<1>6. PastIsPast'
  BY DEF AnswerMoves, GameplayInv, PastIsPast
<1> QED
  BY <1>2, <1>4, <1>5, <1>6 DEF GameplayInv, GoesOn

\* The row of an audio becomes that of the interaction, which plays it.
LEMMA InvSaveAudio ==
    ASSUME GameplayInv, [Next]_vars, NEW w \in Worker, NEW outcome \in Outcome,
           Written(outcome), SaveAudio(w, outcome)
    PROVE  GameplayInv'
<1>p. PICK p \in Request : p = request[w] /\ Sound(p) /\ p.step = "answer:audio"
  BY GameplayParts DEF SaveAudio, At
<1>1. /\ Write(w, "answer:progress", outcome)
      /\ UNCHANGED <<interactions, database, progress, past,
                     nextFlowId, nextInteractionId>>
      /\ storageUp' \in {storageUp, FALSE}
      /\ p.state.audio # NoAudio
      /\ audioRow' = [audioRow EXCEPT ![p.state.audio] = p.state.row]
  BY <1>p DEF SaveAudio, Write, Ends, vars
<1>2. PICK q \in Request : Moves(w, q) /\ Wrote(q, p, "answer:progress", outcome)
  BY <1>p, <1>1, WriteMoves DEF AnswerSteps
<1>3. q.step = "answer:progress" /\ q.id = p.id /\ q.state = p.state /\ (q.saved => p.saved)
  BY <1>2 DEF Wrote, Request
<1>4. p.state.audio \in Audio /\ p.state.row \in Row \cup {0} /\ p.state.row # NoRow
  BY <1>1, IdsTyped DEF Request, State
<1>5. /\ audioRow' \in [Audio -> Row \cup {0, NoRow}]
      /\ audioRow'[p.state.audio] = p.state.row
      /\ \A a \in Audio \ {p.state.audio} : audioRow'[a] = audioRow[a]
  BY <1>1, <1>4, GameplayParts
<1>6. WritesTyped
  BY <1>1, <1>5, GameplayParts DEF WritesTyped
<1>7. \A a \in Audio : audioRow[a] # NoRow => audioRow'[a] # NoRow
  BY <1>4, <1>5
<1>8. SavedSound(q)'
  BY <1>p, <1>1, <1>3, <1>4, <1>5 DEF Sound, SavedSound, StartSteps, Unsaved, Tried, Spoken
<1>9. AnswerMoves(w, q)
  BY <1>p, <1>1, <1>2, <1>3 DEF AnswerMoves, Taken, AnswerSteps
<1>10. /\ q.step \in Explained \ Unrecorded /\ request[w].step \in Explained \ Unrecorded
       /\ q.step \in Spoken /\ request[w].step \notin Spoken
  BY <1>p, <1>3 DEF Explained, Taken, AnswerSteps, Unrecorded, Spoken
<1>m. request'[w] = q
  BY <1>2, MovesTyped
<1>11. AudioIsPlayed'
  <2>1. ASSUME NEW a \in Audio \ {p.state.audio}, audioRow[a] \in Row
        PROVE  /\ database[audioRow[a]].status # "absent"
               /\ past.rows[audioRow[a]].status = "absent" => Plays(a, audioRow[a])'
    BY <1>1, <1>2, <1>10, <2>1, PlaysOn DEF GameplayInv, AudioIsPlayed
  <2>2. ASSUME p.state.row \in Row
        PROVE  database[p.state.row].status # "absent" /\ Plays(p.state.audio, p.state.row)'
    <3>1. database[p.state.row].status # "absent"
      BY <1>p, <2>2, IdsTyped, RowIsOwn DEF Ours, Taken, AnswerSteps
    <3>2. Plays(p.state.audio, p.state.row)'
      BY <1>m, <1>3, <1>10 DEF Plays
    <3> QED
      BY <3>1, <3>2
  <2>3. ASSUME NEW a \in Audio, audioRow'[a] \in Row
        PROVE  /\ database[audioRow'[a]].status # "absent"
               /\ past.rows[audioRow'[a]].status = "absent" =>
                        \E r \in Row : r = audioRow'[a] /\ Plays(a, r)'
    <3>1. CASE a = p.state.audio
      BY <1>5, <2>2, <2>3, <3>1
    <3>2. CASE a # p.state.audio
      BY <1>5, <2>1, <2>3, <3>2
    <3> QED
      BY <3>1, <3>2
  <2> QED
    BY <1>1, <2>3 DEF AudioIsPlayed, Plays
<1> QED
  BY <1>p, <1>1, <1>3, <1>6, <1>7, <1>8, <1>9, <1>10, <1>11, OtherTableWritten

LEMMA InvSaveProgress ==
    ASSUME GameplayInv, [Next]_vars, NEW w \in Worker, NEW outcome \in Outcome,
           Written(outcome), SaveProgress(w, outcome)
    PROVE  GameplayInv'
<1>p. PICK p \in Request : p = request[w] /\ Sound(p) /\ p.step = "answer:progress"
  BY GameplayParts DEF SaveProgress, At
<1>1. /\ Write(w, "answer:store", outcome)
      /\ UNCHANGED <<interactions, database, audioRow, past,
                     nextFlowId, nextInteractionId>>
      /\ storageUp' \in {storageUp, FALSE}
      /\ progress' = p.id
  BY <1>p DEF SaveProgress, Write, Ends, vars
<1>2. PICK q \in Request : Moves(w, q) /\ Wrote(q, p, "answer:store", outcome)
  BY <1>p, <1>1, WriteMoves DEF AnswerSteps
<1>3. q.step = "answer:store" /\ q.id = p.id /\ q.state = p.state /\ (q.saved => p.saved)
  BY <1>2 DEF Wrote, Request
<1>4. p.id \in InteractionId /\ p.id # 0
  BY <1>p DEF Sound, AnswerSound, AnswerSteps, Request
<1>5. WritesTyped
  BY <1>1, <1>4, GameplayParts DEF WritesTyped
<1>6. SavedSound(q)'
  BY <1>p, <1>1, <1>3, <1>4 DEF Sound, SavedSound, StartSteps, Unsaved, Tried, Spoken
<1>7. AnswerMoves(w, q)
  BY <1>p, <1>1, <1>2, <1>3 DEF AnswerMoves, Taken, AnswerSteps
<1>8. /\ q.step \in Explained \ Unrecorded /\ request[w].step \in Explained \ Unrecorded
      /\ q.step \in Spoken
  BY <1>p, <1>3 DEF Explained, Taken, AnswerSteps, Unrecorded, Spoken
<1>9. AudioIsPlayed'
  <2>1. ASSUME NEW a \in Audio, audioRow[a] \in Row
        PROVE  /\ database[audioRow[a]].status # "absent"
               /\ past.rows[audioRow[a]].status = "absent" => Plays(a, audioRow[a])'
    BY <1>p, <1>1, <1>2, <1>3, <1>8, <2>1, PlaysOn DEF GameplayInv, AudioIsPlayed
  <2> QED
    BY <1>1, <2>1 DEF AudioIsPlayed
<1> QED
  BY <1>p, <1>1, <1>3, <1>4, <1>5, <1>6, <1>7, <1>8, <1>9, OtherTableWritten

\* A row that is inserted is nobody's yet.
LEMMA InvSaveStartRow ==
    ASSUME GameplayInv, [Next]_vars, NEW w \in Worker, NEW outcome \in Outcome,
           SaveStartRow(w, outcome)
    PROVE  GameplayInv'
<1>p. PICK p \in Request : p = request[w] /\ Sound(p) /\ p.step = "start:row"
  BY GameplayParts DEF SaveStartRow, At
<1>n. PICK n \in Row : n = NextRow /\ database[n].status = "absent"
  BY NextRowTyped DEF SaveStartRow
\* The row that the interaction knows.
<1>r. PICK r \in Row \cup {0} : r = IF outcome = "written" THEN n ELSE 0
  BY <1>n
<1> DEFINE state == [p.state EXCEPT !.row = r]
           q     == [p EXCEPT !.step = "start:store", !.state = state]
<1>1. /\ state \in State /\ state.row = r
      /\ state.flow = p.state.flow /\ state.completed = p.state.completed
  BY DEF Request, State
<1> HIDE DEF state
<1>2. /\ q \in Request
      /\ q.step = "start:store" /\ q.id = p.id /\ q.saved = p.saved /\ q.state = state
  BY <1>1 DEF Request, StartSteps
<1> HIDE DEF q
<1>3. Moves(w, q)
  <2>1. request' = [request EXCEPT ![w] =
            [p EXCEPT !.step = "start:store", !.state = [p.state EXCEPT !.row = r]]]
    BY <1>p, <1>n, <1>r, GameplayParts DEF SaveStartRow, Request, State
  <2> QED
    BY <1>2, <2>1 DEF Moves, q, state
<1>4. /\ UNCHANGED <<nextFlowId, nextInteractionId, interactions, audioRow, progress, past>>
      /\ storageUp' \in {storageUp, FALSE}
  BY DEF SaveStartRow, Ends, vars
<1>5. CASE ~Written(outcome)
  <2>1. WritesNothing /\ r = 0
    BY <1>r, <1>4, <1>5, IdsTyped DEF SaveStartRow, Written, WritesNothing
  <2>2. Sound(q)
    BY <1>p, <1>1, <1>2, <2>1 DEF Sound, StartSound, AnswerSound, SavedSound, StartSteps,
       AnswerSteps, Drawn, Opening, Taken, Explained, Unrecorded, Unsaved, Tried, Spoken
  <2>3. GoesTo(w, q)
    BY <1>p, <1>1, <1>2, <1>3, <1>4, <2>1 DEF GoesTo, Follows, Drawn, Taken, AnswerSteps,
       Drawing, Opening, StartSteps, Spoken
  <2> QED
    BY <2>2, <2>3, GoesToInv
<1>6. CASE Written(outcome)
  <2>1. /\ n # 0 /\ r \in {0, n}
        /\ database' = [database EXCEPT ![n] = Started]
        /\ database' = [database EXCEPT ![NextRow] = Started]
    BY <1>n, <1>r, <1>6, IdsTyped DEF SaveStartRow
  <2>2. /\ database'[n] = Started /\ \A x \in Row \ {n} : database'[x] = database[x]
        /\ database' \in [Row -> Rows]
    BY <2>1, GameplayParts, BlanksTyped
  <2>3. past.rows[n].status = "absent" /\ past' = past
    BY <1>n, <1>4 DEF GameplayInv, PastIsPast
  <2>4. request' \in [Worker -> Request]
    BY <1>3, MovesTyped
  <2>m. request'[w] = q /\ \A v \in Worker \ {w} : request'[v] = request[v]
    BY <1>3, MovesTyped
  <2>5. GameplayTypeOK'
    BY <1>4, <2>2, <2>4, AiKeeps DEF GameplayInv, GameplayTypeOK
  <2>6. IdsAreDrawnInOrder'
    BY <1>p, <1>2, <1>3, <1>4, <2>1, IdsInserted DEF At
  <2>7. GoesOn
    <3>1. nextInteractionId' >= nextInteractionId
      BY <1>4, IdsParts
    <3> QED
      BY <2>5, <2>6, <3>1, AiKeeps DEF GoesOn
  \* The rows in use are there already.
  <2>8. ASSUME NEW x \in Row, database[x].status # "absent" PROVE x # n /\ database'[x] = database[x]
    BY <1>n, <2>2, <2>8
  <2>9. ASSUME NEW v \in Worker \ {w}, NEW o \in Request, request[v] = o,
               o.step \in Taken \cup {"start:store"}, o.state.row # 0
        PROVE  o.state.row \in Row /\ database[o.state.row].status # "absent"
    <3>1. o.state.row \in Row
      BY <2>9 DEF Request, State
    <3>2. CASE o.step \in Taken
      BY <2>9, <3>1, <3>2, RowIsOwn DEF Ours
    <3>3. CASE o.step = "start:store"
      BY <2>9, <3>1, <3>3, GameplayParts DEF Sound, StartSound, Ours
    <3> QED
      BY <2>9, <3>1, <3>2, <3>3
  <2>10. ASSUME NEW i \in InteractionId, interactions[i].row # 0
         PROVE  interactions[i].row \in Row /\ database[interactions[i].row].status # "absent"
    BY <2>10, GameplayParts DEF State, InteractionSound, Ours
  <2>11. Sound(q)'
    <3>1. StartSound(q)'
      BY <1>p, <1>1, <1>2, <1>4, <2>1, <2>2, <2>3, BlanksTyped
         DEF Sound, StartSound, StartSteps, Opening, Drawn, Ours
    <3>2. AnswerSound(q)' /\ SavedSound(q)'
      BY <1>p, <1>2 DEF Sound, AnswerSound, SavedSound, StartSteps, AnswerSteps, Taken,
         Explained, Unrecorded, Unsaved, Tried, Spoken
    <3> QED
      BY <3>1, <3>2 DEF Sound
  <2>12. RequestsAreSound'
    <3>1. ApartFrom(w, q)
      <4>1. ASSUME NEW v \in Worker \ {w}, request[v].step \in Drawn PROVE request[v].id # p.id
        BY <1>p, <4>1 DEF GameplayInv, RequestsAreSound, Apart, Drawn
      <4>2. ASSUME NEW v \in Worker \ {w}, request[v].step = "start:store",
                   request[v].state.row # 0
            PROVE  request[v].state.row # n
        BY <2>8, <2>9, <4>2, GameplayParts
      <4> QED
        BY <1>1, <1>2, <2>1, <4>1, <4>2 DEF ApartFrom, Apart, Taken, AnswerSteps
    <3>2. ASSUME NEW v \in Worker \ {w}, NEW o \in Request, request[v] = o PROVE Sound(o)'
      <4>1. Sound(o)
        BY <3>2, GameplayParts
      <4>2. o.step \in Taken \cup {"start:store"} /\ o.state.row # 0 =>
                database'[o.state.row] = database[o.state.row]
        BY <2>8, <2>9, <3>2
      <4>3. Spares(o)
        BY <1>4, <4>2 DEF Spares
      <4> QED
        BY <2>7, <4>1, <4>3, SparedSound
    <3> QED
      BY <1>3, <2>11, <3>1, <3>2, RequestsMoved
  <2>13. InteractionsAreSound'
    <3>1. ASSUME NEW i \in InteractionId PROVE InteractionSound(i)'
      <4>1. interactions[i].row # 0 =>
                /\ interactions[i].row # n
                /\ database'[interactions[i].row] = database[interactions[i].row]
        BY <2>8, <2>10
      <4>2. \A v \in Worker : request'[v].step = "start:store" =>
                \/ request'[v].state.row = 0 \/ request'[v] = request[v]
                \/ request'[v].state.row # interactions[i].row
        BY <1>1, <1>2, <2>1, <2>m, <4>1
      <4>3. SparesInteraction(i)
        BY <1>4, <4>1, <4>2 DEF SparesInteraction
      <4> QED
        BY <2>7, <4>3, SparedInteraction
    <3> QED
      BY <1>4, <3>1 DEF GameplayInv, InteractionsAreSound
  <2>14. AudioIsPlayed'
    <3>1. ASSUME NEW a \in Audio, audioRow[a] \in Row
          PROVE  /\ database'[audioRow[a]].status # "absent"
                 /\ past.rows[audioRow[a]].status = "absent" => Plays(a, audioRow[a])'
      <4>1. /\ database[audioRow[a]].status # "absent"
            /\ past.rows[audioRow[a]].status = "absent" => Plays(a, audioRow[a])
        BY <3>1 DEF GameplayInv, AudioIsPlayed
      <4>2. Plays(a, audioRow[a]) => Plays(a, audioRow[a])'
        BY <1>p, <1>3, <1>4, PlaysOn DEF Spoken
      <4> QED
        BY <2>8, <3>1, <4>1, <4>2
    <3> QED
      BY <1>4, <3>1 DEF AudioIsPlayed
  <2>15. PastIsPast'
    BY <2>2, <2>3 DEF GameplayInv, PastIsPast
  <2> QED
    BY <2>7, <2>12, <2>13, <2>14, <2>15 DEF GameplayInv, GoesOn
<1> QED
  BY <1>5, <1>6

------------------------------------------------------------------------------
(* The steps that store an interaction *)

\* The handler stores its copy of interaction i and returns.
Stores(w, i) ==
    /\ i = request[w].id
    /\ interactions' = [interactions EXCEPT ![i] = request[w].state]
    /\ Return(w)
    /\ UNCHANGED <<nextFlowId, nextInteractionId, storageUp, tables, past>>

LEMMA StoredInv ==
    ASSUME GameplayInv, [Next]_vars, NEW w \in Worker, NEW i \in InteractionId, Stores(w, i),
           \A v \in Worker \ {w}, o \in Request : request[v] = o => Spares(o),
           InteractionSound(i)', ~interactions[i].completed,
           request[w].step \in Spoken => request[w].state.completed,
           request[w].state.row # 0 =>
                \A j \in InteractionId \ {i} : interactions[j].row # request[w].state.row
    PROVE  GameplayInv'
<1>p. PICK p \in Request : p = request[w]
  BY GameplayParts
<1>1. /\ interactions' \in [InteractionId -> State]
      /\ interactions'[i] = p.state
      /\ \A j \in InteractionId \ {i} : interactions'[j] = interactions[j]
  <2>1. p.state \in State
    BY DEF Request
  <2> QED
    BY <1>p, <2>1, GameplayParts DEF Stores
<1>2. UNCHANGED <<nextFlowId, nextInteractionId, storageUp, database, audioRow, progress, past>>
  BY DEF Stores, tables
<1>3. Moves(w, NoRequest)
  BY BlanksTyped DEF Stores, Return, Moves
<1>m. request'[w] = NoRequest /\ \A v \in Worker \ {w} : request'[v] = request[v]
  BY <1>3, MovesTyped
<1>4. SameRows
  BY <1>2 DEF SameRows
<1>5. GoesOn
  <2>1. GameplayTypeOK'
    BY <1>1, <1>2, <1>3, AiKeeps, MovesTyped DEF GameplayInv, GameplayTypeOK
  <2>2. IdsAreDrawnInOrder'
    BY <1>2, <1>3, <1>4, BlanksTyped, IdsMoved DEF Drawing, Opening, StartSteps
  <2>3. nextInteractionId' >= nextInteractionId
    BY <1>2, IdsParts
  <2> QED
    BY <2>1, <2>2, <2>3, AiKeeps DEF GoesOn
<1>6. RequestsAreSound'
  <2>1. ApartFrom(w, NoRequest)
    <3>1. Follows(NoRequest, request[w])
      BY BlanksTyped DEF Follows, Drawn, Taken, AnswerSteps
    <3> QED
      BY <3>1, FollowsApart
  <2>2. Sound(NoRequest)'
    BY BlanksTyped DEF Sound, StartSound, AnswerSound, SavedSound, StartSteps, AnswerSteps, Drawn,
       Opening, Taken, Explained, Unrecorded, Unsaved, Tried, Spoken
  <2>3. ASSUME NEW v \in Worker \ {w}, NEW o \in Request, request[v] = o PROVE Sound(o)'
    BY <1>5, <2>3, GameplayParts, SparedSound
  <2> QED
    BY <1>3, <2>1, <2>2, <2>3, RequestsMoved
<1>7. InteractionsAreSound'
  <2>1. ASSUME NEW j \in InteractionId \ {i} PROVE InteractionSound(j)'
    <3>1. SparesInteraction(j)
      BY <1>1, <1>2, <1>m, BlanksTyped DEF SparesInteraction
    <3> QED
      BY <1>5, <3>1, SparedInteraction
  <2>2. ASSUME NEW j \in InteractionId, NEW k \in InteractionId,
               interactions'[j].row # 0, interactions'[j].row = interactions'[k].row
        PROVE  j = k
    BY <1>p, <1>1, <2>2 DEF GameplayInv, InteractionsAreSound
  <2> QED
    BY <2>1, <2>2 DEF InteractionsAreSound
<1>8. AudioIsPlayed'
  <2>1. ASSUME NEW a, NEW r, Plays(a, r) PROVE Plays(a, r)'
    <3>1. CASE \E j \in InteractionId :
                interactions[j].completed /\ interactions[j].row = r /\ interactions[j].audio = a
      BY <1>1, <3>1 DEF Plays
    <3>2. CASE request[w].step \in Spoken /\ request[w].state.row = r /\ request[w].state.audio = a
      BY <1>p, <1>1, <3>2 DEF Plays
    <3>3. CASE \E v \in Worker \ {w} :
                request[v].step \in Spoken /\ request[v].state.row = r /\ request[v].state.audio = a
      BY <1>m, <3>3 DEF Plays
    <3> QED
      BY <2>1, <3>1, <3>2, <3>3 DEF Plays
  <2>2. ASSUME NEW a \in Audio, audioRow[a] \in Row
        PROVE  /\ database[audioRow[a]].status # "absent"
               /\ past.rows[audioRow[a]].status = "absent" => Plays(a, audioRow[a])'
    <3>1. PICK r \in Row : r = audioRow[a]
      BY <2>2
    <3>2. r = audioRow'[a]
      BY <1>2, <3>1
    <3>3. /\ database[r].status # "absent"
          /\ past.rows[r].status = "absent" => Plays(a, r)
      BY <2>2, <3>1 DEF GameplayInv, AudioIsPlayed
    <3>4. past.rows[r].status = "absent" => Plays(a, r)'
      BY <2>1, <3>3
    <3> QED
      BY <3>1, <3>2, <3>3, <3>4
  <2> QED
    BY <1>2, <2>2 DEF AudioIsPlayed
<1>9. PastIsPast'
  BY <1>2 DEF GameplayInv, PastIsPast
<1> QED
  BY <1>5, <1>6, <1>7, <1>8, <1>9 DEF GameplayInv, GoesOn

LEMMA InvStoreInteraction ==
    ASSUME GameplayInv, [Next]_vars, NEW w \in Worker, StoreInteraction(w)
    PROVE  GameplayInv'
<1>p. PICK p \in Request : p = request[w] /\ Sound(p) /\ p.step = "start:store"
  BY GameplayParts DEF StoreInteraction, At
<1>i. PICK i \in InteractionId : /\ i = p.id /\ interactions[i] = NoState
                                 /\ i < nextInteractionId
  BY <1>p DEF Sound, StartSound, Drawn, Request
<1>1. Stores(w, i)
  BY <1>p, <1>i DEF StoreInteraction, Stores, vars
<1>2. UNCHANGED <<database, past, nextInteractionId, audioRow, progress, flows>>
  BY DEF StoreInteraction, vars, tables
<1>3. /\ interactions'[i] = p.state
      /\ \A j \in InteractionId \ {i} : interactions'[j] = interactions[j]
  BY <1>p, <1>1, GameplayParts DEF Stores
<1>4. ASSUME NEW v \in Worker \ {w}, NEW o \in Request, request[v] = o PROVE Spares(o)
  <2>1. o.step \in Drawn => o.id \in InteractionId \ {i}
    <3>1. Apart(request[v], request[w]) /\ Sound(o)
      BY <1>4, GameplayParts DEF GameplayInv, RequestsAreSound
    <3> QED
      BY <1>p, <1>i, <1>4, <3>1 DEF Apart, Drawn, Sound, StartSound, Request
  <2>2. o.step \in AnswerSteps => o.id \in InteractionId \ {i}
    <3>1. Sound(o)
      BY <1>4, GameplayParts
    <3> QED
      BY <1>i, <3>1, BlanksTyped DEF Sound, AnswerSound, Request
  <2> QED
    BY <1>2, <1>3, <2>1, <2>2 DEF Spares, Taken
<1>m. request'[w] = NoRequest /\ \A v \in Worker \ {w} : request'[v] = request[v]
  BY <1>1, GameplayParts DEF Stores, Return
<1>5. InteractionSound(i)'
  <2>1. ~p.state.completed
    BY <1>p DEF Sound, StartSound, StartSteps
  <2>2. ~(i >= nextInteractionId')
    BY <1>i, <1>2, IdsParts DEF InteractionId
  <2>3. p.state.row # 0 =>
            /\ p.state.flow # 0 /\ Ours(p.state.row) /\ database[p.state.row] = Started
    BY <1>p DEF Sound, StartSound, StartSteps
  <2>4. p.state.row # 0 =>
            \A v \in Worker : request'[v].step = "start:store" => request'[v].state.row # p.state.row
    BY <1>p, <1>m, BlanksTyped DEF GameplayInv, RequestsAreSound, Apart
  <2> QED
    BY <1>2, <1>3, <2>1, <2>2, <2>3, <2>4, BlanksTyped DEF InteractionSound, Ours, At
<1>6. p.state.row # 0 => \A j \in InteractionId \ {i} : interactions[j].row # p.state.row
  BY <1>p, GameplayParts DEF InteractionSound, At
<1>7. ~interactions[i].completed /\ p.step \notin Spoken
  BY <1>p, <1>i, BlanksTyped DEF Spoken
<1> QED
  BY <1>p, <1>1, <1>4, <1>5, <1>6, <1>7, StoredInv

\* The copy has the flow and the row of the interaction it overwrites, which nobody completed.
LEMMA InvStoreAnswer ==
    ASSUME GameplayInv, [Next]_vars, NEW w \in Worker, StoreAnswer(w)
    PROVE  GameplayInv'
<1>p. PICK p \in Request : p = request[w] /\ Sound(p) /\ p.step = "answer:store"
  BY GameplayParts DEF StoreAnswer, At
<1>i. PICK i \in InteractionId :
        /\ i = p.id /\ p.state.flow # 0 /\ p.state.answer # NoAnswer
        /\ interactions[i].flow = p.state.flow /\ interactions[i].row = p.state.row
        /\ flows[p.state.flow].answer = p.state.answer
        /\ ~interactions[i].completed /\ p.state.completed
  BY <1>p DEF Sound, AnswerSound, AnswerSteps, Taken, Explained, Request
<1>1. Stores(w, i)
  BY <1>p, <1>i DEF StoreAnswer, Stores, vars
<1>2. UNCHANGED <<database, past, nextInteractionId, audioRow, progress, flows>>
  BY DEF StoreAnswer, vars, tables
<1>3. /\ interactions'[i] = p.state
      /\ \A j \in InteractionId \ {i} : interactions'[j] = interactions[j]
  BY <1>p, <1>1, GameplayParts DEF Stores
<1>4. ASSUME NEW v \in Worker \ {w}, NEW o \in Request, request[v] = o PROVE Spares(o)
  <2>0. Sound(o)
    BY <1>4, GameplayParts
  <2>1. o.step \in Drawn => o.id \in InteractionId \ {i}
    BY <1>i, <2>0, BlanksTyped DEF Sound, StartSound, Request
  <2>2. o.step \in Taken => o.id \in InteractionId \ {i}
    <3>1. Apart(request[v], request[w])
      BY <1>4 DEF GameplayInv, RequestsAreSound
    <3> QED
      BY <1>p, <1>i, <1>4, <2>0, <3>1 DEF Apart, Sound, AnswerSound, Taken, AnswerSteps, Request
  <2>3. o.step \in AnswerSteps => o.id \in InteractionId
    BY <2>0 DEF Sound, AnswerSound, Request
  <2>4. o.step \in AnswerSteps =>
            /\ interactions'[o.id].flow = interactions[o.id].flow
            /\ interactions'[o.id].row = interactions[o.id].row
    BY <1>i, <1>3, <2>3
  <2> QED
    BY <1>2, <1>3, <2>1, <2>2, <2>4 DEF Spares
<1>m. request'[w] = NoRequest /\ \A v \in Worker \ {w} : request'[v] = request[v]
  BY <1>1, GameplayParts DEF Stores, Return
<1>5. InteractionSound(i)'
  <2>1. InteractionSound(i)
    BY GameplayParts
  <2>2. ~(i >= nextInteractionId)
    BY <1>i, <2>1, BlanksTyped DEF InteractionSound
  <2>3. p.state.row # 0 =>
            /\ Ours(p.state.row) /\ database[p.state.row].records <= 1
            /\ database[p.state.row].status = "completed" =>
                    database[p.state.row].answer = flows[p.state.flow].answer
            /\ flows[p.state.flow].answer = NoAnswer => database[p.state.row] = Started
            /\ \A v \in Worker : request[v].step = "start:store" => request[v].state.row # p.state.row
    BY <1>i, <2>1 DEF InteractionSound, At
  <2>4. \A v \in Worker : request'[v].step = "start:store" => request'[v] = request[v]
    BY <1>m, BlanksTyped
  <2> QED
    BY <1>i, <1>2, <1>3, <2>2, <2>3, <2>4 DEF InteractionSound, Ours, At
<1>6. p.state.row # 0 => \A j \in InteractionId \ {i} : interactions[j].row # p.state.row
  BY <1>i DEF GameplayInv, InteractionsAreSound
<1> QED
  BY <1>p, <1>i, <1>1, <1>4, <1>5, <1>6, StoredInv

------------------------------------------------------------------------------
(* The theorems *)

LEMMA HandlerStepInv ==
    ASSUME GameplayInv, [Next]_vars, NEW w \in Worker, HandlerStep(w)
    PROVE  GameplayInv'
<1>1. CASE EnterTick(w) \/ TickGoesOn(w) \/ TickThrows(w)
  BY <1>1, InvQuiet, InvLocal
<1>2. CASE FindQuestion(w) \/ SaveStart(w) \/ SaveStartUser(w) \/ SaveStartUserRefused(w)
  BY <1>2, InvFindQuestion, InvLocal
<1>3. CASE (\E outcome \in Outcome : SaveStartRow(w, outcome)) \/ StoreInteraction(w)
  BY <1>3, InvSaveStartRow, InvStoreInteraction
<1>4. CASE AnswerFlow(w) \/ AnswerFlowRefused(w)
  BY <1>4, InvAnswerFlow, InvLocal
<1>5. CASE \E audio \in Audio \cup {NoAudio} : FindExplanation(w, audio)
  BY <1>5, InvFindExplanation
<1>6. CASE SpeechThrows(w) \/ SaveAnswer(w) \/ SaveAnswerUser(w) \/ SaveNoAudio(w)
  BY <1>6, InvLocal, InvSaveAnswerUser
<1>7. CASE \E outcome \in Outcome : SaveRecord(w, outcome) \/ SaveCompletion(w, outcome)
  BY <1>7, InvWriteFails, InvSaveRecord, InvSaveCompletion DEF Written
<1>8. CASE \E outcome \in Outcome : SaveAudio(w, outcome) \/ SaveProgress(w, outcome)
  BY <1>8, InvWriteFails, InvSaveAudio, InvSaveProgress DEF Written
<1>9. CASE StoreAnswer(w)
  BY <1>9, InvStoreAnswer
<1> QED
  BY <1>1, <1>2, <1>3, <1>4, <1>5, <1>6, <1>7, <1>8, <1>9 DEF HandlerStep

LEMMA GameplayInvStep ==
    ASSUME GameplayInv, [GameplayNext]_gameplayVars
    PROVE  GameplayInv'
<1>1. CASE Restart
  BY <1>1, GameplayInvRestart
<1>2. CASE UNCHANGED gameplayVars
  BY <1>2, InvQuiet DEF gameplayVars
<1>3. CASE GameplayNext /\ ~Restart
  <2>0. [Next]_vars
    BY <1>3, AiStep
  <2>1. CASE \E w \in Worker : StartFlow(w)
    BY <2>0, <2>1, InvStartFlow
  <2>2. CASE \E w \in Worker : StartFlowRefused(w)
    BY <2>0, <2>2, InvQuiet
  <2>3. CASE \E w \in Worker, i \in InteractionId, a \in Answer : LookUp(w, i, a)
    BY <2>0, <2>3, InvLookUp
  <2>4. CASE \E w \in Worker : HandlerStep(w)
    BY <2>0, <2>4, HandlerStepInv
  <2>5. CASE \E t \in 1..MaxTasks : BackoffPasses(t)
    BY <2>0, <2>5, InvQuiet DEF TaskId
  <2>6. CASE StorageBreaks
    BY <2>0, <2>6, InvQuiet
  <2> QED
    BY <1>3, <2>1, <2>2, <2>3, <2>4, <2>5, <2>6 DEF GameplayNext
<1> QED
  BY <1>1, <1>2, <1>3

LEMMA GameplayInvAlways == GameplaySpec => []GameplayInv
<1>1. GameplayInit => GameplayInv
  BY GameplayInvInit
<1>2. GameplayInv /\ [GameplayNext]_gameplayVars => GameplayInv'
  BY GameplayInvStep
<1> QED
  BY <1>1, <1>2, PTL DEF GameplaySpec

\* The shape of the state.
THEOREM GameplayTypeCorrect == GameplaySpec => []GameplayTypeOK
<1>1. GameplayInv => GameplayTypeOK
  BY DEF GameplayInv
<1> QED
  BY <1>1, GameplayInvAlways, PTL

LEMMA AgreeHolds ==
    ASSUME GameplayInv
    PROVE  AnswersAgree
<1>1. ASSUME NEW i \in InteractionId
      PROVE  /\ interactions[i].completed =>
                interactions[i].answer # NoAnswer /\ interactions[i].answer = FlowOf(i).answer
             /\ interactions[i].row # 0 =>
                /\ database[interactions[i].row].records <= 1
                /\ database[interactions[i].row].status = "completed" =>
                        database[interactions[i].row].answer = FlowOf(i).answer
  BY GameplayParts DEF InteractionSound, FlowOf
<1>2. ASSUME NEW i \in InteractionId, NEW j \in InteractionId,
             interactions[i].row # 0, interactions[j].row = interactions[i].row
      PROVE  j = i
  BY <1>2 DEF GameplayInv, InteractionsAreSound
<1>3. \A r \in Row : past.rows[r].status # "absent" => database[r] = past.rows[r]
  BY DEF GameplayInv, PastIsPast
<1> QED
  BY <1>1, <1>2, <1>3 DEF AnswersAgree

\* One answer everywhere: an interaction that is completed shows the answer that its flow was
\* given, its row says the same and has one answer record at most, no two interactions share a
\* row, and the rows of an earlier process stay as that process left them.
THEOREM AnswersAlwaysAgree == GameplaySpec => []AnswersAgree
BY GameplayInvAlways, AgreeHolds, PTL

LEMMA SavedHolds ==
    ASSUME GameplayInv
    PROVE  SavedMeansSaved
<1>1. ASSUME NEW w \in Worker, At(w, "answer:store"), request[w].saved
      PROVE  /\ request[w].state.row # 0 /\ progress # 0
             /\ database[request[w].state.row].records = 1
             /\ database[request[w].state.row].status = "completed"
             /\ request[w].state.audio # NoAudio => audioRow[request[w].state.audio] # NoRow
  BY <1>1, GameplayParts DEF At, Sound, SavedSound, Tried, Spoken
<1>2. ASSUME NEW a \in Audio, audioRow[a] \in Row, past.rows[audioRow[a]].status = "absent"
      PROVE  \E state \in Copies : state.row = audioRow[a] /\ state.audio = a
  <2>1. Plays(a, audioRow[a])
    BY <1>2 DEF GameplayInv, AudioIsPlayed
  <2> QED
    BY <2>1 DEF Plays, Copies
<1> QED
  BY <1>1, <1>2 DEF SavedMeansSaved

\* storage_saved in the reply is the truth although every write is a transaction of its own, and
\* the row of an audio names an interaction that plays it.
THEOREM SavedMeansAllSaved == GameplaySpec => []SavedMeansSaved
BY GameplayInvAlways, SavedHolds, PTL

\* Between restarts the handlers use the orchestrator as its own specification has it: they ask
\* only for flows that are there and answers that are answers, so what a handler does of it is a
\* step of AiOrchestrator, or none, and what is proved of those steps holds under the handlers.
THEOREM HandlersUseTheOrchestrator == GameplaySpec => [][Next \/ Restart]_vars
<1>1. GameplayInv /\ [GameplayNext]_gameplayVars => [Next \/ Restart]_vars
  BY AiStep DEF gameplayVars
<1> QED
  BY <1>1, GameplayInvAlways, PTL DEF GameplaySpec

\* Hence under the handlers, too, no two of them have the client work on one task, and the stage
\* of a flow agrees with its tasks.
THEOREM OrchestratorUnderHandlers ==
    GameplaySpec => []OneRunnerPerTask /\ []FlowFollowsItsTasks
<1>1. GameplayInv => OneRunnerPerTask /\ FlowFollowsItsTasks
  BY DEF GameplayInv, TaskInv, FlowInv
<1> QED
  BY <1>1, GameplayInvAlways, PTL

================================================================================
