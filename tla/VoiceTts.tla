------------------------------- MODULE VoiceTts -------------------------------
(***************************************************************************)
(* rcs::voice_tts::VoiceTtsService: the queue of text-to-speech tasks and  *)
(* the cache of the audio they produce.                                    *)
(*                                                                         *)
(* As in AiOrchestrator, tick() holds the mutex only to take a task and to *)
(* finish it, so several threads can be synthesizing at once.              *)
(*                                                                         *)
(* Abstractions: a request is the cache key of its text, voice and format. *)
(* An audio id is its cache key and its task id (buildAudioId), so the     *)
(* task id stands for it.  The clock is left out: an audio may expire once *)
(* all older ones have (they share one ttl), a backoff may end any time.   *)
(***************************************************************************)
EXTENDS Integers, FiniteSets

CONSTANTS
    Ticker,        \* the threads that call tick()
    Key,           \* cache keys
    NoKey,         \* an audio id the index does not hold
    MaxRetries,    \* config_.max_retries
    MaxQueued,     \* config_.max_queued_tasks
    MaxCache,      \* config_.max_cache_items
    MaxBatch,      \* bound on tick's max_tasks
    MaxTasks       \* bound on the tasks ever created

TaskId == 1..MaxTasks

ASSUME LimitsNat ==
    /\ MaxRetries \in Nat /\ MaxQueued \in Nat /\ MaxCache \in Nat
    /\ MaxBatch \in Nat \ {0} /\ MaxTasks \in Nat
ASSUME NoKeyIsNone == NoKey \notin Key

VARIABLES
    nextTaskId,   \* next_task_id_
    tasks,        \* tasks_: never erased
    nextStamp,    \* the moment (created_at) of the next audio
    cache,        \* audio_cache_
    index,        \* audio_id_to_cache_key_
    ticker        \* where each thread is in tick()

vars == <<nextTaskId, tasks, nextStamp, cache, index, ticker>>

Status == {"absent", "queued", "running", "succeeded", "failed", "timed_out", "canceled"}

Task == [status: Status, key: Key \cup {NoKey}, cacheable: BOOLEAN,
         attempts: 0..(MaxRetries + 1), due: BOOLEAN, audio: TaskId \cup {0}]

\* audio = 0: the key has no entry.
Entry == [audio: TaskId \cup {0}, stamp: 0..MaxTasks, expired: BOOLEAN]

Thread == [pc: {"idle", "taking", "calling"}, left: 0..MaxBatch, job: TaskId \cup {0}]

NoTask  == [status |-> "absent", key |-> NoKey, cacheable |-> FALSE,
            attempts |-> 0, due |-> FALSE, audio |-> 0]
NoEntry == [audio |-> 0, stamp |-> 0, expired |-> FALSE]
Idle    == [pc |-> "idle", left |-> 0, job |-> 0]

Active    == {t \in TaskId : tasks[t].status \in {"queued", "running"}}
QueueFull == Cardinality(Active) >= MaxQueued
Cached    == {k \in Key : cache[k].audio # 0}

Takeable  == {t \in TaskId : tasks[t].status = "queued" /\ tasks[t].due}

\* Mutant: the cache key leaves the text out, so any fresh entry answers.
FindCachedAny(k) ==
    LET fresh == {j \in Key : cache[j].audio # 0 /\ ~cache[j].expired} IN
    IF fresh = {} THEN 0 ELSE cache[CHOOSE j \in fresh : TRUE].audio

\* findCachedAudioLocked: the audio of a key, 0 when there is none that is fresh.
FindCached(k) == IF cache[k].expired THEN 0 ELSE cache[k].audio

\* findAudio: the audio the service hands out for an id.
FindAudio(id) == IF index[id] = NoKey THEN 0 ELSE FindCached(index[id])

------------------------------------------------------------------------------
Init ==
    /\ nextTaskId = 1
    /\ tasks = [t \in TaskId |-> NoTask]
    /\ nextStamp = 1
    /\ cache = [k \in Key |-> NoEntry]
    /\ index = [id \in TaskId |-> NoKey]
    /\ ticker = [th \in Ticker |-> Idle]

\* The limit is tested first: a full queue refuses even what the cache could answer.
Submit(key, cacheable, task) ==
    /\ nextTaskId <= MaxTasks
    /\ ~QueueFull
    /\ tasks' = [tasks EXCEPT ![nextTaskId] =
                    [task EXCEPT !.key = key, !.cacheable = cacheable]]
    /\ nextTaskId' = nextTaskId + 1
    /\ UNCHANGED <<nextStamp, cache, index, ticker>>

SubmitHit(key) ==
    /\ FindCached(key) # 0
    /\ Submit(key, TRUE, [NoTask EXCEPT !.status = "succeeded", !.due = TRUE,
                                        !.audio = FindCached(key)])

SubmitMiss(key, cacheable) ==
    /\ cacheable => FindCached(key) = 0
    /\ Submit(key, cacheable, [NoTask EXCEPT !.status = "queued", !.due = TRUE])

\* Mutant: cancelTask without isFinished.
CancelTaskAny(t) ==
    /\ tasks[t].status # "absent"
    /\ tasks' = [tasks EXCEPT ![t].status = "canceled"]
    /\ UNCHANGED <<nextTaskId, nextStamp, cache, index, ticker>>

CancelTask(t) ==
    /\ tasks[t].status \in {"queued", "running"}
    /\ tasks' = [tasks EXCEPT ![t].status = "canceled"]
    /\ UNCHANGED <<nextTaskId, nextStamp, cache, index, ticker>>

------------------------------------------------------------------------------
(* The audio cache *)

\* Time passes: the entry outlives its ttl but stays in the map.
AudioExpires(k) ==
    /\ cache[k].audio # 0 /\ ~cache[k].expired
    /\ \A j \in Cached : cache[j].stamp < cache[k].stamp => cache[j].expired
    /\ cache' = [cache EXCEPT ![k].expired = TRUE]
    /\ UNCHANGED <<nextTaskId, tasks, nextStamp, index, ticker>>

ClearExpiredCache ==
    LET gone == {k \in Cached : cache[k].expired} IN
    /\ cache' = [k \in Key |-> IF k \in gone THEN NoEntry ELSE cache[k]]
    /\ index' = [id \in TaskId |->
                    IF \E k \in gone : cache[k].audio = id THEN NoKey ELSE index[id]]
    /\ UNCHANGED <<nextTaskId, tasks, nextStamp, ticker>>

\* enforceCacheLimitLocked: an entry goes when max_cache_items others are newer.
IsEvicted(j, stored, keys) ==
    Cardinality({i \in keys : stored[i].stamp > stored[j].stamp}) >= MaxCache

\* storeCacheLocked with enforceCacheLimitLocked: the entry replaces whatever the key held, and
\* the oldest entries go until the limit holds.  The replaced audio keeps its index entry.
StoreCache(k, audio) ==
    LET stored   == [cache EXCEPT ![k] = [audio |-> audio, stamp |-> nextStamp, expired |-> FALSE]]
        indexed  == [index EXCEPT ![audio] = k]
        keys     == Cached \cup {k}
        gone     == {j \in keys : IsEvicted(j, stored, keys)}
    IN
    /\ cache' = [j \in Key |-> IF j \in gone THEN NoEntry ELSE stored[j]]
    /\ index' = [id \in TaskId |->
                    IF \E j \in gone : stored[j].audio = id THEN NoKey ELSE indexed[id]]

------------------------------------------------------------------------------
(* tick() *)

TickStart(th, maxTasks) ==
    /\ ticker[th].pc = "idle"
    /\ ticker' = [ticker EXCEPT ![th] = [pc |-> "taking", left |-> maxTasks, job |-> 0]]
    /\ UNCHANGED <<nextTaskId, tasks, nextStamp, cache, index>>

TakeTask(th, t) ==
    /\ ticker[th].pc = "taking"
    /\ t \in Takeable
    /\ \A u \in Takeable : t <= u
    /\ tasks' = [tasks EXCEPT ![t].status = "running", ![t].attempts = @ + 1]
    /\ ticker' = [ticker EXCEPT ![th].pc = "calling", ![th].job = t]
    /\ UNCHANGED <<nextTaskId, nextStamp, cache, index>>

TakeNothing(th) ==
    /\ ticker[th].pc = "taking"
    /\ Takeable = {}
    /\ ticker' = [ticker EXCEPT ![th] = Idle]
    /\ UNCHANGED <<nextTaskId, tasks, nextStamp, cache, index>>

NextTurn(th) ==
    ticker' = [ticker EXCEPT ![th] =
        IF @.left = 1 THEN Idle ELSE [pc |-> "taking", left |-> @.left - 1, job |-> 0]]

\* finishTaskLocked with audio bytes in time; it never looks at the status the task has by now.
FinishSucceeded(th) ==
    LET t == ticker[th].job IN
    /\ ticker[th].pc = "calling"
    /\ tasks' = [tasks EXCEPT ![t].status = "succeeded", ![t].audio = t]
    /\ IF tasks[t].cacheable
       THEN StoreCache(tasks[t].key, t) /\ nextStamp' = nextStamp + 1
       ELSE UNCHANGED <<cache, index, nextStamp>>
    /\ NextTurn(th)
    /\ UNCHANGED nextTaskId

\* Mutant: one retry too many.
FinishRetryOnceMore(th) ==
    LET t == ticker[th].job IN
    /\ ticker[th].pc = "calling"
    /\ tasks[t].attempts <= MaxRetries + 1
    /\ tasks' = [tasks EXCEPT ![t].status = "queued", ![t].due = FALSE]
    /\ NextTurn(th)
    /\ UNCHANGED <<nextTaskId, nextStamp, cache, index>>

FinishRetry(th) ==
    LET t == ticker[th].job IN
    /\ ticker[th].pc = "calling"
    /\ tasks[t].attempts < MaxRetries + 1
    /\ tasks' = [tasks EXCEPT ![t].status = "queued", ![t].due = FALSE]
    /\ NextTurn(th)
    /\ UNCHANGED <<nextTaskId, nextStamp, cache, index>>

FinishFailed(th, outcome) ==
    LET t == ticker[th].job IN
    /\ ticker[th].pc = "calling"
    /\ tasks[t].attempts >= MaxRetries + 1
    /\ tasks' = [tasks EXCEPT ![t].status = outcome]
    /\ NextTurn(th)
    /\ UNCHANGED <<nextTaskId, nextStamp, cache, index>>

\* An exception of the client leaves tick() without finishTaskLocked: the task stays running.
SynthesizeThrows(th) ==
    /\ ticker[th].pc = "calling"
    /\ ticker' = [ticker EXCEPT ![th] = Idle]
    /\ UNCHANGED <<nextTaskId, tasks, nextStamp, cache, index>>

BackoffElapses(t) ==
    /\ tasks[t].status = "queued"
    /\ ~tasks[t].due
    /\ tasks' = [tasks EXCEPT ![t].due = TRUE]
    /\ UNCHANGED <<nextTaskId, nextStamp, cache, index, ticker>>

Next ==
    \/ \E k \in Key : SubmitHit(k)
    \/ \E k \in Key, c \in BOOLEAN : SubmitMiss(k, c)
    \/ \E t \in TaskId : CancelTask(t)
    \/ \E k \in Key : AudioExpires(k)
    \/ ClearExpiredCache
    \/ \E th \in Ticker, n \in 1..MaxBatch : TickStart(th, n)
    \/ \E th \in Ticker, t \in TaskId : TakeTask(th, t)
    \/ \E th \in Ticker : TakeNothing(th)
    \/ \E th \in Ticker : FinishSucceeded(th)
    \/ \E th \in Ticker : FinishRetry(th)
    \/ \E th \in Ticker, outcome \in {"failed", "timed_out"} : FinishFailed(th, outcome)
    \/ \E th \in Ticker : SynthesizeThrows(th)
    \/ \E t \in TaskId : BackoffElapses(t)

Spec == Init /\ [][Next]_vars

------------------------------------------------------------------------------
(* Properties *)

\* The shape of the state; attempts never exceed the retries the configuration allows, and
\* the cache never holds more than max_cache_items.
TypeOK ==
    /\ nextTaskId \in 1..(MaxTasks + 1)
    /\ tasks \in [TaskId -> Task]
    /\ nextStamp \in 1..(MaxTasks + 1)
    /\ cache \in [Key -> Entry]
    /\ Cardinality(Cached) <= MaxCache
    /\ index \in [TaskId -> Key \cup {NoKey}]
    /\ ticker \in [Ticker -> Thread]

Calling(th) == ticker[th].pc = "calling"

\* A task has audio exactly when it succeeded, also when it was canceled while the client
\* worked on it; and the audio, whether from the client or from the cache, was synthesized
\* for the same text, voice and format.  Two threads never synthesize the same task.
TasksGetTheirAudio ==
    /\ \A t \in TaskId :
        LET source == tasks[t].audio IN
        /\ tasks[t].status = "succeeded" <=> source # 0
        /\ source # 0 => tasks[source].key = tasks[t].key /\ tasks[source].audio = source
    /\ \A th, other \in Ticker :
        Calling(th) /\ Calling(other) /\ ticker[th].job = ticker[other].job => th = other

\* The audio a live id resolves to says what the id's own task said, although the entry may
\* have been replaced, expired, evicted and stored again since the id was handed out; and
\* every audio in the cache is found by its id.
IdsResolveToTheirText ==
    /\ \A id \in TaskId : FindAudio(id) # 0 => tasks[FindAudio(id)].key = tasks[id].key
    /\ \A k \in Cached : index[cache[k].audio] = k

==============================================================================
