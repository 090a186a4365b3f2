---------------------------- MODULE VoiceTts_proofs ----------------------------
(***************************************************************************)
(* Theorems about VoiceTts for every set of threads and cache keys and     *)
(* every value of the limits.                                              *)
(***************************************************************************)
EXTENDS VoiceTts, FiniteSetTheorems, TLAPS

------------------------------------------------------------------------------
(* The invariant *)

TaskShape ==
    /\ nextTaskId \in 1..(MaxTasks + 1)
    /\ tasks \in [TaskId -> Task]
    /\ ticker \in [Ticker -> Thread]

\* Ids that were not drawn are unused, and every task that was made has a key.
TasksAreFresh == \A t \in TaskId : t >= nextTaskId => tasks[t] = NoTask
TasksHaveKeys == \A t \in TaskId : tasks[t].status # "absent" => tasks[t].key \in Key

\* A thread in its loop has a turn left; one that calls works on a task that runs or was canceled.
ThreadsAreInTheirLoop ==
    \A th \in Ticker :
        /\ ticker[th].pc # "idle" => ticker[th].left # 0
        /\ Calling(th) => ticker[th].job # 0 /\ tasks[ticker[th].job].status \in {"running", "canceled"}

\* A task that waits has an attempt left.
QueuedMayRun == \A t \in TaskId : tasks[t].status = "queued" => tasks[t].attempts <= MaxRetries

TaskInv ==
    /\ TaskShape /\ TasksAreFresh /\ TasksHaveKeys /\ ThreadsAreInTheirLoop /\ QueuedMayRun
    /\ TasksGetTheirAudio

CacheShape ==
    /\ nextStamp \in Nat \ {0}
    /\ cache \in [Key -> Entry]
    /\ index \in [TaskId -> Key \cup {NoKey}]

\* The cache keeps its limit, and no two of its entries are equally old.
CacheIsBounded == IsFiniteSet(Cached) /\ Cardinality(Cached) <= MaxCache
StampsDiffer ==
    /\ \A k \in Cached : cache[k].stamp < nextStamp
    /\ \A j, k \in Cached : cache[j].stamp = cache[k].stamp => j = k

\* A stamp is drawn when a task gets audio of its own, which happens to it once.
Synthesized       == {t \in TaskId : tasks[t].audio = t}
StampsAreCounted  == nextStamp <= Cardinality(Synthesized) + 1

\* The audio of an entry was made for its key and is indexed; an indexed audio was made for the key
\* the index names.
EntriesAreOfTheirKey ==
    \A k \in Cached :
        /\ tasks[cache[k].audio].key = k
        /\ tasks[cache[k].audio].audio = cache[k].audio
        /\ index[cache[k].audio] = k
IndexIsOfItsTask ==
    \A id \in TaskId : index[id] # NoKey => tasks[id].key = index[id] /\ tasks[id].audio = id

CacheInv ==
    /\ CacheShape /\ CacheIsBounded /\ StampsDiffer /\ StampsAreCounted
    /\ EntriesAreOfTheirKey /\ IndexIsOfItsTask

VoiceInv == TaskInv /\ CacheInv

------------------------------------------------------------------------------
(* Types, and tasks that change one at a time *)

LEMMA ConstantsTyped ==
    /\ MaxRetries \in Nat /\ MaxQueued \in Nat /\ MaxCache \in Nat
    /\ MaxBatch \in Nat /\ MaxBatch # 0 /\ MaxTasks \in Nat /\ NoKey \notin Key
BY LimitsNat, NoKeyIsNone

LEMMA BlankTyped ==
    /\ NoTask \in Task /\ NoTask.status = "absent" /\ NoTask.audio = 0 /\ NoTask.attempts = 0
    /\ NoEntry \in Entry /\ NoEntry.audio = 0
    /\ Idle \in Thread /\ Idle.pc = "idle"
BY ConstantsTyped DEF NoTask, NoEntry, Idle, Task, Entry, Thread, Status

\* The step only writes tasks and threads.
CacheKept == UNCHANGED <<nextStamp, cache, index>>

\* A task with audio is never written again.
AudioKept == \A t \in TaskId : tasks[t].audio # 0 => tasks'[t] = tasks[t]

\* The tasks that have audio of their own are finitely many.
LEMMA SynthesizedFinite ==
    /\ IsFiniteSet(Synthesized) /\ Cardinality(Synthesized) \in Nat
    /\ IsFiniteSet(TaskId) /\ Cardinality(TaskId) = MaxTasks
<1>1. IsFiniteSet(TaskId) /\ Cardinality(TaskId) = MaxTasks
  BY FS_Interval, ConstantsTyped DEF TaskId
<1>2. IsFiniteSet(Synthesized)
  BY <1>1, FS_Subset DEF Synthesized
<1> QED
  BY <1>1, <1>2, FS_CardinalityType

LEMMA CacheInvKept ==
    ASSUME TaskInv, TaskInv', CacheInv, CacheKept, AudioKept
    PROVE  CacheInv'
<1>1. \A k \in Cached : cache[k].audio \in TaskId
  BY DEF CacheInv, CacheShape, Entry, Cached
<1>2. Cached' = Cached
  BY DEF CacheKept, Cached
<1>3. CacheShape' /\ CacheIsBounded' /\ StampsDiffer'
  BY <1>2 DEF CacheInv, CacheShape, CacheIsBounded, StampsDiffer, CacheKept
<1>4. StampsAreCounted'
  <2>1. Synthesized \subseteq Synthesized'
    BY DEF Synthesized, AudioKept, TaskId
  <2>2. IsFiniteSet(Synthesized')
    BY SynthesizedFinite, FS_Subset DEF Synthesized
  <2>3. Cardinality(Synthesized) <= Cardinality(Synthesized') /\ Cardinality(Synthesized') \in Nat
    BY <2>1, <2>2, FS_Subset, FS_CardinalityType
  <2> QED
    BY <2>3, SynthesizedFinite DEF CacheInv, CacheShape, CacheKept, StampsAreCounted
<1>5. EntriesAreOfTheirKey'
  <2> SUFFICES ASSUME NEW k \in Cached
               PROVE  /\ tasks'[cache[k].audio].key = k
                      /\ tasks'[cache[k].audio].audio = cache[k].audio
                      /\ index[cache[k].audio] = k
    BY <1>2 DEF EntriesAreOfTheirKey, CacheKept
  <2>1. cache[k].audio \in TaskId /\ tasks[cache[k].audio].audio = cache[k].audio /\ cache[k].audio # 0
    BY <1>1 DEF CacheInv, EntriesAreOfTheirKey, TaskId
  <2>2. tasks'[cache[k].audio] = tasks[cache[k].audio]
    BY <2>1 DEF AudioKept
  <2> QED
    BY <2>2 DEF CacheInv, EntriesAreOfTheirKey
<1>6. IndexIsOfItsTask'
  BY DEF CacheInv, IndexIsOfItsTask, CacheKept, AudioKept, TaskId
<1> QED
  BY <1>3, <1>4, <1>5, <1>6 DEF CacheInv

\* The parts of TasksGetTheirAudio.
GetsItsAudio(t) ==
    /\ tasks[t].status = "succeeded" <=> tasks[t].audio # 0
    /\ tasks[t].audio # 0 =>
            /\ tasks[tasks[t].audio].key = tasks[t].key
            /\ tasks[tasks[t].audio].audio = tasks[t].audio

OneSynthesizer ==
    \A th, other \in Ticker :
        Calling(th) /\ Calling(other) /\ ticker[th].job = ticker[other].job => th = other

LEMMA AudioParts ==
    TasksGetTheirAudio <=> (\A t \in TaskId : GetsItsAudio(t)) /\ OneSynthesizer
BY DEF TasksGetTheirAudio, GetsItsAudio, OneSynthesizer

\* A task without audio is written, and has audio only if it has audio of its own or of a task
\* with the same key.
LEMMA TaskWritten ==
    ASSUME TaskInv, NEW t \in TaskId, NEW task \in Task,
           tasks[t].audio = 0,
           task.status # "absent", task.key \in Key,
           task.status = "queued" => task.attempts <= MaxRetries,
           tasks[t].status # "absent" => task.key = tasks[t].key,
           task.status = "succeeded" <=> task.audio # 0,
           task.audio \in {0, t} \/
                (tasks[task.audio].key = task.key /\ tasks[task.audio].audio = task.audio),
           tasks' = [tasks EXCEPT ![t] = task],
           nextTaskId' \in 1..(MaxTasks + 1), nextTaskId' >= nextTaskId, t < nextTaskId'
    PROVE  /\ tasks' \in [TaskId -> Task] /\ TasksAreFresh' /\ TasksHaveKeys' /\ QueuedMayRun'
           /\ \A u \in TaskId : GetsItsAudio(u)'
           /\ AudioKept
           /\ tasks'[t] = task /\ \A u \in TaskId \ {t} : tasks'[u] = tasks[u]
<1>0. tasks \in [TaskId -> Task] /\ nextTaskId \in Nat /\ nextTaskId' \in Nat /\ t \in Nat /\ t # 0
  BY DEF TaskInv, TaskShape, TaskId
<1>1. tasks' \in [TaskId -> Task] /\ tasks'[t] = task
      /\ \A u \in TaskId \ {t} : tasks'[u] = tasks[u]
  BY <1>0
<1>2. TasksAreFresh'
  BY <1>0, <1>1 DEF TaskInv, TasksAreFresh, TaskId
<1>3. TasksHaveKeys' /\ QueuedMayRun'
  BY <1>1 DEF TaskInv, TasksHaveKeys, QueuedMayRun
<1>4. AudioKept
  BY <1>1 DEF AudioKept
<1>5. ASSUME NEW u \in TaskId PROVE GetsItsAudio(u)'
  <2>1. CASE u = t
    <3>1. CASE task.audio \in {0, t}
      BY <1>0, <1>1, <2>1, <3>1 DEF GetsItsAudio
    <3>2. CASE task.audio \notin {0, t}
      <4>1. task.audio \in TaskId
        BY <3>2 DEF Task
      <4>2. tasks'[task.audio] = tasks[task.audio]
        BY <1>1, <3>2, <4>1
      <4> QED
        BY <1>0, <1>1, <2>1, <3>2, <4>2 DEF GetsItsAudio
    <3> QED
      BY <3>1, <3>2
  <2>2. CASE u # t
    <3>1. GetsItsAudio(u) /\ tasks'[u] = tasks[u]
      BY <1>1, <2>2, AudioParts DEF TaskInv
    <3>2. CASE tasks[u].audio = 0
      BY <3>1, <3>2 DEF GetsItsAudio
    <3>3. CASE tasks[u].audio # 0
      <4>1. tasks[u].audio \in TaskId \ {t}
        BY <1>0, <3>1, <3>3 DEF GetsItsAudio, Task
      <4> QED
        BY <1>1, <3>1, <4>1 DEF GetsItsAudio
    <3> QED
      BY <3>2, <3>3
  <2> QED
    BY <2>1, <2>2
<1> QED
  BY <1>1, <1>2, <1>3, <1>4, <1>5

------------------------------------------------------------------------------
(* The limit of the cache *)

LEMMA LeastNatural ==
    ASSUME NEW T \in SUBSET Nat, T # {}
    PROVE  \E x \in T : \A y \in T : x <= y
<1> DEFINE R == {ss \in Nat \X Nat : ss[1] < ss[2]}
<1>1. IsWellFoundedOn(R, Nat)
  BY NatLessThanWellFounded DEF OpToRel
<1>2. PICK x \in T : \A y \in T : ~(<<y, x>> \in R)
  <2> HIDE DEF R
  <2> QED
    BY <1>1, WFMin
<1>3. ASSUME NEW y \in T PROVE x <= y
  <2>1. x \in Nat /\ y \in Nat
    OBVIOUS
  <2>2. <<y, x>> \in R <=> y < x
    BY <2>1
  <2> QED
    BY <1>2, <2>1, <2>2
<1> QED
  BY <1>3

\* enforceCacheLimitLocked, on entries that are one too many at most: the oldest goes.
LEMMA EvictionKeepsLimit ==
    ASSUME NEW keys, IsFiniteSet(keys), Cardinality(keys) <= MaxCache + 1, NEW stored,
           \A j \in keys : stored[j].stamp \in Nat,
           \A i, j \in keys : stored[i].stamp = stored[j].stamp => i = j
    PROVE  LET kept == {j \in keys : ~IsEvicted(j, stored, keys)} IN
           IsFiniteSet(kept) /\ Cardinality(kept) <= MaxCache
<1> DEFINE kept == {j \in keys : ~IsEvicted(j, stored, keys)}
<1>1. Cardinality(keys) \in Nat /\ MaxCache \in Nat
  BY FS_CardinalityType, ConstantsTyped
<1>2. CASE Cardinality(keys) <= MaxCache
  <2>1. IsFiniteSet(kept) /\ Cardinality(kept) <= Cardinality(keys)
    BY FS_Subset
  <2>2. Cardinality(kept) \in Nat
    BY <2>1, FS_CardinalityType
  <2> QED
    BY <1>1, <1>2, <2>1, <2>2
<1>3. CASE Cardinality(keys) = MaxCache + 1
  <2>1. keys # {}
    BY <1>1, <1>3, FS_EmptySet
  <2>2. PICK oldest \in keys : \A i \in keys : stored[oldest].stamp <= stored[i].stamp
    <3> DEFINE stamps == {stored[i].stamp : i \in keys}
    <3>1. stamps \in SUBSET Nat /\ stamps # {}
      BY <2>1
    <3>2. PICK s \in stamps : \A r \in stamps : s <= r
      BY <3>1, LeastNatural
    <3> QED
      BY <3>2
  <2>3. {i \in keys : stored[i].stamp > stored[oldest].stamp} = keys \ {oldest}
    <3>1. \A i \in keys \ {oldest} : stored[i].stamp > stored[oldest].stamp
      BY <2>2
    <3>2. ~(stored[oldest].stamp > stored[oldest].stamp)
      BY <2>2
    <3> QED
      BY <3>1, <3>2
  <2>4. IsFiniteSet(keys \ {oldest}) /\ Cardinality(keys \ {oldest}) = MaxCache
    <3>1. /\ IsFiniteSet(keys \ {oldest})
          /\ Cardinality(keys \ {oldest}) = Cardinality(keys) - 1
      BY FS_RemoveElement
    <3> QED
      BY <1>1, <1>3, <3>1
  <2>5. IsEvicted(oldest, stored, keys)
    <3> DEFINE newer == {i \in keys : stored[i].stamp > stored[oldest].stamp}
    <3>1. IsEvicted(oldest, stored, keys) <=> Cardinality(newer) >= MaxCache
      BY DEF IsEvicted
    <3>2. Cardinality(newer) = MaxCache
      BY <2>3, <2>4
    <3> HIDE DEF newer
    <3> QED
      BY <1>1, <3>1, <3>2
  <2>6. kept \subseteq keys \ {oldest}
    BY <2>5
  <2>7. IsFiniteSet(kept) /\ Cardinality(kept) <= Cardinality(keys \ {oldest})
    BY <2>4, <2>6, FS_Subset
  <2> QED
    BY <2>4, <2>7
<1> QED
  BY <1>1, <1>2, <1>3

\* What storeCacheLocked leaves behind: the cache in its limit, each entry still found by its id.
LEMMA StoreEffect ==
    ASSUME TaskInv, CacheInv, NEW k \in Key, NEW t \in TaskId, tasks[t].audio = 0,
           nextStamp <= MaxTasks, StoreCache(k, t), nextStamp' = nextStamp + 1,
           tasks'[t].audio = t, tasks'[t].key = k, AudioKept
    PROVE  /\ CacheShape' /\ CacheIsBounded' /\ StampsDiffer'
           /\ EntriesAreOfTheirKey' /\ IndexIsOfItsTask'
<1> DEFINE entry   == [audio |-> t, stamp |-> nextStamp, expired |-> FALSE]
           stored  == [cache EXCEPT ![k] = entry]
           indexed == [index EXCEPT ![t] = k]
           keys    == Cached \cup {k}
           gone    == {j \in keys : IsEvicted(j, stored, keys)}
<1>1. /\ nextStamp \in Nat /\ nextStamp # 0 /\ cache \in [Key -> Entry]
      /\ index \in [TaskId -> Key \cup {NoKey}] /\ t \in Nat /\ t # 0
  BY DEF CacheInv, CacheShape, TaskId
<1>2. entry \in Entry /\ entry.audio = t /\ entry.stamp = nextStamp
  BY <1>1, ConstantsTyped DEF Entry
<1>3. /\ cache' = [j \in Key |-> IF j \in gone THEN NoEntry ELSE stored[j]]
      /\ index' = [id \in TaskId |->
                    IF \E j \in gone : stored[j].audio = id THEN NoKey ELSE indexed[id]]
  BY DEF StoreCache
<1> HIDE DEF entry
<1>4. stored \in [Key -> Entry] /\ stored[k] = entry /\ \A j \in Key \ {k} : stored[j] = cache[j]
  BY <1>1, <1>2
<1>5. indexed \in [TaskId -> Key \cup {NoKey}] /\ indexed[t] = k
      /\ \A id \in TaskId \ {t} : indexed[id] = index[id]
  BY <1>1
<1>6. keys \subseteq Key /\ k \in keys /\ \A j \in Key : j \in keys <=> stored[j].audio # 0
  BY <1>1, <1>2, <1>4 DEF Cached
<1>7. \A j \in Cached : /\ cache[j].stamp \in Nat /\ cache[j].stamp < nextStamp
                        /\ cache[j].audio \in TaskId /\ cache[j].audio # 0
                        /\ index[cache[j].audio] = j /\ tasks[cache[j].audio].key = j
                        /\ tasks[cache[j].audio].audio = cache[j].audio
  BY <1>1 DEF CacheInv, StampsDiffer, EntriesAreOfTheirKey, Cached, Entry, TaskId
<1>8. /\ \A j \in keys : stored[j].stamp \in Nat /\ stored[j].stamp < nextStamp + 1
      /\ \A i, j \in keys : stored[i].stamp = stored[j].stamp => i = j
  <2>1. \A j \in keys : j = k \/ (j \in Cached /\ j # k /\ stored[j] = cache[j])
    BY <1>4, <1>6
  <2>2. \A j \in keys : stored[j].stamp \in Nat /\ stored[j].stamp < nextStamp + 1
    BY <1>1, <1>2, <1>4, <1>7, <2>1
  <2>3. ASSUME NEW i \in keys, NEW j \in keys, stored[i].stamp = stored[j].stamp
        PROVE  i = j
    BY <1>1, <1>2, <1>4, <1>7, <2>1, <2>3 DEF CacheInv, StampsDiffer
  <2> QED
    BY <2>2, <2>3
<1>9. IsFiniteSet(keys) /\ Cardinality(keys) <= MaxCache + 1
  <2>1. /\ IsFiniteSet(Cached) /\ Cardinality(Cached) <= MaxCache /\ Cardinality(Cached) \in Nat
    BY FS_CardinalityType DEF CacheInv, CacheIsBounded
  <2>2. IsFiniteSet(keys) /\ Cardinality(keys) \in {Cardinality(Cached), Cardinality(Cached) + 1}
    BY <2>1, FS_AddElement
  <2> QED
    BY <2>1, <2>2, ConstantsTyped
<1>10. Cached' = keys \ gone
  <2>1. ASSUME NEW j \in Key PROVE cache'[j].audio # 0 <=> j \in keys \ gone
    BY <1>3, <1>6, BlankTyped
  <2> QED
    BY <1>6, <2>1 DEF Cached
<1> HIDE DEF stored, indexed, keys
<1>11. CacheIsBounded'
  <2>1. keys \ gone = {j \in keys : ~IsEvicted(j, stored, keys)}
    OBVIOUS
  <2>2. IsFiniteSet(keys \ gone) /\ Cardinality(keys \ gone) <= MaxCache
    BY <1>8, <1>9, <2>1, EvictionKeepsLimit
  <2> QED
    BY <1>10, <2>2 DEF CacheIsBounded
<1> HIDE DEF gone
<1>a. gone \subseteq keys
  BY DEF gone
<1>12. CacheShape'
  BY <1>1, <1>3, <1>4, <1>5, BlankTyped DEF CacheShape
<1>13. \A j \in Cached' : j \in keys /\ j \in Key /\ j \notin gone /\ cache'[j] = stored[j]
  BY <1>3, <1>6, <1>10
<1>14. StampsDiffer'
  BY <1>8, <1>13 DEF StampsDiffer
<1>15. \A j \in keys \ {k} : j \in Cached /\ stored[j] = cache[j] /\ cache[j].audio # t
  BY <1>1, <1>4, <1>6, <1>7 DEF keys
<1>16. ASSUME NEW j \in Cached'
       PROVE  /\ tasks'[cache'[j].audio].key = j
              /\ tasks'[cache'[j].audio].audio = cache'[j].audio
              /\ index'[cache'[j].audio] = j
  <2>1. CASE j = k
    <3>1. cache'[j].audio = t
      BY <1>2, <1>4, <1>13, <2>1
    <3>2. ~\E i \in gone : stored[i].audio = t
      <4>1. \A i \in gone : i \in keys \ {k}
        BY <1>a, <1>13, <2>1
      <4> QED
        BY <1>15, <4>1
    <3> QED
      BY <1>3, <1>5, <2>1, <3>1, <3>2
  <2>2. CASE j # k
    <3>1. PICK a : a = cache[j].audio
      OBVIOUS
    <3>2. j \in Cached /\ cache'[j].audio = a /\ a # t /\ a \in TaskId /\ index[a] = j
      BY <1>7, <1>13, <1>15, <2>2, <3>1
    <3>3. tasks'[a] = tasks[a] /\ tasks[a].key = j /\ tasks[a].audio = a
      BY <1>7, <3>1, <3>2 DEF AudioKept
    <3>4. ~\E i \in gone : stored[i].audio = a
      <4> SUFFICES ASSUME NEW i \in gone, stored[i].audio = a PROVE FALSE
        OBVIOUS
      <4>1. i \in keys \ {k}
        BY <1>2, <1>4, <1>a, <3>2
      <4>2. index[a] = i
        BY <1>7, <1>15, <4>1
      <4> QED
        BY <1>13, <3>2, <4>2
    <3> QED
      BY <1>3, <1>5, <3>2, <3>3, <3>4
  <2> QED
    BY <2>1, <2>2
<1>17. EntriesAreOfTheirKey'
  BY <1>16 DEF EntriesAreOfTheirKey
<1>18. IndexIsOfItsTask'
  <2> SUFFICES ASSUME NEW id \in TaskId, index'[id] # NoKey
               PROVE  tasks'[id].key = index'[id] /\ tasks'[id].audio = id
    BY DEF IndexIsOfItsTask
  <2>1. index'[id] = indexed[id]
    BY <1>3
  <2>2. CASE id = t
    BY <1>5, <2>1, <2>2
  <2>3. CASE id # t
    <3>1. index[id] = index'[id] /\ tasks[id].key = index[id] /\ tasks[id].audio = id
      BY <1>5, <2>1, <2>3 DEF CacheInv, IndexIsOfItsTask
    <3>2. tasks'[id] = tasks[id]
      BY <3>1 DEF AudioKept, TaskId
    <3> QED
      BY <3>1, <3>2
  <2> QED
    BY <2>2, <2>3
<1> QED
  BY <1>11, <1>12, <1>14, <1>17, <1>18

------------------------------------------------------------------------------
(* Each operation keeps the invariant *)

\* A step of no thread that writes one task without audio.
LEMMA VoiceInvTask ==
    ASSUME VoiceInv, CacheKept, ticker' = ticker, NEW t \in TaskId,
           tasks' \in [TaskId -> Task], nextTaskId' \in 1..(MaxTasks + 1),
           TasksAreFresh', TasksHaveKeys', QueuedMayRun', \A u \in TaskId : GetsItsAudio(u)',
           AudioKept, \A u \in TaskId \ {t} : tasks'[u] = tasks[u],
           tasks[t].status \in {"running", "canceled"} =>
                tasks'[t].status \in {"running", "canceled"}
    PROVE  VoiceInv'
<1>1. TaskShape'
  BY DEF VoiceInv, TaskInv, TaskShape
<1>2. ThreadsAreInTheirLoop'
  <2>1. \A th \in Ticker : Calling(th) => ticker[th].job \in TaskId
    BY DEF VoiceInv, TaskInv, TaskShape, ThreadsAreInTheirLoop, Thread
  <2> QED
    BY <2>1 DEF VoiceInv, TaskInv, ThreadsAreInTheirLoop, Calling
<1>3. OneSynthesizer'
  BY AudioParts DEF VoiceInv, TaskInv, OneSynthesizer, Calling
<1>4. TasksGetTheirAudio'
  BY <1>3 DEF TasksGetTheirAudio, GetsItsAudio, OneSynthesizer
<1>5. TaskInv'
  BY <1>1, <1>2, <1>4 DEF TaskInv
<1>6. CacheInv'
  BY <1>5, CacheInvKept DEF VoiceInv
<1> QED
  BY <1>5, <1>6 DEF VoiceInv

LEMMA VoiceInvSubmit ==
    ASSUME VoiceInv, NEW key \in Key, NEW cacheable \in BOOLEAN, NEW task \in Task,
           task.status \in {"queued", "succeeded"}, task.attempts = 0,
           task.status = "succeeded" <=> task.audio # 0,
           task.audio # 0 => tasks[task.audio].key = key /\ tasks[task.audio].audio = task.audio,
           Submit(key, cacheable, task)
    PROVE  VoiceInv'
<1> DEFINE new == [task EXCEPT !.key = key, !.cacheable = cacheable]
<1>1. new \in Task /\ new.status = task.status /\ new.key = key /\ new.attempts = 0
      /\ new.audio = task.audio
  BY DEF Task
<1>2. nextTaskId \in TaskId /\ nextTaskId' \in 1..(MaxTasks + 1) /\ nextTaskId < nextTaskId'
      /\ nextTaskId' >= nextTaskId
  BY ConstantsTyped DEF Submit, VoiceInv, TaskInv, TaskShape, TaskId
<1>3. tasks[nextTaskId] = NoTask
  BY <1>2 DEF VoiceInv, TaskInv, TasksAreFresh, TaskId
<1>4. tasks' = [tasks EXCEPT ![nextTaskId] = new] /\ CacheKept /\ ticker' = ticker
  BY DEF Submit, CacheKept
<1> HIDE DEF new
<1>5. /\ tasks' \in [TaskId -> Task] /\ TasksAreFresh' /\ TasksHaveKeys' /\ QueuedMayRun'
      /\ \A u \in TaskId : GetsItsAudio(u)'
      /\ AudioKept
      /\ \A u \in TaskId \ {nextTaskId} : tasks'[u] = tasks[u]
  <2>1. new.status # "absent" /\ new.attempts <= MaxRetries /\ (new.status = "succeeded" <=> new.audio # 0)
    BY <1>1, ConstantsTyped
  <2>2. new.audio \in {0, nextTaskId} \/
            (tasks[new.audio].key = new.key /\ tasks[new.audio].audio = new.audio)
    BY <1>1
  <2>3. tasks[nextTaskId].audio = 0 /\ tasks[nextTaskId].status = "absent"
    BY <1>3, BlankTyped
  <2> QED
    BY <1>1, <1>2, <1>4, <2>1, <2>2, <2>3, TaskWritten DEF VoiceInv
<1> QED
  BY <1>2, <1>3, <1>4, <1>5, VoiceInvTask, BlankTyped

\* submit, answered from the cache: the entry was made for the key that is asked for.
LEMMA VoiceInvSubmitHit ==
    ASSUME VoiceInv, NEW key \in Key, SubmitHit(key)
    PROVE  VoiceInv'
<1> DEFINE task == [NoTask EXCEPT !.status = "succeeded", !.due = TRUE, !.audio = FindCached(key)]
<1>1. FindCached(key) = cache[key].audio /\ key \in Cached /\ FindCached(key) # 0
  BY DEF SubmitHit, FindCached, Cached
<1>2. FindCached(key) \in TaskId
  BY <1>1 DEF VoiceInv, CacheInv, CacheShape, Entry
<1>3. task \in Task /\ task.status = "succeeded" /\ task.attempts = 0
      /\ task.audio = FindCached(key)
  BY <1>2, BlankTyped DEF Task, Status
<1>4. /\ tasks[FindCached(key)].key = key
      /\ tasks[FindCached(key)].audio = FindCached(key)
  BY <1>1 DEF VoiceInv, CacheInv, EntriesAreOfTheirKey
<1>5. Submit(key, TRUE, task)
  BY DEF SubmitHit
<1> HIDE DEF task
<1> QED
  BY <1>1, <1>3, <1>4, <1>5, VoiceInvSubmit

LEMMA VoiceInvSubmitMiss ==
    ASSUME VoiceInv, NEW key \in Key, NEW cacheable \in BOOLEAN, SubmitMiss(key, cacheable)
    PROVE  VoiceInv'
<1> DEFINE task == [NoTask EXCEPT !.status = "queued", !.due = TRUE]
<1>1. task \in Task /\ task.status = "queued" /\ task.attempts = 0 /\ task.audio = 0
  BY BlankTyped DEF Task, Status
<1>2. Submit(key, cacheable, task)
  BY DEF SubmitMiss
<1> HIDE DEF task
<1> QED
  BY <1>1, <1>2, VoiceInvSubmit

LEMMA VoiceInvCancel ==
    ASSUME VoiceInv, NEW t \in TaskId, CancelTask(t)
    PROVE  VoiceInv'
<1> DEFINE task == [tasks[t] EXCEPT !.status = "canceled"]
<1>1. tasks[t] \in Task /\ tasks[t].status \in {"queued", "running"}
      /\ nextTaskId \in 1..(MaxTasks + 1) /\ nextTaskId >= nextTaskId /\ t < nextTaskId
  BY ConstantsTyped, BlankTyped, SMTT(30) DEF CancelTask, VoiceInv, TaskInv, TaskShape, TasksAreFresh, TaskId
<1>2. tasks[t].audio = 0 /\ tasks[t].key \in Key
  BY <1>1, AudioParts DEF VoiceInv, TaskInv, GetsItsAudio, TasksHaveKeys
<1>3. task \in Task /\ task.status = "canceled" /\ task.key = tasks[t].key /\ task.audio = 0
  BY <1>1, <1>2 DEF Task, Status
<1>4. tasks' = [tasks EXCEPT ![t] = task] /\ nextTaskId' = nextTaskId
      /\ CacheKept /\ ticker' = ticker
  BY DEF CancelTask, CacheKept
<1> HIDE DEF task
<1>5. /\ tasks' \in [TaskId -> Task] /\ TasksAreFresh' /\ TasksHaveKeys' /\ QueuedMayRun'
      /\ \A u \in TaskId : GetsItsAudio(u)'
      /\ AudioKept /\ tasks'[t] = task
      /\ \A u \in TaskId \ {t} : tasks'[u] = tasks[u]
  BY <1>1, <1>2, <1>3, <1>4, TaskWritten DEF VoiceInv
<1> QED
  BY <1>1, <1>3, <1>4, <1>5, VoiceInvTask

LEMMA VoiceInvBackoff ==
    ASSUME VoiceInv, NEW t \in TaskId, BackoffElapses(t)
    PROVE  VoiceInv'
<1> DEFINE task == [tasks[t] EXCEPT !.due = TRUE]
<1>1. tasks[t] \in Task /\ tasks[t].status = "queued" /\ tasks[t].attempts <= MaxRetries
      /\ nextTaskId \in 1..(MaxTasks + 1) /\ nextTaskId >= nextTaskId /\ t < nextTaskId
  BY ConstantsTyped, BlankTyped
     DEF BackoffElapses, VoiceInv, TaskInv, TaskShape, TasksAreFresh, QueuedMayRun, TaskId
<1>2. tasks[t].audio = 0 /\ tasks[t].key \in Key
  BY <1>1, AudioParts DEF VoiceInv, TaskInv, GetsItsAudio, TasksHaveKeys
<1>3. task \in Task /\ task.status = "queued" /\ task.key = tasks[t].key /\ task.audio = 0
      /\ task.attempts <= MaxRetries
  BY <1>1, <1>2 DEF Task, Status
<1>4. tasks' = [tasks EXCEPT ![t] = task] /\ nextTaskId' = nextTaskId
      /\ CacheKept /\ ticker' = ticker
  BY DEF BackoffElapses, CacheKept
<1> HIDE DEF task
<1>5. /\ tasks' \in [TaskId -> Task] /\ TasksAreFresh' /\ TasksHaveKeys' /\ QueuedMayRun'
      /\ \A u \in TaskId : GetsItsAudio(u)'
      /\ AudioKept /\ tasks'[t] = task
      /\ \A u \in TaskId \ {t} : tasks'[u] = tasks[u]
  BY <1>1, <1>2, <1>3, <1>4, TaskWritten DEF VoiceInv
<1> QED
  BY <1>1, <1>3, <1>4, <1>5, VoiceInvTask

\* One thread moves on.
LEMMA ThreadMoved ==
    ASSUME TaskInv, NEW th \in Ticker, NEW thread \in Thread, ticker' = [ticker EXCEPT ![th] = thread]
    PROVE  /\ ticker' \in [Ticker -> Thread]
           /\ ticker'[th] = thread /\ \A u \in Ticker \ {th} : ticker'[u] = ticker[u]
BY DEF TaskInv, TaskShape

LEMMA VoiceInvThread ==
    ASSUME VoiceInv, CacheKept, UNCHANGED <<nextTaskId, tasks>>,
           NEW th \in Ticker, NEW thread \in Thread, thread.pc # "calling",
           thread.pc # "idle" => thread.left # 0, ticker' = [ticker EXCEPT ![th] = thread]
    PROVE  VoiceInv'
<1>1. /\ ticker' \in [Ticker -> Thread]
      /\ ticker'[th] = thread /\ \A u \in Ticker \ {th} : ticker'[u] = ticker[u]
  BY ThreadMoved DEF VoiceInv
<1>2. TaskShape' /\ TasksAreFresh' /\ TasksHaveKeys' /\ QueuedMayRun' /\ ThreadsAreInTheirLoop'
  BY <1>1 DEF VoiceInv, TaskInv, TaskShape, TasksAreFresh, TasksHaveKeys, QueuedMayRun,
              ThreadsAreInTheirLoop, Calling
<1>3. TasksGetTheirAudio'
  BY <1>1 DEF VoiceInv, TaskInv, TasksGetTheirAudio, Calling
<1>4. TaskInv' /\ AudioKept
  BY <1>2, <1>3 DEF TaskInv, AudioKept
<1> QED
  BY <1>4, CacheInvKept DEF VoiceInv

\* What takeNextTaskLocked does.  The task it takes is queued, so no thread works on it.
LEMMA VoiceInvTake ==
    ASSUME VoiceInv, NEW th \in Ticker, NEW t \in TaskId, TakeTask(th, t)
    PROVE  VoiceInv'
<1> DEFINE task == [tasks[t] EXCEPT !.status = "running", !.attempts = @ + 1]
           thread == [ticker[th] EXCEPT !.pc = "calling", !.job = t]
<1>1. tasks[t] \in Task /\ ticker[th] \in Thread /\ tasks[t].status = "queued"
      /\ tasks[t].attempts <= MaxRetries
      /\ ticker[th].pc = "taking" /\ ticker[th].left # 0 /\ t # 0
      /\ nextTaskId \in 1..(MaxTasks + 1) /\ nextTaskId >= nextTaskId /\ t < nextTaskId
  BY ConstantsTyped, BlankTyped, SMTT(30)
     DEF TakeTask, Takeable, VoiceInv, TaskInv, TaskShape, TasksAreFresh, QueuedMayRun,
         ThreadsAreInTheirLoop, TaskId
<1>2. tasks[t].audio = 0 /\ tasks[t].key \in Key
  BY <1>1, AudioParts DEF VoiceInv, TaskInv, GetsItsAudio, TasksHaveKeys
<1>3. task \in Task /\ task.status = "running" /\ task.key = tasks[t].key /\ task.audio = 0
  <2>1. tasks[t].attempts + 1 \in 0..(MaxRetries + 1)
    BY <1>1, ConstantsTyped DEF Task
  <2> QED
    BY <1>1, <1>2, <2>1 DEF Task, Status
<1>4. thread \in Thread /\ thread.pc = "calling" /\ thread.job = t /\ thread.left # 0
  BY <1>1 DEF Thread
<1>5. /\ tasks' = [tasks EXCEPT ![t] = task] /\ ticker' = [ticker EXCEPT ![th] = thread]
      /\ nextTaskId' = nextTaskId /\ CacheKept
  BY DEF TakeTask, CacheKept
<1> HIDE DEF task, thread
<1>6. /\ tasks' \in [TaskId -> Task] /\ TasksAreFresh' /\ TasksHaveKeys' /\ QueuedMayRun'
      /\ \A u \in TaskId : GetsItsAudio(u)'
      /\ AudioKept /\ tasks'[t] = task
      /\ \A u \in TaskId \ {t} : tasks'[u] = tasks[u]
  BY <1>1, <1>2, <1>3, <1>5, TaskWritten DEF VoiceInv
<1>7. /\ ticker' \in [Ticker -> Thread]
      /\ ticker'[th] = thread /\ \A u \in Ticker \ {th} : ticker'[u] = ticker[u]
  BY <1>4, <1>5, ThreadMoved DEF VoiceInv
<1>8. \A u \in Ticker : Calling(u) => ticker[u].job \in TaskId \ {t}
  BY <1>1 DEF VoiceInv, TaskInv, TaskShape, Thread, ThreadsAreInTheirLoop
<1>9. TaskShape' /\ ThreadsAreInTheirLoop'
  <2>1. TaskShape'
    BY <1>1, <1>5, <1>6, <1>7 DEF TaskShape
  <2>2. ThreadsAreInTheirLoop'
    BY <1>1, <1>3, <1>4, <1>6, <1>7, <1>8 DEF VoiceInv, TaskInv, ThreadsAreInTheirLoop, Calling
  <2> QED
    BY <2>1, <2>2
<1>10. OneSynthesizer'
  BY <1>4, <1>7, <1>8, AudioParts DEF VoiceInv, TaskInv, OneSynthesizer, Calling
<1>11. TasksGetTheirAudio'
  BY <1>6, <1>10 DEF TasksGetTheirAudio, GetsItsAudio, OneSynthesizer
<1>12. TaskInv'
  BY <1>6, <1>9, <1>11 DEF TaskInv
<1> QED
  BY <1>5, <1>6, <1>12, CacheInvKept DEF VoiceInv

\* What the end of a call means for the tasks and threads: the task of the thread is written, and
\* the thread calls no more.
LEMMA TaskInvFinish ==
    ASSUME VoiceInv, NEW th \in Ticker, Calling(th), NextTurn(th), nextTaskId' = nextTaskId,
           NEW t \in TaskId, t = ticker[th].job,
           NEW task \in Task, tasks' = [tasks EXCEPT ![t] = task],
           task.status # "absent", task.key = tasks[t].key,
           task.status = "queued" => task.attempts <= MaxRetries,
           task.status = "succeeded" <=> task.audio # 0, task.audio \in {0, t}
    PROVE  TaskInv' /\ AudioKept /\ tasks'[t] = task /\ tasks[t].audio = 0 /\ tasks[t].key \in Key
<1> DEFINE left == ticker[th].left
           thread == IF left = 1 THEN Idle ELSE [pc |-> "taking", left |-> left - 1, job |-> 0]
<1>1. /\ ticker \in [Ticker -> Thread] /\ left \in 0..MaxBatch /\ left # 0
      /\ tasks[t].status \in {"running", "canceled"}
      /\ nextTaskId \in 1..(MaxTasks + 1) /\ nextTaskId >= nextTaskId /\ t < nextTaskId
  BY ConstantsTyped, BlankTyped
     DEF VoiceInv, TaskInv, TaskShape, TasksAreFresh, Thread, ThreadsAreInTheirLoop, Calling, TaskId
<1>2. thread \in Thread /\ thread.pc # "calling" /\ (thread.pc # "idle" => thread.left # 0)
  BY <1>1, ConstantsTyped, BlankTyped DEF Thread
<1>3. ticker' = [ticker EXCEPT ![th] = thread]
  BY <1>1 DEF NextTurn
<1> HIDE DEF thread
<1>4. tasks[t].audio = 0 /\ tasks[t].key \in Key
  BY <1>1, AudioParts DEF VoiceInv, TaskInv, GetsItsAudio, TasksHaveKeys
<1>5. /\ tasks' \in [TaskId -> Task] /\ TasksAreFresh' /\ TasksHaveKeys' /\ QueuedMayRun'
      /\ \A u \in TaskId : GetsItsAudio(u)'
      /\ AudioKept /\ tasks'[t] = task
      /\ \A u \in TaskId \ {t} : tasks'[u] = tasks[u]
  BY <1>1, <1>4, TaskWritten DEF VoiceInv
<1>6. /\ ticker' \in [Ticker -> Thread]
      /\ ticker'[th] = thread /\ \A u \in Ticker \ {th} : ticker'[u] = ticker[u]
  BY <1>2, <1>3, ThreadMoved DEF VoiceInv
<1>7. OneSynthesizer
  BY AudioParts DEF VoiceInv, TaskInv
<1>8. \A u \in Ticker \ {th} : Calling(u) => ticker[u].job \in TaskId \ {t}
  BY <1>7 DEF OneSynthesizer, VoiceInv, TaskInv, TaskShape, Thread, ThreadsAreInTheirLoop
<1>9. TaskShape' /\ ThreadsAreInTheirLoop'
  <2>1. TaskShape'
    BY <1>1, <1>5, <1>6 DEF TaskShape
  <2>2. ThreadsAreInTheirLoop'
    BY <1>2, <1>5, <1>6, <1>8 DEF VoiceInv, TaskInv, ThreadsAreInTheirLoop, Calling
  <2> QED
    BY <2>1, <2>2
<1>10. OneSynthesizer'
  BY <1>2, <1>6, <1>7 DEF OneSynthesizer, Calling
<1>11. TasksGetTheirAudio'
  BY <1>5, <1>10 DEF TasksGetTheirAudio, GetsItsAudio, OneSynthesizer
<1> QED
  BY <1>4, <1>5, <1>9, <1>11 DEF TaskInv

\* finishTaskLocked without audio.
LEMMA VoiceInvFinish ==
    ASSUME VoiceInv, NEW th \in Ticker,
           FinishRetry(th) \/ \E outcome \in {"failed", "timed_out"} : FinishFailed(th, outcome)
    PROVE  VoiceInv'
<1>1. PICK t : t = ticker[th].job
  OBVIOUS
<1>2. Calling(th) /\ NextTurn(th) /\ nextTaskId' = nextTaskId /\ CacheKept
  BY DEF FinishRetry, FinishFailed, Calling, CacheKept
<1>3. t \in TaskId /\ tasks[t] \in Task
  BY <1>1, <1>2 DEF VoiceInv, TaskInv, TaskShape, Thread, ThreadsAreInTheirLoop
<1>4. tasks[t].audio = 0
  BY <1>1, <1>2, <1>3, AudioParts DEF VoiceInv, TaskInv, GetsItsAudio, ThreadsAreInTheirLoop
<1> DEFINE Written == \E task \in Task :
        /\ tasks' = [tasks EXCEPT ![t] = task] /\ task.status \notin {"absent", "succeeded"}
        /\ task.key = tasks[t].key /\ task.audio = 0
        /\ task.status = "queued" => task.attempts <= MaxRetries
<1>5. Written
  <2>1. ASSUME FinishRetry(th) PROVE Written
    <3> DEFINE task == [tasks[t] EXCEPT !.status = "queued", !.due = FALSE]
    <3>1. task \in Task /\ task.status = "queued" /\ task.key = tasks[t].key /\ task.audio = 0
          /\ task.attempts = tasks[t].attempts
      BY <1>3, <1>4 DEF Task, Status
    <3>2. tasks' = [tasks EXCEPT ![t] = task]
      BY <1>1, <2>1 DEF FinishRetry
    <3>3. tasks[t].attempts <= MaxRetries
      BY <1>1, <1>3, <2>1, ConstantsTyped DEF FinishRetry, Task
    <3> HIDE DEF task
    <3> QED
      BY <3>1, <3>2, <3>3
  <2>2. ASSUME NEW outcome \in {"failed", "timed_out"}, FinishFailed(th, outcome) PROVE Written
    <3> DEFINE task == [tasks[t] EXCEPT !.status = outcome]
    <3>1. task \in Task /\ task.status = outcome /\ task.key = tasks[t].key /\ task.audio = 0
      BY <1>3, <1>4 DEF Task, Status
    <3>2. tasks' = [tasks EXCEPT ![t] = task]
      BY <1>1, <2>2 DEF FinishFailed
    <3> HIDE DEF task
    <3> QED
      BY <3>1, <3>2
  <2> QED
    BY <2>1, <2>2
<1>6. TaskInv' /\ AudioKept
  BY <1>1, <1>2, <1>3, <1>5, TaskInvFinish
<1> QED
  BY <1>2, <1>6, CacheInvKept DEF VoiceInv

\* finishTaskLocked with audio: the task gets audio of its own, which is counted once.
LEMMA VoiceInvSucceeded ==
    ASSUME VoiceInv, NEW th \in Ticker, FinishSucceeded(th)
    PROVE  VoiceInv'
<1>1. PICK t : t = ticker[th].job
  OBVIOUS
<1>2. Calling(th) /\ NextTurn(th) /\ nextTaskId' = nextTaskId
  BY DEF FinishSucceeded, Calling
<1>3. t \in TaskId /\ tasks[t] \in Task
  BY <1>1, <1>2 DEF VoiceInv, TaskInv, TaskShape, Thread, ThreadsAreInTheirLoop
<1> DEFINE task == [tasks[t] EXCEPT !.status = "succeeded", !.audio = t]
<1>4. task \in Task /\ task.status = "succeeded" /\ task.key = tasks[t].key /\ task.audio = t
      /\ t # 0
  <2>1. t # 0
    BY <1>3 DEF TaskId
  <2>2. task \in Task /\ task.status = "succeeded" /\ task.key = tasks[t].key /\ task.audio = t
    BY <1>3 DEF Task, Status
  <2> QED
    BY <2>1, <2>2
<1>5. tasks' = [tasks EXCEPT ![t] = task]
  BY <1>1 DEF FinishSucceeded
<1> HIDE DEF task
<1>6. TaskInv' /\ AudioKept /\ tasks'[t] = task /\ tasks[t].audio = 0 /\ tasks[t].key \in Key
  BY <1>1, <1>2, <1>3, <1>4, <1>5, TaskInvFinish
<1>7. CASE ~tasks[t].cacheable
  <2>1. CacheKept
    BY <1>1, <1>7 DEF FinishSucceeded, CacheKept
  <2> QED
    BY <1>6, <2>1, CacheInvKept DEF VoiceInv
<1>8. CASE tasks[t].cacheable
  <2>1. StoreCache(tasks[t].key, t) /\ nextStamp' = nextStamp + 1
    BY <1>1, <1>8 DEF FinishSucceeded
  <2>2. Cardinality(Synthesized') >= Cardinality(Synthesized) + 1
        /\ Cardinality(Synthesized) + 1 <= MaxTasks /\ Cardinality(Synthesized') \in Nat
    <3>1. t \notin Synthesized /\ Synthesized \subseteq TaskId
      BY <1>4, <1>6 DEF Synthesized
    <3>2. Synthesized \cup {t} \subseteq Synthesized'
      BY <1>3, <1>4, <1>6 DEF Synthesized, AudioKept, TaskId
    <3>3. Synthesized' \subseteq TaskId
      BY DEF Synthesized
    <3>4. /\ IsFiniteSet(Synthesized \cup {t})
          /\ Cardinality(Synthesized \cup {t}) = Cardinality(Synthesized) + 1
      BY <3>1, SynthesizedFinite, FS_AddElement
    <3>5. /\ IsFiniteSet(Synthesized')
          /\ Cardinality(Synthesized \cup {t}) <= Cardinality(Synthesized')
          /\ Cardinality(Synthesized') <= MaxTasks
      BY <3>2, <3>3, SynthesizedFinite, FS_Subset
    <3>6. Cardinality(Synthesized') \in Nat
      BY <3>5, FS_CardinalityType
    <3> QED
      BY <3>4, <3>5, <3>6, SynthesizedFinite, ConstantsTyped
  <2>3. nextStamp \in Nat /\ nextStamp <= Cardinality(Synthesized) + 1
    BY DEF VoiceInv, CacheInv, CacheShape, StampsAreCounted
  <2>4. nextStamp <= MaxTasks
    BY <2>2, <2>3, SynthesizedFinite, ConstantsTyped
  <2>5. StampsAreCounted'
    BY <2>1, <2>2, <2>3, SynthesizedFinite DEF StampsAreCounted
  <2>6. /\ CacheShape' /\ CacheIsBounded' /\ StampsDiffer'
        /\ EntriesAreOfTheirKey' /\ IndexIsOfItsTask'
    BY <1>3, <1>4, <1>6, <2>1, <2>4, StoreEffect DEF VoiceInv
  <2> QED
    BY <1>6, <2>5, <2>6 DEF VoiceInv, CacheInv
<1> QED
  BY <1>7, <1>8

\* Steps that let entries expire or go: what is left is what was there.
LEMMA VoiceInvCache ==
    ASSUME VoiceInv, UNCHANGED <<nextTaskId, tasks, nextStamp, ticker>>,
           cache' \in [Key -> Entry], index' \in [TaskId -> Key \cup {NoKey}],
           \A k \in Cached' : /\ k \in Cached
                              /\ cache'[k].audio = cache[k].audio /\ cache'[k].stamp = cache[k].stamp
                              /\ index'[cache[k].audio] = index[cache[k].audio],
           \A id \in TaskId : index'[id] \in {NoKey, index[id]}
    PROVE  VoiceInv'
<1>1. TaskInv'
  BY DEF VoiceInv, TaskInv, TaskShape, TasksAreFresh, TasksHaveKeys, ThreadsAreInTheirLoop,
         QueuedMayRun, TasksGetTheirAudio, Calling
<1>2. CacheIsBounded'
  <2>1. IsFiniteSet(Cached) /\ Cardinality(Cached) <= MaxCache /\ Cardinality(Cached) \in Nat
    BY FS_CardinalityType DEF VoiceInv, CacheInv, CacheIsBounded
  <2>2. IsFiniteSet(Cached') /\ Cardinality(Cached') <= Cardinality(Cached)
    BY <2>1, FS_Subset
  <2>3. Cardinality(Cached') \in Nat
    BY <2>2, FS_CardinalityType
  <2> QED
    BY <2>1, <2>2, <2>3, ConstantsTyped DEF CacheIsBounded
<1>3. CacheShape' /\ StampsDiffer' /\ EntriesAreOfTheirKey'
  BY DEF VoiceInv, CacheInv, CacheShape, StampsDiffer, EntriesAreOfTheirKey
<1>4. StampsAreCounted'
  BY DEF VoiceInv, CacheInv, StampsAreCounted, Synthesized
<1>5. IndexIsOfItsTask'
  BY DEF VoiceInv, CacheInv, IndexIsOfItsTask
<1> QED
  BY <1>1, <1>2, <1>3, <1>4, <1>5 DEF VoiceInv, CacheInv

LEMMA VoiceInvExpires ==
    ASSUME VoiceInv, NEW k \in Key, AudioExpires(k)
    PROVE  VoiceInv'
<1>1. cache \in [Key -> Entry] /\ index \in [TaskId -> Key \cup {NoKey}]
  BY DEF VoiceInv, CacheInv, CacheShape
<1>2. /\ cache' \in [Key -> Entry] /\ index' = index
      /\ \A j \in Key : cache'[j].audio = cache[j].audio /\ cache'[j].stamp = cache[j].stamp
      /\ UNCHANGED <<nextTaskId, tasks, nextStamp, ticker>>
  BY <1>1 DEF AudioExpires, Entry
<1>3. \A j \in Cached' : j \in Cached /\ j \in Key
  BY <1>2 DEF Cached
<1> QED
  BY <1>1, <1>2, <1>3, VoiceInvCache

LEMMA VoiceInvClear ==
    ASSUME VoiceInv, ClearExpiredCache
    PROVE  VoiceInv'
<1> DEFINE gone == {k \in Cached : cache[k].expired}
<1>1. cache \in [Key -> Entry] /\ index \in [TaskId -> Key \cup {NoKey}]
  BY DEF VoiceInv, CacheInv, CacheShape
<1>2. /\ cache' = [k \in Key |-> IF k \in gone THEN NoEntry ELSE cache[k]]
      /\ index' = [id \in TaskId |->
                    IF \E k \in gone : cache[k].audio = id THEN NoKey ELSE index[id]]
      /\ UNCHANGED <<nextTaskId, tasks, nextStamp, ticker>>
  BY DEF ClearExpiredCache
<1>3. \A k \in Cached : k \in Key /\ index[cache[k].audio] = k /\ cache[k].audio \in TaskId
  BY <1>1 DEF VoiceInv, CacheInv, EntriesAreOfTheirKey, Cached, Entry
<1>4. gone \subseteq Cached
  OBVIOUS
<1> HIDE DEF gone
<1>5. cache' \in [Key -> Entry] /\ index' \in [TaskId -> Key \cup {NoKey}]
  BY <1>1, <1>2, BlankTyped
<1>6. \A k \in Cached' : k \in Cached /\ k \notin gone /\ cache'[k] = cache[k]
  BY <1>2, BlankTyped DEF Cached
<1>7. ASSUME NEW k \in Cached'
      PROVE  index'[cache[k].audio] = index[cache[k].audio]
  <2>1. ~\E j \in gone : cache[j].audio = cache[k].audio
    BY <1>3, <1>4, <1>6
  <2> QED
    BY <1>2, <1>3, <1>6, <2>1
<1>8. \A id \in TaskId : index'[id] \in {NoKey, index[id]}
  BY <1>2
<1> QED
  BY <1>2, <1>5, <1>6, <1>7, <1>8, VoiceInvCache

LEMMA VoiceInit ==
    ASSUME Init
    PROVE  VoiceInv
<1>1. Cached = {} /\ Synthesized = {}
  BY BlankTyped DEF Init, Cached, Synthesized, TaskId
<1>2. TaskInv
  <2>1. TaskShape
    BY BlankTyped, ConstantsTyped DEF Init, TaskShape
  <2>2. TasksAreFresh /\ TasksHaveKeys /\ ThreadsAreInTheirLoop /\ QueuedMayRun /\ TasksGetTheirAudio
    BY BlankTyped DEF Init, TasksAreFresh, TasksHaveKeys, ThreadsAreInTheirLoop, QueuedMayRun,
                      TasksGetTheirAudio, Calling
  <2> QED
    BY <2>1, <2>2 DEF TaskInv
<1>3. CacheInv
  <2>1. CacheShape /\ IndexIsOfItsTask
    BY BlankTyped DEF Init, CacheShape, IndexIsOfItsTask
  <2>2. CacheIsBounded /\ StampsDiffer /\ EntriesAreOfTheirKey /\ StampsAreCounted
    BY <1>1, FS_EmptySet, ConstantsTyped
       DEF Init, CacheIsBounded, StampsDiffer, EntriesAreOfTheirKey, StampsAreCounted
  <2> QED
    BY <2>1, <2>2 DEF CacheInv
<1> QED
  BY <1>2, <1>3 DEF VoiceInv

LEMMA VoiceStep ==
    ASSUME VoiceInv, [Next]_vars
    PROVE  VoiceInv'
<1>1. ASSUME NEW k \in Key, SubmitHit(k) \/ (\E c \in BOOLEAN : SubmitMiss(k, c)) PROVE VoiceInv'
  BY <1>1, VoiceInvSubmitHit, VoiceInvSubmitMiss
<1>2. ASSUME NEW t \in TaskId, CancelTask(t) \/ BackoffElapses(t) PROVE VoiceInv'
  BY <1>2, VoiceInvCancel, VoiceInvBackoff
<1>3. ASSUME (\E k \in Key : AudioExpires(k)) \/ ClearExpiredCache PROVE VoiceInv'
  BY <1>3, VoiceInvExpires, VoiceInvClear
<1>4. ASSUME NEW th \in Ticker, NEW n \in 1..MaxBatch, TickStart(th, n) PROVE VoiceInv'
  <2> DEFINE thread == [pc |-> "taking", left |-> n, job |-> 0]
  <2>1. thread \in Thread /\ thread.pc # "calling" /\ thread.left # 0
    BY ConstantsTyped DEF Thread
  <2>2. ticker' = [ticker EXCEPT ![th] = thread] /\ CacheKept /\ UNCHANGED <<nextTaskId, tasks>>
    BY <1>4 DEF TickStart, CacheKept
  <2> HIDE DEF thread
  <2> QED
    BY <2>1, <2>2, VoiceInvThread
<1>5. ASSUME NEW th \in Ticker, TakeNothing(th) \/ SynthesizeThrows(th) PROVE VoiceInv'
  <2>1. ticker' = [ticker EXCEPT ![th] = Idle] /\ CacheKept /\ UNCHANGED <<nextTaskId, tasks>>
    BY <1>5 DEF TakeNothing, SynthesizeThrows, CacheKept
  <2> QED
    BY <2>1, VoiceInvThread, BlankTyped
<1>6. ASSUME NEW th \in Ticker, NEW t \in TaskId, TakeTask(th, t) PROVE VoiceInv'
  BY <1>6, VoiceInvTake
<1>7. ASSUME NEW th \in Ticker, FinishSucceeded(th) PROVE VoiceInv'
  BY <1>7, VoiceInvSucceeded
<1>8. ASSUME NEW th \in Ticker,
             FinishRetry(th) \/ \E outcome \in {"failed", "timed_out"} : FinishFailed(th, outcome)
      PROVE  VoiceInv'
  BY <1>8, VoiceInvFinish
<1>9. CASE UNCHANGED vars
  <2>1. \A k \in Cached' : k \in Cached
    BY <1>9 DEF vars, Cached
  <2> QED
    BY <1>9, <2>1, VoiceInvCache DEF vars, VoiceInv, CacheInv, CacheShape
<1> QED
  BY <1>1, <1>2, <1>3, <1>4, <1>5, <1>6, <1>7, <1>8, <1>9 DEF Next

------------------------------------------------------------------------------
(* Theorems *)

\* The state keeps its shape: no task is attempted more often than max_retries + 1 times, and
\* enforceCacheLimitLocked keeps the cache within max_cache_items, whichever entries expire.
THEOREM TypeCorrect == Spec => []TypeOK
<1>1. Init => VoiceInv
  BY VoiceInit
<1>2. VoiceInv /\ [Next]_vars => VoiceInv'
  BY VoiceStep
<1>3. VoiceInv => TypeOK
  <2> SUFFICES ASSUME VoiceInv PROVE nextStamp \in 1..(MaxTasks + 1)
    BY DEF VoiceInv, TaskInv, CacheInv, TaskShape, CacheShape, CacheIsBounded, TypeOK
  <2>1. Cardinality(Synthesized) <= MaxTasks
    BY SynthesizedFinite, FS_Subset DEF Synthesized
  <2> QED
    BY <2>1, SynthesizedFinite, ConstantsTyped DEF VoiceInv, CacheInv, CacheShape, StampsAreCounted
<1> QED
  BY <1>1, <1>2, <1>3, PTL DEF Spec

\* A task has audio exactly when it succeeded, and it is audio of its own text, whatever threads,
\* cancelations, retries and cache entries came between submit and finishTaskLocked.
THEOREM AudioIsTheTasks == Spec => []TasksGetTheirAudio
<1>1. Init => VoiceInv
  BY VoiceInit
<1>2. VoiceInv /\ [Next]_vars => VoiceInv'
  BY VoiceStep
<1>3. VoiceInv => TasksGetTheirAudio
  BY DEF VoiceInv, TaskInv
<1> QED
  BY <1>1, <1>2, <1>3, PTL DEF Spec

\* findAudio never hands out audio of another text, and no entry of the cache is lost to it, over
\* any history of replaced, expired, evicted and cleared entries.
THEOREM IdsResolve == Spec => []IdsResolveToTheirText
<1>1. Init => VoiceInv
  BY VoiceInit
<1>2. VoiceInv /\ [Next]_vars => VoiceInv'
  BY VoiceStep
<1>3. VoiceInv => IdsResolveToTheirText
  <2> SUFFICES ASSUME VoiceInv PROVE IdsResolveToTheirText
    OBVIOUS
  <2>1. \A k \in Cached : index[cache[k].audio] = k
    BY DEF VoiceInv, CacheInv, EntriesAreOfTheirKey
  <2>2. ASSUME NEW id \in TaskId, FindAudio(id) # 0
        PROVE  tasks[FindAudio(id)].key = tasks[id].key
    <3>1. index[id] # NoKey /\ FindAudio(id) = FindCached(index[id])
      BY <2>2 DEF FindAudio
    <3>2. FindCached(index[id]) = cache[index[id]].audio
      BY <2>2, <3>1 DEF FindCached
    <3>3. index[id] \in Key /\ tasks[id].key = index[id]
      BY <3>1 DEF VoiceInv, CacheInv, CacheShape, IndexIsOfItsTask
    <3>4. tasks[cache[index[id]].audio].key = index[id]
      BY <2>2, <3>1, <3>2, <3>3 DEF VoiceInv, CacheInv, EntriesAreOfTheirKey, Cached
    <3> QED
      BY <3>1, <3>2, <3>3, <3>4
  <2> QED
    BY <2>1, <2>2 DEF IdsResolveToTheirText
<1> QED
  BY <1>1, <1>2, <1>3, PTL DEF Spec

==============================================================================
