----------------------------- MODULE ConfigReload -----------------------------
(***************************************************************************)
(* rcs::config_hotreload: ConfigHotReloadService keeps the configuration   *)
(* that it read last, and reads the file again when a host polls, the      *)
(* interval is over and the file's modification time is another one.       *)
(*                                                                         *)
(* Threads of the host call the service; its mutex is held while a call    *)
(* works, and released before the host's callback runs.  The file is no    *)
(* part of that: an editor may write between any two looks at it, so the   *)
(* look at the time and the reading are steps of their own.                *)
(*                                                                         *)
(* Abstractions: a document is a name for its entries; of the fields of    *)
(* AppConfig there is one for each way of reading a field, and the two     *)
(* that the service itself looks at.  The clock counts the time since the  *)
(* last check, which starts out longer than any interval.  The file system *)
(* and the YAML parser are external.                                       *)
(***************************************************************************)
EXTENDS Integers, FiniteSets

CONSTANTS
    Thread,       \* the threads of the host
    Path,         \* configuration files
    Document,     \* contents of a file
    Entries,      \* Entries[d]: what document d says of the fields that it names
    Unparsable,   \* the documents that are no YAML map
    NoConfig,     \* current_config_ without a value
    MaxStamp,     \* bound on the modification times
    MaxEdits,     \* bound on the edits ever made
    MaxAge        \* bound on the time since a check; no interval is longer

ASSUME BoundsNatural == MaxStamp \in Nat \ {0} /\ {MaxEdits, MaxAge} \subseteq Nat

VARIABLES
    file,      \* each file: its document and its modification time, 0 while it is not there
    path,      \* config_path_
    config,    \* current_config_
    stamp,     \* last_write_time_, 0 for the value {}
    age,       \* the time since last_checked_at_
    onReload,  \* on_reload_ is set
    mutex,     \* the threads that hold mutex_
    call,      \* the call that each thread is in
    edits,     \* history: the edits so far
    uses,      \* history: how many edits gave a file each time, up to 2
    untold     \* history: configurations taken over that no callback has brought to the host

vars == <<file, path, config, stamp, age, onReload, mutex, call, edits, uses, untold>>
history == <<edits, uses, untold>>

Time == 1..MaxStamp

------------------------------------------------------------------------------
(* The configuration that a document stands for *)

\* The fields by the function that reads them.
StringField == {"jwt_secret"}
PortField   == {"port"}
NumberField == {"check_interval_ms"}
FlagField   == {"enable_cors", "enabled"}
Field       == StringField \cup PortField \cup NumberField \cup FlagField

\* An entry: the kind of its node and the value there.  A number that does not fit 32 bits is
\* a text to the reader of numbers.
Kind == {"null", "text", "number", "flag"}

\* AppConfig{}; intervals are counted in steps of the clock.
AppConfig == [jwt_secret |-> "local-dev-secret", port |-> 8080, check_interval_ms |-> 1,
              enable_cors |-> TRUE, enabled |-> TRUE]

\* A string takes any scalar, and null for its default; the other readers only look whether the
\* key is there, so null is a value that does not convert.
Converts(field, entry) ==
    \/ field \in StringField
    \/ field \in NumberField /\ entry.kind = "number"
    \/ field \in PortField /\ entry.kind = "number" /\ entry.value <= 65535
    \/ field \in FlagField /\ entry.kind = "flag"

\* Whether LoadFile or parseAppConfig throws.
Throws(d) ==
    d \in Unparsable \/ \E field \in DOMAIN Entries[d] : ~Converts(field, Entries[d][field])

Parsed(d) ==
    [field \in Field |->
        IF field \in DOMAIN Entries[d] /\ Entries[d][field].kind # "null"
        THEN Entries[d][field].value ELSE AppConfig[field]]

Configs == {Parsed(d) : d \in {e \in Document : ~Throws(e)}}

\* An optional without a value is no configuration.
ASSUME NoConfigIsNone == NoConfig \notin Configs

HotReloadEnabled == config # NoConfig /\ config.enabled

CheckInterval == IF config = NoConfig THEN 0 ELSE config.check_interval_ms

------------------------------------------------------------------------------
(* The service *)

\* pc: between calls, before the look at the time, before the reading, before the callback.
\* seen: write_time; heard: the configuration for the callback.
Call == [pc: {"idle", "look", "read", "tell"}, force: BOOLEAN, previous: 0..MaxStamp,
         seen: 0..MaxStamp, heard: Configs \cup {NoConfig}]

Outside == [pc |-> "idle", force |-> FALSE, previous |-> 0, seen |-> 0, heard |-> NoConfig]

Init ==
    /\ file \in [Path -> [document: Document, time: {0, 1}]]
    /\ path \in Path
    /\ config = NoConfig
    /\ stamp = 0
    /\ age = MaxAge
    /\ onReload = FALSE
    /\ mutex = {}
    /\ call = [t \in Thread |-> Outside]
    /\ edits = 0
    /\ uses = [p \in Path |-> [s \in Time |-> IF file[p].time = s THEN 1 ELSE 0]]
    /\ untold = {}

\* Thread t enters a method that loads.
Enter(t, force) ==
    /\ mutex = {}
    /\ call[t].pc = "idle"
    /\ mutex' = {t}
    /\ call' = [call EXCEPT ![t] = [Outside EXCEPT !.pc = "look", !.force = force,
                                                   !.previous = stamp]]

Load(t) ==
    /\ Enter(t, TRUE)
    /\ UNCHANGED <<file, path, config, stamp, age, onReload, history>>

\* A poll before its time, or with hot reload off, changes nothing and is no step.
Poll(t) ==
    /\ config # NoConfig => HotReloadEnabled /\ age >= CheckInterval
    /\ Enter(t, FALSE)
    /\ age' = 0
    /\ UNCHANGED <<file, path, config, stamp, onReload, history>>

\* The method returns without a callback.
Return(t) ==
    /\ mutex' = {}
    /\ call' = [call EXCEPT ![t] = Outside]

\* Mutant: only a later time is a change.
NoLater(time) == config # NoConfig /\ time <= stamp

Unchanged(time) == config # NoConfig /\ time = stamp

\* Mutant: the time is kept before the document is parsed.
LookAndKeep(t) ==
    LET time == file[path].time IN
    /\ call[t].pc = "look"
    /\ IF time = 0 \/ (~call[t].force /\ Unchanged(time))
       THEN Return(t) /\ UNCHANGED stamp
       ELSE /\ call' = [call EXCEPT ![t].pc = "read", ![t].seen = time]
            /\ stamp' = time
            /\ UNCHANGED mutex
    /\ UNCHANGED <<file, path, config, age, onReload, history>>

\* The first half of loadLocked, to last_write_time.
Look(t) ==
    LET time == file[path].time IN
    /\ call[t].pc = "look"
    /\ IF time = 0 \/ (~call[t].force /\ Unchanged(time))
       THEN Return(t)
       ELSE /\ call' = [call EXCEPT ![t].pc = "read", ![t].seen = time]
            /\ UNCHANGED mutex
    /\ UNCHANGED <<file, path, config, stamp, age, onReload, history>>

\* The second half: a file that is gone or does not parse leaves the service as it was.
ReadFails(t) ==
    /\ call[t].pc = "read"
    /\ file[path].time = 0 \/ Throws(file[path].document)
    /\ Return(t)
    /\ UNCHANGED <<file, path, config, stamp, age, onReload, history>>

Read(t) ==
    LET new  == Parsed(file[path].document)
        tell == onReload /\ (call[t].force \/ call[t].seen # call[t].previous)
    IN
    /\ call[t].pc = "read"
    /\ file[path].time # 0 /\ ~Throws(file[path].document)
    /\ config' = new
    /\ stamp' = call[t].seen
    /\ untold' = IF onReload /\ new # config THEN untold \cup {new} ELSE untold
    /\ mutex' = {}
    /\ call' = [call EXCEPT ![t] = IF tell THEN [Outside EXCEPT !.pc = "tell", !.heard = new]
                                   ELSE Outside]
    /\ UNCHANGED <<file, path, age, onReload, edits, uses>>

\* The callback that was there under the lock runs after it.
Tell(t) ==
    /\ call[t].pc = "tell"
    /\ untold' = untold \ {call[t].heard}
    /\ call' = [call EXCEPT ![t] = Outside]
    /\ UNCHANGED <<file, path, config, stamp, age, onReload, mutex, edits, uses>>

\* Mutant: the configuration of the old file stays.
SetConfigPathOnly(t, p) ==
    /\ mutex = {} /\ call[t].pc = "idle"
    /\ path' = p
    /\ stamp' = 0
    /\ age' = MaxAge
    /\ UNCHANGED <<file, config, onReload, mutex, call, history>>

SetConfigPath(t, p) ==
    /\ mutex = {} /\ call[t].pc = "idle"
    /\ path' = p
    /\ config' = NoConfig
    /\ stamp' = 0
    /\ age' = MaxAge
    /\ UNCHANGED <<file, onReload, mutex, call, history>>

SetOnReload(t, set) ==
    /\ mutex = {} /\ call[t].pc = "idle"
    /\ onReload' = set
    /\ UNCHANGED <<file, path, config, stamp, age, mutex, call, history>>

------------------------------------------------------------------------------
(* The editor and the clock *)

\* Any document, with any time: a later one, one that a copy keeps from elsewhere, or the time
\* of the last edit, when both fall into one tick of the file system's clock.
Edit(p, d, time) ==
    /\ edits < MaxEdits
    /\ edits' = edits + 1
    /\ file' = [file EXCEPT ![p] = [document |-> d, time |-> time]]
    /\ uses' = IF time \in Time /\ uses[p][time] < 2
               THEN [uses EXCEPT ![p][time] = @ + 1] ELSE uses
    /\ UNCHANGED <<path, config, stamp, age, onReload, mutex, call, untold>>

Tick ==
    /\ age < MaxAge
    /\ age' = age + 1
    /\ UNCHANGED <<file, path, config, stamp, onReload, mutex, call, history>>

------------------------------------------------------------------------------
Finish(t) == Look(t) \/ ReadFails(t) \/ Read(t) \/ Tell(t)

Next ==
    \/ \E t \in Thread : Load(t)
    \/ \E t \in Thread : Poll(t)
    \/ \E t \in Thread : Look(t)
    \/ \E t \in Thread : ReadFails(t)
    \/ \E t \in Thread : Read(t)
    \/ \E t \in Thread : Tell(t)
    \/ \E t \in Thread, p \in Path : SetConfigPath(t, p)
    \/ \E t \in Thread, set \in BOOLEAN : SetOnReload(t, set)
    \/ \E p \in Path, d \in Document, time \in 0..MaxStamp : Edit(p, d, time)
    \/ Tick

Spec == Init /\ [][Next]_vars

\* A call goes on to its end, the clock runs, and some thread of the host polls again and again,
\* which is what a host has the service for.  Nobody has to load, edit or set anything.
FairSpec ==
    /\ Spec
    /\ \A t \in Thread : WF_vars(Finish(t))
    /\ WF_vars(\E t \in Thread : Poll(t))
    /\ WF_vars(Tick)

------------------------------------------------------------------------------
(* Properties *)

\* The shape of the state; there is a configuration exactly when there is the time of its file;
\* the lock is held by the thread that works, and by no other.
TypeOK ==
    /\ file \in [Path -> [document: Document, time: 0..MaxStamp]]
    /\ path \in Path
    /\ config \in Configs \cup {NoConfig}
    /\ stamp \in 0..MaxStamp
    /\ config = NoConfig <=> stamp = 0
    /\ age \in 0..MaxAge
    /\ onReload \in BOOLEAN
    /\ call \in [Thread -> Call]
    /\ mutex = {t \in Thread : call[t].pc \in {"look", "read"}}
    /\ Cardinality(mutex) <= 1
    /\ edits \in 0..MaxEdits
    /\ uses \in [Path -> [Time -> 0..2]]
    /\ untold \subseteq Configs

\* The file was given its time by one edit only.
OwnTime == file[path].time # 0 /\ uses[path][file[path].time] = 1

\* The time that the service keeps speaks for the configuration that it keeps: when it is the
\* file's, which is when polls leave the file unread, the configuration is the file's too,
\* although the editor may have written between the look at the time and the reading, and
\* although loads may have failed.  (Edits that share a time cannot be told apart.)
ConfigFollowsFile ==
    config # NoConfig /\ stamp = file[path].time /\ OwnTime =>
        /\ ~Throws(file[path].document)
        /\ config = Parsed(file[path].document)

\* The file rests on a document that parses, has a time of its own, and is not shut out by a
\* configuration that turned hot reload off before.
Rests(d) ==
    /\ OwnTime
    /\ file[path].document = d
    /\ config # NoConfig => HotReloadEnabled \/ config = Parsed(d)

PathStays == \A t \in Thread, p \in Path : ~SetConfigPath(t, p)

\* An edit takes effect: where threads poll and leave the path alone, a document that stays in
\* the file becomes the configuration for good, and every configuration taken over reaches the
\* host's callback.
EditsTakeEffect ==
    <>[][PathStays]_vars =>
        \A d \in {e \in Document : ~Throws(e)} :
            <>[]Rests(d) => <>[](config = Parsed(d) /\ untold = {})

==============================================================================
