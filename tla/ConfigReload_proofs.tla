-------------------------- MODULE ConfigReload_proofs --------------------------
(***************************************************************************)
(* Theorems about ConfigReload for every set of threads, files and         *)
(* documents and every value of the bounds.                                *)
(***************************************************************************)
EXTENDS ConfigReload, FiniteSetTheorems, TLAPS

LEMMA BoundsTyped == MaxStamp \in Nat \ {0} /\ MaxEdits \in Nat /\ MaxAge \in Nat
BY BoundsNatural

LEMMA OutsideTyped == Outside \in Call /\ Outside.pc = "idle"
BY BoundsTyped DEF Outside, Call

LEMMA ParsedTyped ==
    ASSUME NEW d \in Document, ~Throws(d)
    PROVE  Parsed(d) \in Configs /\ Parsed(d) # NoConfig
BY NoConfigIsNone DEF Configs

------------------------------------------------------------------------------
(* The lock, and the type of the state *)

\* Where a call is, what it remembers: a reading follows a look that found the file, and there
\* is a configuration to tell of when the callback runs.
CallsRemember ==
    \A t \in Thread :
        /\ call[t].pc = "read" => call[t].seen # 0
        /\ call[t].pc = "tell" => call[t].heard # NoConfig

\* The lock has one holder, and nobody else works.
LockIsMutual ==
    /\ mutex = {t \in Thread : call[t].pc \in {"look", "read"}}
    /\ \A t, u \in mutex : t = u

\* The shape of the state without the cardinality of mutex, which LockIsMutual gives.
Shape ==
    /\ file \in [Path -> [document: Document, time: 0..MaxStamp]]
    /\ path \in Path
    /\ config \in Configs \cup {NoConfig}
    /\ stamp \in 0..MaxStamp
    /\ config = NoConfig <=> stamp = 0
    /\ age \in 0..MaxAge
    /\ onReload \in BOOLEAN
    /\ call \in [Thread -> Call]
    /\ edits \in 0..MaxEdits
    /\ uses \in [Path -> [Time -> 0..2]]
    /\ untold \subseteq Configs

TypeInv == Shape /\ LockIsMutual /\ CallsRemember

LEMMA TypeInvTyped == TypeInv => TypeOK
<1> SUFFICES ASSUME TypeInv PROVE TypeOK
  OBVIOUS
<1>1. Cardinality(mutex) <= 1
  <2>1. CASE mutex = {}
    BY <2>1, FS_EmptySet
  <2>2. CASE mutex # {}
    <3>1. PICK t : mutex = {t}
      BY <2>2, ZenonT(30) DEF TypeInv, LockIsMutual
    <3> QED
      BY <3>1, FS_Singleton
  <2> QED
    BY <2>1, <2>2
<1> QED
  BY <1>1 DEF TypeInv, Shape, LockIsMutual, TypeOK

LEMMA TypeInit == Init => TypeInv
<1> SUFFICES ASSUME Init PROVE TypeInv
  OBVIOUS
<1> USE BoundsTyped, OutsideTyped
<1>1. Shape
  <2>1. file \in [Path -> [document: Document, time: 0..MaxStamp]]
    BY DEF Init
  <2>2. uses \in [Path -> [Time -> 0..2]]
    BY DEF Init
  <2>3. call \in [Thread -> Call]
    BY DEF Init
  <2>4. stamp \in 0..MaxStamp /\ age \in 0..MaxAge /\ edits \in 0..MaxEdits
    BY DEF Init
  <2> QED
    BY <2>1, <2>2, <2>3, <2>4 DEF Init, Shape
<1>2. LockIsMutual
  BY DEF Init, LockIsMutual
<1>3. CallsRemember
  BY DEF Init, CallsRemember
<1> QED
  BY <1>1, <1>2, <1>3 DEF TypeInv

\* A thread that holds the lock is its only holder, so what it does to its own call leaves the
\* lock to it or to nobody.
LEMMA HolderStep ==
    ASSUME TypeInv, NEW t \in Thread, call[t].pc \in {"look", "read"}, NEW c \in Call,
           c.pc # "look", c.pc = "read" => c.seen # 0, c.pc = "tell" => c.heard # NoConfig,
           call' = [call EXCEPT ![t] = c],
           mutex' = IF c.pc = "read" THEN mutex ELSE {}
    PROVE  call' \in [Thread -> Call] /\ LockIsMutual' /\ CallsRemember'
<1>1. call \in [Thread -> Call]
  BY DEF TypeInv, Shape
<1>2. mutex = {t}
  BY DEF TypeInv, LockIsMutual
<1>3. call' \in [Thread -> Call] /\ call'[t] = c /\ \A u \in Thread \ {t} : call'[u] = call[u]
  BY <1>1
<1>4. \A u \in Thread \ {t} : call[u].pc \notin {"look", "read"}
  BY <1>2 DEF TypeInv, LockIsMutual
<1>5. LockIsMutual'
  BY <1>2, <1>3, <1>4 DEF LockIsMutual
<1>6. CallsRemember'
  BY <1>3 DEF TypeInv, CallsRemember
<1> QED
  BY <1>3, <1>5, <1>6

LEMMA ReturnStep ==
    ASSUME TypeInv, NEW t \in Thread, call[t].pc \in {"look", "read"}, Return(t)
    PROVE  call' \in [Thread -> Call] /\ LockIsMutual' /\ CallsRemember'
BY HolderStep, OutsideTyped DEF Return

LEMMA EnterStep ==
    ASSUME TypeInv, NEW t \in Thread, NEW force \in BOOLEAN, Enter(t, force)
    PROVE  call' \in [Thread -> Call] /\ LockIsMutual' /\ CallsRemember'
<1> DEFINE c == [Outside EXCEPT !.pc = "look", !.force = force, !.previous = stamp]
<1>1. call \in [Thread -> Call] /\ stamp \in 0..MaxStamp
  BY DEF TypeInv, Shape
<1>2. c \in Call /\ c.pc = "look"
  BY <1>1, OutsideTyped DEF Call
<1>3. call' \in [Thread -> Call] /\ call'[t] = c /\ \A u \in Thread \ {t} : call'[u] = call[u]
  BY <1>1, <1>2 DEF Enter
<1>4. LockIsMutual'
  <2>1. \A u \in Thread : call[u].pc \notin {"look", "read"}
    BY DEF Enter, TypeInv, LockIsMutual
  <2>2. mutex' = {t}
    BY DEF Enter
  <2> QED
    BY <1>2, <1>3, <2>1, <2>2 DEF LockIsMutual
<1>5. CallsRemember'
  BY <1>2, <1>3 DEF TypeInv, CallsRemember
<1> QED
  BY <1>3, <1>4, <1>5

LEMMA TypeStep == TypeInv /\ [Next]_vars => TypeInv'
<1> SUFFICES ASSUME TypeInv, [Next]_vars PROVE TypeInv'
  OBVIOUS
<1> USE BoundsTyped
<1> USE DEF TypeInv, history
<1>1. ASSUME NEW t \in Thread, Load(t) PROVE TypeInv'
  BY <1>1, EnterStep DEF Load, Shape
<1>2. ASSUME NEW t \in Thread, Poll(t) PROVE TypeInv'
  <2>1. Enter(t, FALSE) /\ age' = 0
    BY <1>2 DEF Poll
  <2>2. call' \in [Thread -> Call] /\ LockIsMutual' /\ CallsRemember'
    BY <2>1, EnterStep
  <2> QED
    BY <1>2, <2>1, <2>2 DEF Poll, Shape
<1>3. ASSUME NEW t \in Thread, Look(t) PROVE TypeInv'
  <2> DEFINE c == [call[t] EXCEPT !.pc = "read", !.seen = file[path].time]
  <2>1. call' \in [Thread -> Call] /\ LockIsMutual' /\ CallsRemember'
    <3>1. CASE Return(t)
      BY <1>3, <3>1, ReturnStep DEF Look
    <3>2. CASE ~Return(t)
      <4>1. file[path].time # 0 /\ mutex' = mutex /\ call[t].pc = "look"
            /\ call' = [call EXCEPT ![t].pc = "read", ![t].seen = file[path].time]
        BY <1>3, <3>2 DEF Look
      <4>2. call[t] \in Call /\ file[path].time \in 0..MaxStamp
        BY DEF Shape
      <4>3. c \in Call /\ c.pc = "read" /\ c.seen # 0
        BY <4>1, <4>2 DEF Call
      <4>4. call' = [call EXCEPT ![t] = c]
        BY <4>1
      <4> QED
        BY <4>1, <4>3, <4>4, HolderStep
    <3> QED
      BY <3>1, <3>2
  <2> QED
    BY <1>3, <2>1 DEF Look, Shape
<1>4. ASSUME NEW t \in Thread, ReadFails(t) PROVE TypeInv'
  BY <1>4, ReturnStep DEF ReadFails, Shape
<1>5. ASSUME NEW t \in Thread, Read(t) PROVE TypeInv'
  <2> DEFINE new == Parsed(file[path].document)
             tell == onReload /\ (call[t].force \/ call[t].seen # call[t].previous)
             c == IF tell THEN [Outside EXCEPT !.pc = "tell", !.heard = new] ELSE Outside
  <2>1. file[path].document \in Document /\ call[t] \in Call /\ call[t].seen # 0
    BY <1>5 DEF Read, Shape, CallsRemember
  <2>2. new \in Configs /\ new # NoConfig
    BY <1>5, <2>1, ParsedTyped DEF Read
  <2>3. c \in Call /\ c.pc \in {"tell", "idle"} /\ (c.pc = "tell" => c.heard # NoConfig)
    BY <2>2, OutsideTyped DEF Call
  <2>4. call' \in [Thread -> Call] /\ LockIsMutual' /\ CallsRemember'
    BY <1>5, <2>3, HolderStep DEF Read
  <2>5. config' = new /\ stamp' = call[t].seen /\ stamp' \in 0..MaxStamp /\ stamp' # 0
    BY <1>5, <2>1 DEF Read, Call
  <2>6. untold' \subseteq Configs
    BY <1>5, <2>2 DEF Read, Shape
  <2> QED
    BY <1>5, <2>2, <2>4, <2>5, <2>6 DEF Read, Shape
<1>6. ASSUME NEW t \in Thread, Tell(t) PROVE TypeInv'
  <2>1. call \in [Thread -> Call]
    BY DEF Shape
  <2>2. call' \in [Thread -> Call] /\ call'[t] = Outside
        /\ \A u \in Thread \ {t} : call'[u] = call[u]
    BY <1>6, <2>1, OutsideTyped DEF Tell
  <2>3. LockIsMutual' /\ CallsRemember'
    BY <1>6, <2>2, OutsideTyped DEF Tell, LockIsMutual, CallsRemember
  <2> QED
    BY <1>6, <2>2, <2>3 DEF Tell, Shape
<1>7. ASSUME NEW t \in Thread, NEW p \in Path, SetConfigPath(t, p) PROVE TypeInv'
  BY <1>7 DEF SetConfigPath, Shape, LockIsMutual, CallsRemember
<1>8. ASSUME NEW t \in Thread, NEW set \in BOOLEAN, SetOnReload(t, set) PROVE TypeInv'
  BY <1>8 DEF SetOnReload, Shape, LockIsMutual, CallsRemember
<1>9. ASSUME NEW p \in Path, NEW d \in Document, NEW time \in 0..MaxStamp, Edit(p, d, time)
      PROVE  TypeInv'
  <2>1. file' \in [Path -> [document: Document, time: 0..MaxStamp]]
    BY <1>9 DEF Edit, Shape
  <2>2. uses' \in [Path -> [Time -> 0..2]]
    <3>1. CASE time \in Time /\ uses[p][time] < 2
      <4>1. uses' = [uses EXCEPT ![p][time] = @ + 1] /\ uses[p] \in [Time -> 0..2]
        BY <1>9, <3>1 DEF Edit, Shape
      <4>2. uses[p][time] + 1 \in 0..2
        BY <3>1, <4>1
      <4> QED
        BY <4>1, <4>2 DEF Shape
    <3>2. CASE ~(time \in Time /\ uses[p][time] < 2)
      BY <1>9, <3>2 DEF Edit, Shape
    <3> QED
      BY <3>1, <3>2
  <2>3. edits' \in 0..MaxEdits
    BY <1>9 DEF Edit, Shape
  <2> QED
    BY <1>9, <2>1, <2>2, <2>3 DEF Edit, Shape, LockIsMutual, CallsRemember
<1>10. CASE Tick
  BY <1>10 DEF Tick, Shape, LockIsMutual, CallsRemember
<1>11. CASE UNCHANGED vars
  BY <1>11 DEF vars, Shape, LockIsMutual, CallsRemember
<1> QED
  BY <1>1, <1>2, <1>3, <1>4, <1>5, <1>6, <1>7, <1>8, <1>9, <1>10, <1>11 DEF Next

LEMMA TypeInvariance == Spec => []TypeInv
BY TypeInit, TypeStep, PTL DEF Spec

\* The shape of the state, for every set of documents: a configuration is held exactly when the
\* time of its file is, and the mutex has the thread that works as its one holder.
THEOREM TypeCorrect == Spec => []TypeOK
BY TypeInvariance, TypeInvTyped, PTL

------------------------------------------------------------------------------
(* ConfigFollowsFile *)

\* A time that a file has, that the service keeps, or that a load has seen, was given to the
\* file by an edit: if it comes again, the file no longer has its time to itself.
TimesWereUsed ==
    /\ \A p \in Path : file[p].time # 0 => uses[p][file[p].time] > 0
    /\ stamp # 0 => uses[path][stamp] > 0
    /\ \A t \in Thread : call[t].pc = "read" => uses[path][call[t].seen] > 0

FollowInv == TimesWereUsed /\ ConfigFollowsFile

LEMMA FollowInit == Init => FollowInv
<1> SUFFICES ASSUME Init PROVE FollowInv
  OBVIOUS
<1>1. \A p \in Path : file[p].time # 0 => uses[p][file[p].time] = 1
  BY BoundsTyped DEF Init, Time
<1> QED
  BY <1>1, OutsideTyped DEF Init, FollowInv, TimesWereUsed, ConfigFollowsFile

\* A step that leaves the files, their history and what is kept alone, and lets no thread see
\* another time than its file has.
LEMMA FollowFrame ==
    ASSUME TypeInv, FollowInv, UNCHANGED <<file, path, config, stamp, uses>>,
           \A t \in Thread : call'[t].pc = "read" =>
                \/ call[t].pc = "read" /\ call'[t].seen = call[t].seen
                \/ call'[t].seen # 0 /\ call'[t].seen = file[path].time
    PROVE  FollowInv'
<1>1. path \in Path
  BY DEF TypeInv, Shape
<1>2. TimesWereUsed'
  BY <1>1 DEF FollowInv, TimesWereUsed
<1>3. ConfigFollowsFile'
  BY DEF FollowInv, ConfigFollowsFile, OwnTime
<1> QED
  BY <1>2, <1>3 DEF FollowInv

LEMMA FollowStep == TypeInv /\ FollowInv /\ [Next]_vars => FollowInv'
<1> SUFFICES ASSUME TypeInv, FollowInv, [Next]_vars PROVE FollowInv'
  OBVIOUS
<1> USE BoundsTyped, OutsideTyped DEF history
<1>0. call \in [Thread -> Call] /\ path \in Path
  BY DEF TypeInv, Shape
<1>1. ASSUME NEW t \in Thread, NEW force \in BOOLEAN, Enter(t, force)
      PROVE  \A u \in Thread : call'[u].pc = "read" =>
                call[u].pc = "read" /\ call'[u].seen = call[u].seen
  BY <1>0, <1>1 DEF Enter, Call, Outside
<1>2. ASSUME NEW t \in Thread, Load(t) PROVE FollowInv'
  BY <1>1, <1>2, FollowFrame DEF Load
<1>3. ASSUME NEW t \in Thread, Poll(t) PROVE FollowInv'
  BY <1>1, <1>3, FollowFrame DEF Poll
<1>4. ASSUME NEW t \in Thread, Look(t) PROVE FollowInv'
  <2>1. \A u \in Thread : call'[u].pc = "read" =>
            \/ call[u].pc = "read" /\ call'[u].seen = call[u].seen
            \/ call'[u].seen # 0 /\ call'[u].seen = file[path].time
    BY <1>0, <1>4 DEF Look, Return, Call
  <2> QED
    BY <1>4, <2>1, FollowFrame DEF Look
<1>5. ASSUME NEW t \in Thread, ReadFails(t) PROVE FollowInv'
  <2>1. \A u \in Thread : call'[u].pc = "read" => call' [u] = call[u]
    BY <1>0, <1>5 DEF ReadFails, Return
  <2> QED
    BY <1>5, <2>1, FollowFrame DEF ReadFails
<1>6. ASSUME NEW t \in Thread, Read(t) PROVE FollowInv'
  <2>1. \A u \in Thread : call'[u].pc = "read" => call'[u] = call[u]
    BY <1>0, <1>6 DEF Read, Outside
  <2>2. stamp' = call[t].seen /\ UNCHANGED <<file, path, uses>>
    BY <1>6 DEF Read
  <2>3. TimesWereUsed'
    BY <1>6, <2>1, <2>2 DEF Read, FollowInv, TimesWereUsed
  <2>4. ConfigFollowsFile'
    BY <1>6 DEF Read, ConfigFollowsFile
  <2> QED
    BY <2>3, <2>4 DEF FollowInv
<1>7. ASSUME NEW t \in Thread, Tell(t) PROVE FollowInv'
  <2>1. \A u \in Thread : call'[u].pc = "read" => call'[u] = call[u]
    BY <1>0, <1>7 DEF Tell
  <2> QED
    BY <1>7, <2>1, FollowFrame DEF Tell
<1>8. ASSUME NEW t \in Thread, NEW p \in Path, SetConfigPath(t, p) PROVE FollowInv'
  <2>1. \A u \in Thread : call[u].pc # "read"
    BY <1>8 DEF SetConfigPath, TypeInv, LockIsMutual
  <2> QED
    BY <1>8, <2>1 DEF SetConfigPath, FollowInv, TimesWereUsed, ConfigFollowsFile
<1>9. ASSUME NEW t \in Thread, NEW set \in BOOLEAN, SetOnReload(t, set) PROVE FollowInv'
  BY <1>9, FollowFrame DEF SetOnReload
<1>10. ASSUME NEW p \in Path, NEW d \in Document, NEW time \in 0..MaxStamp, Edit(p, d, time)
       PROVE  FollowInv'
  <2>1. UNCHANGED <<path, config, stamp, call>>
        /\ file' = [file EXCEPT ![p] = [document |-> d, time |-> time]]
    BY <1>10 DEF Edit
  <2>2. /\ \A q \in Path, s \in Time : uses[q][s] > 0 => uses'[q][s] > 0
        /\ time # 0 => time \in Time /\ uses'[p][time] > 0
        /\ time # 0 /\ uses[p][time] > 0 => uses'[p][time] # 1
    <3>1. uses \in [Path -> [Time -> 0..2]]
      BY DEF TypeInv, Shape
    <3>2. CASE time \in Time /\ uses[p][time] < 2
      <4>1. uses' = [uses EXCEPT ![p][time] = @ + 1]
        BY <1>10, <3>2 DEF Edit
      <4> QED
        BY <3>1, <3>2, <4>1 DEF Time
    <3>3. CASE ~(time \in Time /\ uses[p][time] < 2)
      BY <1>10, <3>1, <3>3 DEF Edit, Time
    <3> QED
      BY <3>2, <3>3
  <2>3. file \in [Path -> [document: Document, time: 0..MaxStamp]] /\ stamp \in 0..MaxStamp
    BY DEF TypeInv, Shape
  <2>4. file' \in [Path -> [document: Document, time: 0..MaxStamp]]
        /\ file'[p].time = time /\ \A q \in Path \ {p} : file'[q] = file[q]
    BY <2>1, <2>3
  <2>5. \A u \in Thread : call[u].pc = "read" => call[u].seen \in Time
    BY <1>0 DEF TypeInv, CallsRemember, Call, Time
  <2>6. TimesWereUsed'
    <3>1. ASSUME NEW q \in Path, file'[q].time # 0 PROVE uses'[q][file'[q].time] > 0
      <4>1. CASE q = p
        BY <2>2, <2>4, <3>1, <4>1
      <4>2. CASE q # p
        <5>1. file'[q].time = file[q].time /\ file[q].time \in Time
          BY <2>3, <2>4, <3>1, <4>2 DEF Time
        <5>2. uses[q][file[q].time] > 0
          BY <3>1, <5>1 DEF FollowInv, TimesWereUsed
        <5> QED
          BY <2>2, <5>1, <5>2
      <4> QED
        BY <4>1, <4>2
    <3>2. ASSUME stamp' # 0 PROVE uses'[path'][stamp'] > 0
      BY <1>0, <2>1, <2>2, <2>3, <3>2 DEF FollowInv, TimesWereUsed, Time
    <3>3. ASSUME NEW u \in Thread, call'[u].pc = "read" PROVE uses'[path'][call'[u].seen] > 0
      BY <1>0, <2>1, <2>2, <2>5, <3>3 DEF FollowInv, TimesWereUsed
    <3> QED
      BY <3>1, <3>2, <3>3 DEF TimesWereUsed
  <2>7. ConfigFollowsFile'
    <3>1. CASE p = path
      <4>1. SUFFICES ASSUME stamp = time, time # 0, uses'[p][time] = 1, config # NoConfig
                     PROVE  FALSE
        BY <2>1, <2>4, <3>1 DEF ConfigFollowsFile, OwnTime
      <4>2. uses[p][time] > 0
        BY <3>1, <4>1 DEF FollowInv, TimesWereUsed
      <4> QED
        BY <2>2, <4>1, <4>2
    <3>2. CASE p # path
      <4>1. file'[path] = file[path] /\ uses'[path] = uses[path]
        <5>1. uses \in [Path -> [Time -> 0..2]]
          BY DEF TypeInv, Shape
        <5> QED
          BY <1>0, <1>10, <2>4, <3>2, <5>1 DEF Edit
      <4> QED
        BY <2>1, <4>1 DEF FollowInv, ConfigFollowsFile, OwnTime
    <3> QED
      BY <3>1, <3>2
  <2> QED
    BY <2>6, <2>7 DEF FollowInv
<1>11. CASE Tick
  BY <1>11, FollowFrame DEF Tick
<1>12. CASE UNCHANGED vars
  BY <1>12, FollowFrame DEF vars
<1> QED
  BY <1>2, <1>3, <1>4, <1>5, <1>6, <1>7, <1>8, <1>9, <1>10, <1>11, <1>12 DEF Next

\* The configuration kept is the one of the file as it was at the time kept beside it: while the
\* file has that time, and got it only once, no poll that leaves it unread misses a change.
THEOREM ConfigIsOfItsTime == Spec => []ConfigFollowsFile
<1>1. FollowInv => ConfigFollowsFile
  BY DEF FollowInv
<1> QED
  BY <1>1, FollowInit, FollowStep, TypeInvariance, PTL DEF Spec
==============================================================================
