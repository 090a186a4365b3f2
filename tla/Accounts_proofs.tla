---------------------------- MODULE Accounts_proofs ----------------------------
(***************************************************************************)
(* Theorems about Accounts for every set of names and workers and every    *)
(* value of the times and bounds.                                          *)
(***************************************************************************)
EXTENDS Accounts, TLAPS

LEMMA ConstantsTyped ==
    /\ TokenTtl \in Nat /\ IdleTimeout \in Nat /\ MaxClock \in Nat
    /\ MaxSessions \in Nat /\ MaxRequests \in Nat
    /\ NoOne \notin Name
BY TimesNatural, NoOneIsNoName

LEMMA BlankTyped ==
    NoUser \in User /\ NoSession \in Session /\ NoRequest \in Request /\ NoRequest.step = "idle"
BY ConstantsTyped DEF NoUser, NoSession, NoRequest, User, Session, Request, Steps, Time

\* A request that is being served names a player, and an account unless it is a visit.
Identified ==
    \A w \in Worker : ~At(w, "idle") =>
        /\ request[w].player \in Name
        /\ At(w, "visit") \/ request[w].account \in Name

\* A row that can be logged in to has an account.
RowsComplete == \A p \in Name : users[p].password # NoOne => users[p].account \in Name

TypeInv == TypeOK /\ Identified /\ RowsComplete

LEMMA TypeInit == Init => TypeInv
<1> SUFFICES ASSUME Init PROVE TypeInv
  OBVIOUS
<1> USE ConstantsTyped, BlankTyped
<1>1. TypeOK
  BY DEF Init, TypeOK, Time
<1>2. Identified
  BY DEF Init, Identified, At
<1>3. RowsComplete
  BY DEF Init, RowsComplete, NoUser
<1> QED
  BY <1>1, <1>2, <1>3 DEF TypeInv

\* What a handler does to its own request keeps every request identified.
LEMMA RequestStep ==
    ASSUME TypeInv, NEW w \in Worker, NEW q \in Request,
           request' = [request EXCEPT ![w] = q],
           q.step # "idle" => q.player \in Name /\ (q.step = "visit" \/ q.account \in Name)
    PROVE  request' \in [Worker -> Request] /\ Identified'
<1>1. request' \in [Worker -> Request]
  BY DEF TypeInv, TypeOK
<1>2. ASSUME NEW v \in Worker, request'[v].step # "idle"
      PROVE  request'[v].player \in Name /\ (request'[v].step = "visit" \/ request'[v].account \in Name)
  <2>1. CASE v = w
    BY <1>2, <2>1 DEF TypeInv, TypeOK
  <2>2. CASE v # w
    BY <1>2, <2>2 DEF TypeInv, TypeOK, Identified, At
  <2> QED
    BY <2>1, <2>2
<1> QED
  BY <1>1, <1>2 DEF Identified, At

LEMMA ReturnStep ==
    ASSUME TypeInv, NEW w \in Worker, Return(w)
    PROVE  request' \in [Worker -> Request] /\ Identified'
BY RequestStep, BlankTyped DEF Return

\* A handler that goes on keeps whom it speaks for.
LEMMA GotoStep ==
    ASSUME TypeInv, NEW w \in Worker, NEW s \in Steps \ {"visit"}, Goto(w, s),
           ~At(w, "idle"), ~At(w, "visit")
    PROVE  request' \in [Worker -> Request] /\ Identified'
<1> DEFINE q == [request[w] EXCEPT !.step = s]
<1>1. request[w] \in Request
  BY DEF TypeInv, TypeOK
<1>2. q \in Request /\ q.player = request[w].player /\ q.account = request[w].account
  BY <1>1 DEF Request
<1>3. q.player \in Name /\ q.account \in Name
  BY <1>2 DEF TypeInv, Identified
<1>4. request' = [request EXCEPT ![w] = q]
  BY DEF Goto
<1> QED
  BY <1>2, <1>3, <1>4, RequestStep

LEMMA TypeStep == TypeInv /\ [Next]_vars => TypeInv'
<1> SUFFICES ASSUME TypeInv, [Next]_vars PROVE TypeInv'
  OBVIOUS
<1> USE ConstantsTyped DEF TypeInv
<1>1. CASE TimePasses
  BY <1>1 DEF TimePasses, sessionVars, TypeOK, Identified, RowsComplete, At
<1>2. CASE StorageBreaks
  BY <1>2 DEF StorageBreaks, sessionVars, TypeOK, Identified, RowsComplete, At
<1>3. ASSUME NEW w \in Worker, NEW p \in Name, NEW a \in Name, Register(w, p, a)
      PROVE  TypeInv'
  <2> DEFINE q == [NoRequest EXCEPT !.step = "account", !.player = p, !.account = a,
                                    !.new = TRUE, !.password = TRUE]
  <2>1. q \in Request /\ q.player = p /\ q.account = a
    BY BlankTyped DEF Request, Steps
  <2>2. request' \in [Worker -> Request] /\ Identified'
    BY <1>3, <2>1, RequestStep DEF Register
  <2> QED
    BY <1>3, <2>2 DEF Register, Begin, sessionVars, TypeOK, RowsComplete
<1>4. ASSUME NEW w \in Worker, FindAccount(w) PROVE TypeInv'
  <2>1. request' \in [Worker -> Request] /\ Identified'
    BY <1>4, GotoStep, ReturnStep DEF FindAccount, At, Steps
  <2> QED
    BY <1>4, <2>1 DEF FindAccount, sessionVars, TypeOK, RowsComplete
<1>5. ASSUME NEW w \in Worker, At(w, "create"), Issue(w)
      PROVE  request' \in [Worker -> Request] /\ Identified'
  <2> DEFINE q == [request[w] EXCEPT !.step = "validate", !.expires = clock + TokenTtl]
  <2>1. request[w] \in Request /\ clock + TokenTtl \in Time
    BY DEF TypeOK, Time
  <2>2. q \in Request /\ q.player = request[w].player /\ q.account = request[w].account
    BY <2>1 DEF Request, Steps
  <2>3. q.player \in Name /\ q.account \in Name
    BY <1>5, <2>2 DEF Identified, At
  <2>4. request' = [request EXCEPT ![w] = q]
    BY <1>5 DEF Issue
  <2> QED
    BY <2>2, <2>3, <2>4, RequestStep
<1>6. ASSUME NEW w \in Worker, At(w, "create") PROVE NewUser(w) \in User /\ NewUser(w).account \in Name
  BY <1>6 DEF NewUser, User, Identified, At
<1>7. ASSUME NEW w \in Worker, CreateUser(w) PROVE TypeInv'
  <2>1. request' \in [Worker -> Request] /\ Identified'
    BY <1>5, <1>7, ReturnStep DEF CreateUser
  <2>2. users' \in [Name -> User]
    BY <1>6, <1>7 DEF CreateUser, TypeOK
  <2>3. RowsComplete'
    BY <1>6, <1>7 DEF CreateUser, TypeOK, RowsComplete
  <2> QED
    BY <1>7, <2>1, <2>2, <2>3 DEF CreateUser, sessionVars, TypeOK
<1>8. ASSUME NEW w \in Worker, CreateUserInDoubt(w) PROVE TypeInv'
  <2>1. request' \in [Worker -> Request] /\ Identified'
    BY <1>8, ReturnStep DEF CreateUserInDoubt
  <2>2. users' \in [Name -> User]
    BY <1>6, <1>8 DEF CreateUserInDoubt, TypeOK
  <2>3. RowsComplete'
    BY <1>6, <1>8 DEF CreateUserInDoubt, TypeOK, RowsComplete
  <2> QED
    BY <1>8, <2>1, <2>2, <2>3 DEF CreateUserInDoubt, sessionVars, TypeOK
<1>9. ASSUME NEW w \in Worker, NEW p \in Name, NEW a \in Name, NEW e \in Time,
             NEW b \in BOOLEAN, Login(w, p, a, e, b)
      PROVE  request' \in [Worker -> Request] /\ Identified'
  <2> DEFINE q == [NoRequest EXCEPT !.step = "validate", !.player = p, !.account = a,
                                    !.expires = e, !.password = b]
  <2>1. q \in Request /\ q.player = p /\ q.account = a
    BY BlankTyped DEF Request, Steps
  <2>2. request' = [request EXCEPT ![w] = q]
    BY <1>9 DEF Login
  <2> QED
    BY <2>1, <2>2, RequestStep
<1>10. clock + TokenTtl \in Time
  BY DEF TypeOK, Time
<1>11. ASSUME NEW w \in Worker, NEW p \in Name, LoginWithPassword(w, p) PROVE TypeInv'
  <2>1. users[p].account \in Name
    BY <1>11 DEF LoginWithPassword, RowsComplete
  <2>2. request' \in [Worker -> Request] /\ Identified'
    BY <1>9, <1>10, <1>11, <2>1 DEF LoginWithPassword
  <2> QED
    BY <1>11, <2>2 DEF LoginWithPassword, Begin, sessionVars, TypeOK, RowsComplete
<1>12. ASSUME NEW w \in Worker, NEW p \in Name, NEW a \in Name, LoginAsDeveloper(w, p, a)
       PROVE  TypeInv'
  <2>1. request' \in [Worker -> Request] /\ Identified'
    BY <1>9, <1>10, <1>12 DEF LoginAsDeveloper
  <2> QED
    BY <1>12, <2>1 DEF LoginAsDeveloper, Begin, sessionVars, TypeOK, RowsComplete
<1>13. ASSUME NEW w \in Worker, NEW t \in tokens, LoginWithOldToken(w, t) PROVE TypeInv'
  <2>1. t.player \in Name /\ t.account \in Name /\ t.expires \in Time
    BY DEF TypeOK, Token
  <2>2. request' \in [Worker -> Request] /\ Identified'
    BY <1>9, <1>13, <2>1 DEF LoginWithOldToken
  <2> QED
    BY <1>13, <2>2 DEF LoginWithOldToken, Begin, sessionVars, TypeOK, RowsComplete
<1>14. ASSUME NEW w \in Worker, ValidateToken(w) PROVE TypeInv'
  <2>1. request' \in [Worker -> Request] /\ Identified'
    BY <1>14, GotoStep, ReturnStep DEF ValidateToken, At, Steps
  <2> QED
    BY <1>14, <2>1 DEF ValidateToken, sessionVars, TypeOK, RowsComplete
<1>15. ASSUME NEW w \in Worker, At(w, "session"), Goto(w, AfterSession(w))
       PROVE  /\ request' \in [Worker -> Request] /\ Identified'
              /\ Opened(w) \in Session /\ Opened(w).player = request[w].player
              /\ request[w].player \in Name
  <2>1. request' \in [Worker -> Request] /\ Identified'
    BY <1>15, GotoStep DEF AfterSession, At, Steps
  <2>2. request[w].player \in Name /\ request[w].account \in Name
    BY <1>15 DEF Identified, At
  <2>3. request[w] \in Request /\ clock \in Time
    BY DEF TypeOK, Time
  <2>4. Opened(w) \in Session
    BY <2>2, <2>3 DEF Opened, Session, Request
  <2> QED
    BY <2>1, <2>2, <2>4 DEF Opened
<1>16. ASSUME NEW w \in Worker, RefreshSession(w) PROVE TypeInv'
  BY <1>15, <1>16 DEF RefreshSession, TypeOK, RowsComplete
<1>17. ASSUME NEW w \in Worker, OpenSession(w) PROVE TypeInv'
  <2>1. nextSessionId' \in 1..(MaxSessions + 1)
    BY <1>17 DEF OpenSession, SessionId
  <2> QED
    BY <1>15, <1>17, <2>1 DEF OpenSession, TypeOK, RowsComplete
<1>18. ASSUME NEW w \in Worker, FindProfile(w) PROVE TypeInv'
  <2>1. request' \in [Worker -> Request] /\ Identified'
    BY <1>18, GotoStep DEF FindProfile, At, Steps
  <2> QED
    BY <1>18, <2>1 DEF FindProfile, sessionVars, TypeOK, RowsComplete
<1>19. ASSUME NEW w \in Worker, FindProfileThrows(w) PROVE TypeInv'
  <2>1. request' \in [Worker -> Request] /\ Identified'
    BY <1>19, ReturnStep DEF FindProfileThrows
  <2> QED
    BY <1>19, <2>1 DEF FindProfileThrows, sessionVars, TypeOK, RowsComplete
<1>20. ASSUME NEW w \in Worker, Confirm(w), ~At(w, "idle"), ~At(w, "visit")
       PROVE  /\ request' \in [Worker -> Request] /\ Identified'
              /\ tokens' \subseteq Token
              /\ registered' \subseteq [player: Name, account: Name, password: Worker]
  <2>1. request' \in [Worker -> Request] /\ Identified'
    BY <1>20, ReturnStep DEF Confirm
  <2>2. request[w].player \in Name /\ request[w].account \in Name /\ request[w].expires \in Time
    BY <1>20 DEF Identified, TypeOK, Request
  <2>3. [player |-> request[w].player, account |-> request[w].account,
         expires |-> request[w].expires] \in Token
    BY <2>2 DEF Token
  <2>4. [player |-> request[w].player, account |-> request[w].account, password |-> w]
            \in [player: Name, account: Name, password: Worker]
    BY <2>2
  <2> QED
    BY <1>20, <2>1, <2>3, <2>4 DEF Confirm, TypeOK
<1>21. ASSUME NEW w \in Worker, PersistLoginSession(w) PROVE TypeInv'
  <2>1. ~At(w, "idle") /\ ~At(w, "visit")
    BY <1>21 DEF PersistLoginSession, At
  <2>2. CASE Confirm(w)
    BY <1>20, <1>21, <2>1, <2>2 DEF PersistLoginSession, sessionVars, TypeOK, RowsComplete
  <2>3. CASE Goto(w, "upsert") /\ UNCHANGED <<tokens, registered>>
    <3>1. request' \in [Worker -> Request] /\ Identified'
      BY <2>1, <2>3, GotoStep DEF Steps
    <3> QED
      BY <1>21, <2>3, <3>1 DEF PersistLoginSession, sessionVars, TypeOK, RowsComplete
  <2> QED
    BY <1>21, <2>2, <2>3 DEF PersistLoginSession
<1>22. ASSUME NEW p \in Name, NEW a \in Name, UpsertUser(p, a)
       PROVE  users' \in [Name -> User] /\ RowsComplete'
  <2>1. CASE UNCHANGED users
    BY <2>1 DEF TypeOK, RowsComplete
  <2>2. CASE users' = [users EXCEPT ![p].account = a]
    <3>1. [users[p] EXCEPT !.account = a] \in User
      BY DEF TypeOK, User
    <3>2. users' = [users EXCEPT ![p] = [users[p] EXCEPT !.account = a]]
      BY <2>2
    <3> QED
      BY <3>1, <3>2 DEF TypeOK, RowsComplete, User
  <2> QED
    BY <1>22, <2>1, <2>2 DEF UpsertUser
<1>23. ASSUME NEW w \in Worker, UpsertLogin(w) PROVE TypeInv'
  <2>1. ~At(w, "idle") /\ ~At(w, "visit") /\ UpsertUser(request[w].player, request[w].account)
    BY <1>23 DEF UpsertLogin, At
  <2>2. users' \in [Name -> User] /\ RowsComplete'
    BY <1>22, <2>1 DEF Identified
  <2> QED
    BY <1>20, <1>23, <2>1, <2>2 DEF UpsertLogin, sessionVars, TypeOK
<1>24. ASSUME NEW w \in Worker, NEW p \in Name, Visit(w, p) PROVE TypeInv'
  <2> DEFINE q == [NoRequest EXCEPT !.step = "visit", !.player = p]
  <2>1. q \in Request /\ q.player = p /\ q.step = "visit"
    BY BlankTyped DEF Request, Steps
  <2>2. request' \in [Worker -> Request] /\ Identified'
    BY <1>24, <2>1, RequestStep DEF Visit
  <2> QED
    BY <1>24, <2>2 DEF Visit, Begin, sessionVars, TypeOK, RowsComplete
<1>25. ASSUME NEW w \in Worker, UpsertVisitor(w) PROVE TypeInv'
  <2>1. request[w].player \in Name
    BY <1>25 DEF UpsertVisitor, Identified, At
  <2>2. users' \in [Name -> User] /\ RowsComplete'
    BY <1>22, <1>25, <2>1 DEF UpsertVisitor
  <2>3. request' \in [Worker -> Request] /\ Identified'
    BY <1>25, ReturnStep DEF UpsertVisitor
  <2> QED
    BY <1>25, <2>2, <2>3 DEF UpsertVisitor, sessionVars, TypeOK
<1>26. ASSUME NEW s \in SessionId, TouchSession(s) PROVE TypeInv'
  <2>1. [sessions[s] EXCEPT !.seen = clock] \in Session
    BY DEF TypeOK, Session, Time
  <2> QED
    BY <1>26, <2>1 DEF TouchSession, TypeOK, Identified, RowsComplete, At
<1>27. ASSUME NEW s \in SessionId, CloseSession(s) PROVE TypeInv'
  BY <1>27, BlankTyped DEF CloseSession, TypeOK, Identified, RowsComplete, At
<1>28. CASE SweepExpiredSessions
  <2>1. sessions' \in [SessionId -> Session]
    BY <1>28, BlankTyped DEF SweepExpiredSessions, TypeOK
  <2>2. playerSessions' \in [Name -> SessionId \cup {0}]
    BY <1>28 DEF SweepExpiredSessions, TypeOK
  <2> QED
    BY <1>28, <2>1, <2>2 DEF SweepExpiredSessions, TypeOK, Identified, RowsComplete, At
<1>29. CASE UNCHANGED vars
  BY <1>29 DEF vars, TypeOK, Identified, RowsComplete, At
<1> HIDE DEF TypeInv
<1> QED
  BY <1>1, <1>2, <1>3, <1>4, <1>7, <1>8, <1>11, <1>12, <1>13, <1>14, <1>16, <1>17, <1>18,
     <1>19, <1>21, <1>23, <1>24, <1>25, <1>26, <1>27, <1>28, <1>29
  DEF Next, Handle

\* Every reachable state is well typed: a request names a player and an account before a
\* token or a session is made of it, and no counter leaves its bound.
THEOREM TypeCorrect == Spec => []TypeOK
<1>1. TypeInv => TypeOK
  BY DEF TypeInv
<1> QED
  BY <1>1, TypeInit, TypeStep, PTL DEF Spec

------------------------------------------------------------------------------
(* The two session tables *)

\* Ids from next_session_id_ on are unused.
FreshIds == \A s \in SessionId : s >= nextSessionId => sessions[s] = NoSession

SessionInv == SessionIndexAgrees /\ FreshIds

LEMMA SessionInit == Init => SessionInv
BY DEF Init, SessionInv, SessionIndexAgrees, FreshIds

\* upsertSession on a player who has a session, and the touch of a session: an entry is
\* replaced by one of the same player.
LEMMA SessionReplaced ==
    ASSUME TypeOK, SessionInv, NEW s \in SessionId, sessions[s] # NoSession,
           NEW e \in Session, e.player = sessions[s].player,
           sessions' = [sessions EXCEPT ![s] = e],
           UNCHANGED <<playerSessions, nextSessionId>>
    PROVE  SessionInv'
<1> USE DEF SessionInv
<1>1. SessionIndexAgrees'
  BY ConstantsTyped DEF SessionIndexAgrees, TypeOK, NoSession
<1>2. FreshIds'
  BY DEF FreshIds, TypeOK
<1> QED
  BY <1>1, <1>2

LEMMA SessionStep == TypeInv /\ SessionInv /\ [Next]_vars => SessionInv'
<1> SUFFICES ASSUME TypeInv, SessionInv, [Next]_vars PROVE SessionInv'
  OBVIOUS
<1>1. TypeOK /\ Identified
  BY DEF TypeInv
<1>2. CASE UNCHANGED sessionVars
  BY <1>2 DEF sessionVars, SessionInv, SessionIndexAgrees, FreshIds
<1>3. ASSUME NEW w \in Worker, At(w, "session")
      PROVE  /\ request[w].player \in Name
             /\ Opened(w) \in Session /\ Opened(w).player = request[w].player
  <2>1. request[w].player \in Name /\ request[w].account \in Name
    BY <1>1, <1>3 DEF Identified, At
  <2>2. request[w] \in Request /\ clock \in Time
    BY <1>1, ConstantsTyped DEF TypeOK, Time
  <2> QED
    BY <2>1, <2>2 DEF Opened, Session, Request
<1>4. ASSUME NEW w \in Worker, RefreshSession(w) PROVE SessionInv'
  <2> DEFINE s == playerSessions[request[w].player]
  <2>1. At(w, "session") /\ s # 0 /\ sessions' = [sessions EXCEPT ![s] = Opened(w)]
    BY <1>4 DEF RefreshSession
  <2>2. request[w].player \in Name /\ Opened(w) \in Session
        /\ Opened(w).player = request[w].player
    BY <1>3, <2>1
  <2>3. s \in SessionId
    BY <1>1, <2>1, <2>2 DEF TypeOK
  <2>4. sessions[s].player = request[w].player
    BY <2>1, <2>2 DEF SessionInv, SessionIndexAgrees
  <2>5. sessions[s] # NoSession
    BY <2>2, <2>4, ConstantsTyped DEF NoSession
  <2>6. UNCHANGED <<playerSessions, nextSessionId>>
    BY <1>4 DEF RefreshSession
  <2> HIDE DEF s
  <2> QED
    BY <1>1, <2>1, <2>2, <2>3, <2>4, <2>5, <2>6, SessionReplaced
<1>5. ASSUME NEW w \in Worker, OpenSession(w) PROVE SessionInv'
  <2> DEFINE p == request[w].player  s == nextSessionId
  <2>1. /\ At(w, "session") /\ playerSessions[p] = 0 /\ s \in SessionId
        /\ nextSessionId' = s + 1
        /\ sessions' = [sessions EXCEPT ![s] = Opened(w)]
        /\ playerSessions' = [playerSessions EXCEPT ![p] = s]
    BY <1>5 DEF OpenSession
  <2>2. p \in Name /\ Opened(w) \in Session /\ Opened(w).player = p
    BY <1>3, <2>1
  <2>3. sessions[s] = NoSession /\ s # 0
    BY <2>1 DEF SessionInv, FreshIds, SessionId
  <2>4. \A q \in Name : playerSessions[q] # s
    BY <2>3, ConstantsTyped DEF SessionInv, SessionIndexAgrees, NoSession
  <2>5. \A t \in SessionId : sessions[t] # NoSession => sessions[t].player # p
    BY <2>1 DEF SessionInv, SessionIndexAgrees, SessionId
  <2> HIDE DEF p, s
  <2>6. SessionIndexAgrees'
    <3>1. ASSUME NEW t \in SessionId, sessions'[t] # NoSession
          PROVE  sessions'[t].player \in Name /\ playerSessions'[sessions'[t].player] = t
      <4>1. CASE t = s
        BY <1>1, <2>1, <2>2, <4>1 DEF TypeOK
      <4>2. CASE t # s
        BY <1>1, <2>1, <2>2, <2>5, <3>1, <4>2 DEF TypeOK, SessionInv, SessionIndexAgrees
      <4> QED
        BY <4>1, <4>2
    <3>2. ASSUME NEW q \in Name, playerSessions'[q] # 0
          PROVE  sessions'[playerSessions'[q]].player = q
      <4>1. CASE q = p
        BY <1>1, <2>1, <2>2, <4>1 DEF TypeOK
      <4>2. CASE q # p
        BY <1>1, <2>1, <2>2, <2>4, <3>2, <4>2 DEF TypeOK, SessionInv, SessionIndexAgrees
      <4> QED
        BY <4>1, <4>2
    <3> QED
      BY <3>1, <3>2 DEF SessionIndexAgrees
  <2>7. FreshIds'
    BY <1>1, <2>1 DEF TypeOK, SessionInv, FreshIds, SessionId, s
  <2> QED
    BY <2>6, <2>7 DEF SessionInv
<1>6. ASSUME NEW s \in SessionId, TouchSession(s) PROVE SessionInv'
  <2> DEFINE e == [sessions[s] EXCEPT !.seen = clock]
  <2>1. sessions[s] \in Session /\ clock \in Time
    BY <1>1, ConstantsTyped DEF TypeOK, Time
  <2>2. e \in Session /\ e.player = sessions[s].player
    BY <2>1 DEF Session
  <2>3. sessions' = [sessions EXCEPT ![s] = e]
    BY <1>6 DEF TouchSession
  <2> HIDE DEF e
  <2> QED
    BY <1>1, <1>6, <2>2, <2>3, SessionReplaced DEF TouchSession
<1>7. ASSUME NEW s \in SessionId, CloseSession(s) PROVE SessionInv'
  <2>1. sessions[s].player \in Name /\ playerSessions[sessions[s].player] = s
    BY <1>7 DEF CloseSession, SessionInv, SessionIndexAgrees
  <2>2. SessionIndexAgrees'
    BY <1>1, <1>7, <2>1, ConstantsTyped
    DEF CloseSession, SessionInv, SessionIndexAgrees, TypeOK, NoSession, SessionId
  <2>3. FreshIds'
    BY <1>1, <1>7 DEF CloseSession, SessionInv, FreshIds, TypeOK
  <2> QED
    BY <2>2, <2>3 DEF SessionInv
<1>8. CASE SweepExpiredSessions
  <2>1. SessionIndexAgrees'
    BY <1>1, <1>8, ConstantsTyped, SMTT(30)
    DEF SweepExpiredSessions, IsSessionExpired, SessionInv, SessionIndexAgrees, TypeOK,
        NoSession, SessionId
  <2>2. FreshIds'
    BY <1>8 DEF SweepExpiredSessions, SessionInv, FreshIds
  <2> QED
    BY <2>1, <2>2 DEF SessionInv
<1>9. ASSUME NEW w \in Worker, Handle(w), ~RefreshSession(w), ~OpenSession(w)
      PROVE  UNCHANGED sessionVars
  BY <1>9 DEF Handle, Register, LoginAsDeveloper, FindAccount, CreateUser, CreateUserInDoubt,
     LoginWithPassword, Visit, LoginWithOldToken, ValidateToken, FindProfile,
     FindProfileThrows, PersistLoginSession, UpsertLogin, UpsertVisitor
<1>10. TimePasses \/ StorageBreaks \/ UNCHANGED vars => UNCHANGED sessionVars
  BY DEF TimePasses, StorageBreaks, vars, sessionVars
<1> QED
  BY <1>2, <1>4, <1>5, <1>6, <1>7, <1>8, <1>9, <1>10 DEF Next

\* Whatever handlers and sweeps do to them, sessions_ and player_sessions_ stay one relation.
THEOREM SessionTablesAgree == Spec => []SessionIndexAgrees
<1>1. SessionInv => SessionIndexAgrees
  BY DEF SessionInv
<1> QED
  BY <1>1, TypeInit, TypeStep, SessionInit, SessionStep, PTL DEF Spec

------------------------------------------------------------------------------
(* Registrations and identities *)

\* The handler speaks for a player by name: it has, or will get, a token.
Speaks(w) == request[w].step \in {"validate", "session", "profile", "persist", "upsert"}

\* unique (account), as the table declares it.
AccountsAreUnique ==
    \A p, q \in Name : users[p].account = users[q].account /\ users[p].account # NoOne => p = q

\* A registration that has its row and is not confirmed yet: the row is its own, and nobody was
\* told of it before.
RowsAreTheirs ==
    \A w \in Worker : Speaks(w) /\ request[w].new =>
        /\ users[request[w].player].password = w
        /\ \A x \in registered : x.player # request[w].player

\* Without dev_auth a handler speaks for a player by the account of the player's row.
RequestsAreRegistered ==
    ~devAuth => \A w \in Worker : Speaks(w) => users[request[w].player].account = request[w].account

\* A session is of a player with an account.
SessionsNamed ==
    \A s \in SessionId : sessions[s] # NoSession =>
        sessions[s].player \in Name /\ sessions[s].account \in Name

NameInv ==
    /\ AccountsAreUnique /\ RowsAreTheirs /\ RequestsAreRegistered /\ SessionsNamed
    /\ RegistrationsLast /\ IdentitiesAreRegistered

\* A handler writes no request but its own.
LEMMA OwnRequestOnly ==
    ASSUME TypeInv, NEW w \in Worker, Handle(w)
    PROVE  /\ \A v \in Worker \ {w} : request'[v] = request[v]
           /\ devAuth' = devAuth
<1>1. request \in [Worker -> Request]
  BY DEF TypeInv, TypeOK
<1>2. \E q : request' = [request EXCEPT ![w] = q]
  BY <1>1 DEF Handle, Register, LoginAsDeveloper, FindAccount, CreateUser, CreateUserInDoubt,
     LoginWithPassword, Visit, LoginWithOldToken, ValidateToken, RefreshSession, OpenSession,
     FindProfile, FindProfileThrows, PersistLoginSession, UpsertLogin, UpsertVisitor,
     Goto, Return, Login, Issue, Confirm
<1>3. devAuth' = devAuth
  BY DEF Handle, Register, LoginAsDeveloper, FindAccount, CreateUser, CreateUserInDoubt,
     LoginWithPassword, Visit, LoginWithOldToken, ValidateToken, RefreshSession, OpenSession,
     FindProfile, FindProfileThrows, PersistLoginSession, UpsertLogin, UpsertVisitor
<1> QED
  BY <1>1, <1>2, <1>3

\* The other steps write no request, no row, no token and no registration.
LEMMA NoHandler ==
    ASSUME [Next]_vars, ~\E w \in Worker : Handle(w)
    PROVE  /\ UNCHANGED <<devAuth, users, tokens, request, registered>>
           /\ \/ UNCHANGED sessions
              \/ \E s \in SessionId : TouchSession(s) \/ CloseSession(s)
              \/ SweepExpiredSessions
BY DEF Next, vars, TimePasses, StorageBreaks, TouchSession, CloseSession, SweepExpiredSessions,
       sessionVars

\* Without dev_auth no handler writes a row for a player whose token it has.
LEMMA RowExists ==
    ASSUME TypeInv, NameInv, ~devAuth, NEW w \in Worker, Speaks(w)
    PROVE  Exists(request[w].player)
<1>1. request[w].account \in Name /\ request[w].player \in Name
  BY DEF TypeInv, Identified, Speaks, At
<1> QED
  BY <1>1, ConstantsTyped DEF NameInv, RequestsAreRegistered, Exists, NoUser

\* The ways a handler comes to a step at which it speaks for a player.
Continues(w) ==
    /\ Speaks(w)
    /\ request'[w].player = request[w].player /\ request'[w].account = request[w].account
    /\ request'[w].new = request[w].new
Creates(w) == At(w, "create") /\ Insertable(w)
    /\ users' = [users EXCEPT ![request[w].player] = NewUser(w)]
    /\ registered' = registered
Begins(w) ==
    /\ ~request'[w].new /\ UNCHANGED <<users, registered>>
    /\ ~devAuth => users[request'[w].player].account = request'[w].account

LEMMA SpeakersCome ==
    ASSUME TypeInv, NameInv, NEW w \in Worker, Handle(w), Speaks(w)'
    PROVE  \/ Continues(w)
           \/ Begins(w)
           \/ /\ Creates(w)
              /\ request'[w].player = request[w].player /\ request'[w].account = request[w].account
<1>0. request \in [Worker -> Request] /\ NoRequest.step = "idle" /\ ~NoRequest.new
  BY DEF TypeInv, TypeOK, NoRequest
<1>1. ASSUME NEW s, Goto(w, s)
      PROVE  /\ request'[w].player = request[w].player /\ request'[w].account = request[w].account
             /\ request'[w].new = request[w].new /\ request'[w].step = s
  BY <1>0, <1>1 DEF Goto, Request
<1>2. ASSUME Return(w) PROVE FALSE
  BY <1>0, <1>2 DEF Return, Speaks
<1>3. ASSUME NEW p \in Name, NEW a, NEW e, NEW b, Login(w, p, a, e, b)
      PROVE  request'[w].player = p /\ request'[w].account = a /\ ~request'[w].new
  BY <1>0, <1>3 DEF Login, NoRequest
<1>4. CASE FindAccount(w) \/ ValidateToken(w) \/ RefreshSession(w) \/ OpenSession(w)
           \/ FindProfile(w) \/ PersistLoginSession(w)
  <2>1. ASSUME FindAccount(w) PROVE FALSE
    BY <1>1, <1>2, <2>1 DEF FindAccount, Speaks
  <2>2. CASE ValidateToken(w) \/ RefreshSession(w) \/ OpenSession(w) \/ FindProfile(w)
             \/ PersistLoginSession(w)
    <3>1. Speaks(w)
      BY <2>2 DEF ValidateToken, RefreshSession, OpenSession, FindProfile, PersistLoginSession,
                  Speaks, At
    <3>2. \E s : Goto(w, s)
      BY <1>2, <2>2 DEF ValidateToken, RefreshSession, OpenSession, FindProfile,
                        PersistLoginSession, Confirm
    <3> QED
      BY <1>1, <3>1, <3>2 DEF Continues
  <2> QED
    BY <1>4, <2>1, <2>2
<1>5. CASE CreateUser(w)
  <2>1. Creates(w) /\ Issue(w)
    BY <1>2, <1>5 DEF CreateUser, Creates
  <2>2. request'[w].player = request[w].player /\ request'[w].account = request[w].account
    BY <1>0, <2>1 DEF Issue, Request
  <2> QED
    BY <2>1, <2>2
<1>6. ASSUME NEW p \in Name, LoginWithPassword(w, p) PROVE Begins(w)
  BY <1>3, <1>6 DEF LoginWithPassword, Begins
<1>7. ASSUME NEW p \in Name, NEW a \in Name, LoginAsDeveloper(w, p, a) PROVE Begins(w)
  BY <1>3, <1>7 DEF LoginAsDeveloper, Begins
<1>8. ASSUME NEW t \in tokens, LoginWithOldToken(w, t) PROVE Begins(w)
  <2>1. t.player \in Name
    BY DEF TypeInv, TypeOK, Token
  <2>2. ~devAuth => users[t.player].account = t.account
    BY DEF NameInv, IdentitiesAreRegistered
  <2>3. Login(w, t.player, t.account, t.expires, FALSE) /\ UNCHANGED <<users, registered>>
    BY <1>8 DEF LoginWithOldToken
  <2>4. request'[w].player = t.player /\ request'[w].account = t.account /\ ~request'[w].new
    BY <1>3, <2>1, <2>3
  <2> QED
    BY <2>2, <2>3, <2>4 DEF Begins
<1>9. ASSUME NEW p \in Name, Visit(w, p) \/ (\E a \in Name : Register(w, p, a)) PROVE FALSE
  BY <1>0, <1>9, ZenonT(30) DEF Register, Visit, Speaks, NoRequest
<1>10. ASSUME CreateUserInDoubt(w) \/ FindProfileThrows(w) \/ UpsertLogin(w) \/ UpsertVisitor(w)
       PROVE  FALSE
  BY <1>2, <1>10 DEF CreateUserInDoubt, FindProfileThrows, UpsertLogin, UpsertVisitor, Confirm
<1> QED
  BY <1>4, <1>5, <1>6, <1>7, <1>8, <1>9, <1>10 DEF Handle

\* The ways the table of users changes: an INSERT of a name and an account that are free, or, with
\* dev_auth, an UPDATE of the account to one that is free.
Inserts(w) == At(w, "create") /\ Insertable(w)
    /\ users' = [users EXCEPT ![request[w].player] = NewUser(w)]
Renames(p, a) == devAuth /\ Owners(a) \subseteq {p}
    /\ users' = [users EXCEPT ![p].account = a]

LEMMA RowsWritten ==
    ASSUME TypeInv, NameInv, [Next]_vars
    PROVE  \/ users' = users
           \/ \E w \in Worker : Inserts(w)
           \/ \E p \in Name, a \in Name : Renames(p, a)
<1>1. ASSUME NEW w \in Worker, CreateUser(w) \/ CreateUserInDoubt(w)
      PROVE  users' = users \/ Inserts(w)
  BY <1>1 DEF CreateUser, CreateUserInDoubt, Inserts
<1>2. ASSUME NEW w \in Worker, UpsertLogin(w) \/ UpsertVisitor(w)
      PROVE  users' = users \/ \E p \in Name, a \in Name : Renames(p, a)
  <2>1. devAuth
    BY <1>2 DEF UpsertLogin, UpsertVisitor, NameInv, IdentitiesAreRegistered
  <2>2. request[w].player \in Name
    BY <1>2 DEF UpsertLogin, UpsertVisitor, TypeInv, Identified, At
  <2>3. CASE UpsertLogin(w)
    <3>1. request[w].account \in Name
      BY <2>3 DEF UpsertLogin, TypeInv, Identified, At
    <3> QED
      BY <2>1, <2>2, <2>3, <3>1 DEF UpsertLogin, UpsertUser, Renames
  <2>4. CASE UpsertVisitor(w)
    BY <2>1, <2>2, <2>4 DEF UpsertVisitor, UpsertUser, Renames
  <2> QED
    BY <1>2, <2>3, <2>4
<1>3. ASSUME NEW w \in Worker, Handle(w), ~CreateUser(w), ~CreateUserInDoubt(w),
             ~UpsertLogin(w), ~UpsertVisitor(w)
      PROVE  users' = users
  BY <1>3 DEF Handle, Register, LoginAsDeveloper, FindAccount,
     LoginWithPassword, Visit, LoginWithOldToken, ValidateToken, RefreshSession, OpenSession,
     FindProfile, FindProfileThrows, PersistLoginSession
<1> QED
  BY <1>1, <1>2, <1>3, NoHandler

\* Rows last: the accounts stay unique, a password is never replaced, and neither is, without
\* dev_auth, an account.
LEMMA RowsLast ==
    ASSUME TypeInv, NameInv, [Next]_vars
    PROVE  /\ AccountsAreUnique'
           /\ \A p \in Name : users[p].password # NoOne => users'[p].password = users[p].password
           /\ ~devAuth => \A p \in Name : users[p].account # NoOne
                                => users'[p].account = users[p].account
<1>0. users \in [Name -> User] /\ AccountsAreUnique
  BY DEF TypeInv, TypeOK, NameInv
<1>1. CASE users' = users
  BY <1>0, <1>1 DEF AccountsAreUnique
<1>2. ASSUME NEW w \in Worker, Inserts(w)
      PROVE  /\ AccountsAreUnique'
             /\ \A p \in Name : users[p] # NoUser => users'[p] = users[p]
  <2>1. PICK n : n = request[w].player
    OBVIOUS
  <2>2. n \in Name /\ users[n] = NoUser /\ users' = [users EXCEPT ![n] = NewUser(w)]
    BY <1>2, <2>1 DEF Inserts, Insertable, Exists, TypeInv, Identified, At
  <2>3. \A p \in Name : users[p].account # NewUser(w).account
    BY <1>2 DEF Inserts, Insertable, Owners, NewUser
  <2>4. users'[n] = NewUser(w) /\ \A p \in Name \ {n} : users'[p] = users[p]
    BY <1>0, <2>2
  <2>5. AccountsAreUnique'
    BY <1>0, <2>3, <2>4 DEF AccountsAreUnique
  <2> QED
    BY <2>2, <2>4, <2>5
<1>3. ASSUME NEW n \in Name, NEW a \in Name, Renames(n, a)
      PROVE  /\ AccountsAreUnique' /\ devAuth
             /\ \A p \in Name : users'[p].password = users[p].password
  <2>1. \A p \in Name \ {n} : users'[p] = users[p] /\ users[p].account # a
    BY <1>0, <1>3 DEF Renames, Owners
  <2>2. users'[n].account = a /\ users'[n].password = users[n].password
    BY <1>0, <1>3 DEF Renames, User
  <2> QED
    BY <1>0, <1>3, <2>1, <2>2 DEF AccountsAreUnique, Renames
<1>4. NoUser.password = NoOne /\ NoUser.account = NoOne
  BY DEF NoUser
<1> QED
  BY <1>0, <1>1, <1>2, <1>3, <1>4, RowsWritten

\* Tokens and registrations come from confirmations only.
LEMMA RepliesWritten ==
    ASSUME [Next]_vars
    PROVE  \/ UNCHANGED <<tokens, registered>>
           \/ \E w \in Worker : Handle(w) /\ Speaks(w) /\ Confirm(w)
<1>1. ASSUME NEW w \in Worker, PersistLoginSession(w) \/ UpsertLogin(w)
      PROVE  UNCHANGED <<tokens, registered>> \/ (Handle(w) /\ Speaks(w) /\ Confirm(w))
  BY <1>1 DEF PersistLoginSession, UpsertLogin, Handle, Speaks, At
<1>2. ASSUME NEW w \in Worker, Handle(w), ~PersistLoginSession(w), ~UpsertLogin(w)
      PROVE  UNCHANGED <<tokens, registered>>
  BY <1>2 DEF Handle, Register, LoginAsDeveloper, FindAccount, CreateUser, CreateUserInDoubt,
     LoginWithPassword, Visit, LoginWithOldToken, ValidateToken, RefreshSession, OpenSession,
     FindProfile, FindProfileThrows, UpsertVisitor
<1> QED
  BY <1>1, <1>2, NoHandler

\* A session that is there was there, for the same player and account, or was opened by a handler
\* that speaks for its player.
LEMMA SessionsWritten ==
    ASSUME TypeInv, [Next]_vars, NEW s \in SessionId, sessions'[s] # NoSession
    PROVE  \/ /\ sessions[s] # NoSession /\ sessions'[s].player = sessions[s].player
              /\ sessions'[s].account = sessions[s].account
           \/ \E w \in Worker : Speaks(w) /\ sessions'[s] = Opened(w)
<1>0. sessions \in [SessionId -> Session]
  BY DEF TypeInv, TypeOK
<1>1. ASSUME NEW w \in Worker, RefreshSession(w) \/ OpenSession(w)
      PROVE  sessions'[s] = sessions[s] \/ (Speaks(w) /\ sessions'[s] = Opened(w))
  BY <1>0, <1>1 DEF RefreshSession, OpenSession, Speaks, At
<1>2. ASSUME NEW w \in Worker, Handle(w), ~RefreshSession(w), ~OpenSession(w)
      PROVE  sessions' = sessions
  BY <1>2 DEF Handle, Register, LoginAsDeveloper, FindAccount, CreateUser, CreateUserInDoubt,
     LoginWithPassword, Visit, LoginWithOldToken, ValidateToken,
     FindProfile, FindProfileThrows, PersistLoginSession, UpsertLogin, UpsertVisitor, sessionVars
<1>3. ASSUME NEW r \in SessionId, TouchSession(r) \/ CloseSession(r)
      PROVE  /\ sessions[s] # NoSession /\ sessions'[s].player = sessions[s].player
             /\ sessions'[s].account = sessions[s].account
  BY <1>0, <1>3 DEF TouchSession, CloseSession, Session
<1>4. ASSUME SweepExpiredSessions
      PROVE  sessions'[s] = sessions[s]
  BY <1>4 DEF SweepExpiredSessions
<1> QED
  BY <1>1, <1>2, <1>3, <1>4, NoHandler

\* Without dev_auth whoever has a token has a row, so no handler goes to write one.
LEMMA NoUpserts ==
    ASSUME TypeInv, NameInv, ~devAuth, NEW w \in Worker, Handle(w)
    PROVE  ~At(w, "upsert")' /\ ~At(w, "visit")'
<1>0. request \in [Worker -> Request] /\ NoRequest.step = "idle"
  BY DEF TypeInv, TypeOK, NoRequest
<1>1. ~At(w, "upsert") /\ ~At(w, "visit")
  BY DEF NameInv, IdentitiesAreRegistered
<1>2. ASSUME NEW s \in Steps \ {"upsert", "visit"}, Goto(w, s)
      PROVE  ~At(w, "upsert")' /\ ~At(w, "visit")'
  BY <1>0, <1>2 DEF Goto, At, Request
<1>3. ASSUME Return(w) PROVE ~At(w, "upsert")' /\ ~At(w, "visit")'
  BY <1>0, <1>3 DEF Return, At
<1>4. ASSUME (\E p, a, e, b : Login(w, p, a, e, b)) \/ (At(w, "create") /\ Issue(w))
      PROVE  ~At(w, "upsert")' /\ ~At(w, "visit")'
  <2>1. ASSUME NEW p, NEW a, NEW e, NEW b, Login(w, p, a, e, b) PROVE request'[w].step = "validate"
    BY <1>0, <2>1 DEF Login, NoRequest
  <2>2. ASSUME Issue(w) PROVE request'[w].step = "validate"
    BY <1>0, <2>2 DEF Issue, Request
  <2> QED
    BY <1>4, <2>1, <2>2 DEF At
<1>5. CASE FindAccount(w) \/ ValidateToken(w) \/ RefreshSession(w) \/ OpenSession(w) \/ FindProfile(w)
  BY <1>2, <1>3, <1>5 DEF FindAccount, ValidateToken, RefreshSession, OpenSession, FindProfile,
                          AfterSession, Steps
<1>6. CASE CreateUser(w) \/ CreateUserInDoubt(w) \/ FindProfileThrows(w) \/ UpsertLogin(w)
           \/ UpsertVisitor(w)
  BY <1>3, <1>4, <1>6 DEF CreateUser, CreateUserInDoubt, FindProfileThrows, UpsertLogin,
                          UpsertVisitor, Confirm
<1>7. ASSUME NEW p \in Name, LoginWithPassword(w, p) PROVE ~At(w, "upsert")' /\ ~At(w, "visit")'
  BY <1>4, <1>7 DEF LoginWithPassword
<1>8. ASSUME NEW p \in Name, NEW a \in Name, LoginAsDeveloper(w, p, a) PROVE FALSE
  BY <1>8 DEF LoginAsDeveloper
<1>9. ASSUME NEW t \in tokens, LoginWithOldToken(w, t) PROVE ~At(w, "upsert")' /\ ~At(w, "visit")'
  BY <1>4, <1>9 DEF LoginWithOldToken
<1>10. ASSUME NEW p \in Name, NEW a \in Name, Register(w, p, a)
       PROVE  ~At(w, "upsert")' /\ ~At(w, "visit")'
  BY <1>0, <1>10 DEF Register, At, NoRequest
<1>11. ASSUME NEW p \in Name, Visit(w, p) PROVE FALSE
  <2>1. PICK t \in tokens : t.player = p
    BY <1>11 DEF Visit, Resolves
  <2>2. t.account \in Name /\ users[p].account = t.account
    BY <2>1 DEF TypeInv, TypeOK, Token, NameInv, IdentitiesAreRegistered
  <2> QED
    BY <1>11, <2>2, ConstantsTyped DEF Visit, Exists, NoUser
<1>12. CASE PersistLoginSession(w)
  <2>1. Exists(request[w].player)
    BY <1>12, RowExists DEF PersistLoginSession, Speaks, At
  <2>2. Return(w)
    BY <1>12, <2>1 DEF PersistLoginSession, Confirm
  <2> QED
    BY <1>3, <2>2
<1> QED
  BY <1>5, <1>6, <1>7, <1>8, <1>9, <1>10, <1>11, <1>12 DEF Handle

\* Each part of NameInv outlasts a step.
LEMMA RowsAreTheirsStep ==
    ASSUME TypeInv, NameInv, [Next]_vars, NEW w \in Worker, Speaks(w)', request'[w].new
    PROVE  /\ users'[request'[w].player].password = w
           /\ \A x \in registered' : x.player # request'[w].player
<1>0. /\ request[w].step # "idle" => request[w].player \in Name
      /\ w # NoOne /\ users \in [Name -> User] /\ request \in [Worker -> Request]
  BY NoOneIsNoName DEF TypeInv, TypeOK, Identified, At
<1>1. ASSUME Continues(w)
      PROVE  /\ users'[request'[w].player].password = w
             /\ \A x \in registered : x.player # request'[w].player
             /\ request'[w].player = request[w].player /\ request[w].player \in Name
  <2>1. /\ users[request[w].player].password = w /\ request'[w].player = request[w].player
        /\ \A x \in registered : x.player # request[w].player /\ request[w].player \in Name
    BY <1>0, <1>1 DEF Continues, NameInv, RowsAreTheirs, Speaks
  <2>2. request[w].player \in Name
    BY <1>0, <1>1 DEF Continues, Speaks
  <2> QED
    BY <1>0, <2>1, <2>2, RowsLast
<1>2. ASSUME Continues(w), NEW v \in Worker \ {w}, Speaks(v), Confirm(v)
      PROVE  \A x \in registered' : x.player # request'[w].player
  <2>1. CASE ~request[v].new
    BY <1>1, <1>2, <2>1 DEF Confirm
  <2>2. CASE request[v].new
    <3>1. users[request[v].player].password = v /\ users[request[w].player].password = w
      BY <1>2, <2>2 DEF Continues, NameInv, RowsAreTheirs
    <3>2. request[v].player # request'[w].player
      BY <1>1, <1>2, <3>1
    <3> QED
      BY <1>1, <1>2, <3>2 DEF Confirm
  <2> QED
    BY <2>1, <2>2
<1>3. ASSUME Continues(w), ~Confirm(w) \/ ~Handle(w)
      PROVE  \A x \in registered' : x.player # request'[w].player
  <2>1. CASE registered' = registered
    BY <1>1, <1>3, <2>1
  <2>2. CASE \E v \in Worker : Handle(v) /\ Speaks(v) /\ Confirm(v)
    BY <1>2, <1>3, <2>2
  <2> QED
    BY <2>1, <2>2, RepliesWritten
<1>4. CASE Handle(w)
  <2>1. ~Confirm(w)
    BY <1>0, <1>4 DEF Confirm, Return, Speaks, NoRequest
  <2>2. CASE Continues(w)
    BY <1>1, <1>3, <2>1, <2>2
  <2>3. CASE Creates(w) /\ request'[w].player = request[w].player
    <3>1. request[w].player \in Name /\ users[request[w].player] = NoUser
      BY <1>0, <2>3 DEF Creates, Insertable, Exists, At
    <3>2. users'[request[w].player].password = w
      BY <1>0, <2>3, <3>1 DEF Creates, NewUser
    <3>3. \A x \in registered : x.player # request[w].player
      <4> SUFFICES ASSUME NEW x \in registered, x.player = request[w].player PROVE FALSE
        OBVIOUS
      <4>1. users[x.player].password = x.password /\ x.password \in Worker
        BY DEF NameInv, RegistrationsLast, TypeInv, TypeOK
      <4> QED
        BY <3>1, <4>1, NoOneIsNoName DEF NoUser
    <3> QED
      BY <2>3, <3>2, <3>3 DEF Creates
  <2> QED
    BY <1>4, <2>2, <2>3, SpeakersCome DEF Begins
<1>5. CASE ~Handle(w)
  <2>1. request'[w] = request[w]
    BY <1>5, OwnRequestOnly, NoHandler
  <2>2. Continues(w)
    BY <2>1 DEF Continues, Speaks
  <2> QED
    BY <1>1, <1>3, <1>5, <2>2
<1> QED
  BY <1>4, <1>5

LEMMA RequestsStep ==
    ASSUME TypeInv, NameInv, [Next]_vars, ~devAuth, NEW w \in Worker, Speaks(w)'
    PROVE  users'[request'[w].player].account = request'[w].account
<1>1. CASE Continues(w)
  <2>1. /\ users[request[w].player].account = request[w].account
        /\ request[w].player \in Name /\ request[w].account \in Name
    BY <1>1 DEF Continues, NameInv, RequestsAreRegistered, TypeInv, Identified, Speaks, At
  <2> QED
    BY <1>1, <2>1, RowsLast, ConstantsTyped DEF Continues
<1>2. CASE /\ Creates(w) /\ request'[w].player = request[w].player
           /\ request'[w].account = request[w].account
  <2>1. request[w].player \in Name /\ users \in [Name -> User]
    BY <1>2 DEF Creates, TypeInv, TypeOK, Identified, At
  <2> QED
    BY <1>2, <2>1 DEF Creates, NewUser
<1>3. CASE Begins(w)
  BY <1>3 DEF Begins
<1>4. CASE Handle(w)
  BY <1>1, <1>2, <1>3, <1>4, SpeakersCome
<1>5. CASE ~Handle(w)
  <2>1. request'[w] = request[w]
    BY <1>5, OwnRequestOnly, NoHandler
  <2> QED
    BY <1>1, <2>1 DEF Continues, Speaks
<1> QED
  BY <1>4, <1>5

\* What was confirmed lasts, and what is confirmed now was confirmed to nobody else.
LEMMA RegistrationsStep ==
    ASSUME TypeInv, NameInv, [Next]_vars
    PROVE  RegistrationsLast'
<1>0. /\ devAuth' = devAuth
      /\ registered \subseteq [player: Name, account: Name, password: Worker]
  BY OwnRequestOnly, NoHandler DEF TypeInv, TypeOK
<1>1. ASSUME NEW x \in registered
      PROVE  /\ users'[x.player].password = x.password
             /\ ~devAuth => users'[x.player].account = x.account
  <2>1. /\ users[x.player].password = x.password /\ x.password # NoOne
        /\ ~devAuth => users[x.player].account = x.account
        /\ x.player \in Name /\ x.account # NoOne
    BY <1>0, NoOneIsNoName DEF NameInv, RegistrationsLast
  <2> QED
    BY <2>1, RowsLast
<1>2. CASE registered' = registered
  BY <1>0, <1>1, <1>2 DEF NameInv, RegistrationsLast, OneRegistrationPerName
<1>3. ASSUME NEW w \in Worker, Handle(w), Speaks(w), Confirm(w), registered' # registered
      PROVE  RegistrationsLast'
  <2> DEFINE y == [player |-> request[w].player, account |-> request[w].account, password |-> w]
  <2>1. registered' = registered \cup {y} /\ request[w].new
    BY <1>3 DEF Confirm
  <2>2. /\ y.player = request[w].player /\ y.account = request[w].account /\ y.password = w
        /\ y.player \in Name /\ y.account \in Name
    BY <1>3 DEF TypeInv, Identified, Speaks, At
  <2>3. /\ users[y.player].password = w /\ w # NoOne
        /\ \A x \in registered : x.player # y.player
        /\ ~devAuth => users[y.player].account = y.account
    BY <1>3, <2>1, NoOneIsNoName DEF NameInv, RowsAreTheirs, RequestsAreRegistered
  <2> HIDE DEF y
  <2>4. /\ users'[y.player].password = y.password
        /\ ~devAuth => users'[y.player].account = y.account
    BY <2>2, <2>3, RowsLast, ConstantsTyped
  <2>5. ASSUME ~devAuth, NEW x \in registered PROVE x.account # y.account
    <3>1. users[x.player].account = x.account /\ x.player \in Name
      BY <1>0, <2>5 DEF NameInv, RegistrationsLast
    <3> QED
      BY <2>2, <2>3, <2>5, <3>1, ConstantsTyped DEF NameInv, AccountsAreUnique
  <2>6. OneRegistrationPerName'
    <3> SUFFICES ASSUME NEW x \in registered', NEW z \in registered',
                        x.player = z.player \/ (~devAuth /\ x.account = z.account)
                 PROVE  x = z
      BY <1>0 DEF OneRegistrationPerName
    <3>1. CASE x \in registered /\ z \in registered
      BY <3>1 DEF NameInv, RegistrationsLast, OneRegistrationPerName
    <3>2. CASE x = y \/ z = y
      BY <2>1, <2>3, <2>5, <3>2
    <3> QED
      BY <2>1, <3>1, <3>2
  <2> QED
    BY <1>0, <1>1, <2>1, <2>4, <2>6 DEF RegistrationsLast
<1> QED
  BY <1>2, <1>3, RepliesWritten

\* Tokens and sessions come from handlers that speak for a player by the account of its row.
LEMMA IdentitiesStep ==
    ASSUME TypeInv, NameInv, [Next]_vars
    PROVE  IdentitiesAreRegistered'
<1>0. devAuth' = devAuth
  BY OwnRequestOnly, NoHandler
<1> SUFFICES ASSUME ~devAuth
             PROVE  /\ \A t \in tokens' : users'[t.player].account = t.account
                    /\ \A s \in SessionId : sessions'[s] # NoSession =>
                            users'[sessions'[s].player].account = sessions'[s].account
                    /\ \A w \in Worker : ~At(w, "upsert")' /\ ~At(w, "visit")'
  BY <1>0 DEF IdentitiesAreRegistered
<1>1. ASSUME NEW p \in Name, NEW a \in Name, users[p].account = a
      PROVE  users'[p].account = a
  BY <1>1, RowsLast, ConstantsTyped
<1>2. ASSUME NEW w \in Worker, Speaks(w)
      PROVE  /\ request[w].player \in Name /\ request[w].account \in Name
             /\ users[request[w].player].account = request[w].account
  BY <1>2 DEF NameInv, RequestsAreRegistered, TypeInv, Identified, Speaks, At
<1>3. ASSUME NEW t \in tokens'
      PROVE  users'[t.player].account = t.account
  <2>1. CASE t \in tokens
    BY <1>1, <2>1 DEF NameInv, IdentitiesAreRegistered, TypeInv, TypeOK, Token
  <2>2. CASE t \notin tokens
    <3>1. PICK w \in Worker : Speaks(w) /\ Confirm(w)
      BY <1>3, <2>2, RepliesWritten
    <3>2. t.player = request[w].player /\ t.account = request[w].account
      BY <1>3, <2>2, <3>1 DEF Confirm
    <3> QED
      BY <1>1, <1>2, <3>1, <3>2
  <2> QED
    BY <2>1, <2>2
<1>4. ASSUME NEW s \in SessionId, sessions'[s] # NoSession
      PROVE  users'[sessions'[s].player].account = sessions'[s].account
  <2>1. CASE \E w \in Worker : Speaks(w) /\ sessions'[s] = Opened(w)
    BY <1>1, <1>2, <2>1 DEF Opened
  <2>2. CASE /\ sessions[s] # NoSession /\ sessions'[s].player = sessions[s].player
             /\ sessions'[s].account = sessions[s].account
    <3>1. users[sessions[s].player].account = sessions[s].account
      BY <2>2 DEF NameInv, IdentitiesAreRegistered
    <3>2. sessions[s].player \in Name /\ sessions[s].account \in Name
      BY <2>2 DEF NameInv, SessionsNamed
    <3> QED
      BY <1>1, <2>2, <3>1, <3>2
  <2> QED
    BY <1>4, <2>1, <2>2, SessionsWritten
<1>5. ASSUME NEW w \in Worker PROVE ~At(w, "upsert")' /\ ~At(w, "visit")'
  <2>1. CASE Handle(w)
    BY <2>1, NoUpserts
  <2>2. CASE ~Handle(w)
    <3>1. request'[w] = request[w]
      BY <2>2, OwnRequestOnly, NoHandler
    <3> QED
      BY <3>1 DEF NameInv, IdentitiesAreRegistered, At
  <2> QED
    BY <2>1, <2>2
<1> QED
  BY <1>3, <1>4, <1>5

LEMMA SessionsNamedStep ==
    ASSUME TypeInv, NameInv, [Next]_vars, NEW s \in SessionId, sessions'[s] # NoSession
    PROVE  sessions'[s].player \in Name /\ sessions'[s].account \in Name
<1>1. CASE \E w \in Worker : Speaks(w) /\ sessions'[s] = Opened(w)
  BY <1>1 DEF Opened, TypeInv, Identified, Speaks, At
<1>2. CASE /\ sessions[s] # NoSession /\ sessions'[s].player = sessions[s].player
           /\ sessions'[s].account = sessions[s].account
  BY <1>2 DEF NameInv, SessionsNamed
<1> QED
  BY <1>1, <1>2, SessionsWritten

LEMMA NameInit == Init => NameInv
BY DEF Init, NameInv, AccountsAreUnique, RowsAreTheirs, RequestsAreRegistered, RegistrationsLast,
       SessionsNamed, OneRegistrationPerName, IdentitiesAreRegistered, NoUser, NoRequest, Speaks, At

LEMMA NameStep == TypeInv /\ NameInv /\ [Next]_vars => NameInv'
<1> SUFFICES ASSUME TypeInv, NameInv, [Next]_vars PROVE NameInv'
  OBVIOUS
<1>1. devAuth' = devAuth
  BY OwnRequestOnly, NoHandler
<1>2. RowsAreTheirs'
  BY RowsAreTheirsStep DEF RowsAreTheirs
<1>3. RequestsAreRegistered'
  BY <1>1, RequestsStep DEF RequestsAreRegistered
<1>4. SessionsNamed'
  BY SessionsNamedStep DEF SessionsNamed
<1> QED
  BY <1>2, <1>3, <1>4, RowsLast, RegistrationsStep, IdentitiesStep DEF NameInv

\* Two clients never both register a name, and what a client was told lasts: registerUser, which
\* looks long before it writes, and upsertUser, which writes on every login.
THEOREM RegistrationsStay == Spec => []RegistrationsLast
<1>1. NameInv => RegistrationsLast
  BY DEF NameInv
<1> QED
  BY <1>1, TypeInit, TypeStep, NameInit, NameStep, PTL DEF Spec

\* Without dev_auth every token and session is of a player with a row, by the account of that row,
\* and persistLoginSession and the visits write no rows.
THEOREM IdentitiesHaveRows == Spec => []IdentitiesAreRegistered
<1>1. NameInv => IdentitiesAreRegistered
  BY DEF NameInv
<1> QED
  BY <1>1, TypeInit, TypeStep, NameInit, NameStep, PTL DEF Spec

==============================================================================
