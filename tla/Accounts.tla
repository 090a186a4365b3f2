------------------------------- MODULE Accounts --------------------------------
(***************************************************************************)
(* Who players are: rcs::auth::SessionAuthService with its table of        *)
(* sessions, and the handlers of AuthController (register, login) that go  *)
(* with it, on top of the table rcs_users.                                 *)
(*                                                                         *)
(* A handler hops between the storage's mutex and the service's, so it is  *)
(* a sequence of steps and other workers move in between.  A request that  *)
(* is refused before it has an effect is a stuttering step.                *)
(*                                                                         *)
(* Abstractions: a JWT is its claims, and only issueToken makes one; a     *)
(* password and its bcrypt hash are the client that chose it; both clocks  *)
(* of the code are one; connection ids, profile texts, the constant status *)
(* and the write-only login and event logs are left out.  PostgreSQL is    *)
(* external: rows with a primary key and a unique account, a connection    *)
(* that may break for good (nothing in the server connects again).         *)
(***************************************************************************)
EXTENDS Integers, FiniteSets

CONSTANTS
    Name,           \* player ids and accounts: the one defaults to the other
    Worker,         \* HTTP worker threads, each serving a client of its own
    NoOne,          \* the empty string
    TokenTtl,       \* token_ttl
    IdleTimeout,    \* session_idle_timeout
    MaxClock,       \* bound on the clock
    MaxSessions,    \* bound on the sessions ever opened
    MaxRequests     \* bound on the requests ever served

ASSUME NoOneIsNoName == NoOne \notin Name \cup Worker
ASSUME TimesNatural == 
    {TokenTtl, IdleTimeout, MaxClock, MaxSessions, MaxRequests} \subseteq Nat

VARIABLES
    clock,
    devAuth,         \* config.allow_dev_auth, fixed at startup
    storageUp,       \* isConnected()
    users,           \* rcs_users by player_id
    tokens,          \* the tokens clients were given
    nextSessionId,   \* next_session_id_
    sessions,        \* sessions_
    playerSessions,  \* player_sessions_
    request,         \* the handler each worker runs
    served,          \* requests so far, for the bound
    registered       \* history: the registrations that were confirmed

vars == <<clock, devAuth, storageUp, users, tokens, nextSessionId, sessions,
          playerSessions, request, served, registered>>
sessionVars == <<nextSessionId, sessions, playerSessions>>

SessionId == 1..MaxSessions
Time      == 0..(MaxClock + TokenTtl)

User   == [account: Name \cup {NoOne}, password: Worker \cup {NoOne}]
NoUser == [account |-> NoOne, password |-> NoOne]

Session   == [player: Name \cup {NoOne}, account: Name \cup {NoOne}, seen: Time, expires: Time]
NoSession == [player |-> NoOne, account |-> NoOne, seen |-> 0, expires |-> 0]

Token == [player: Name, account: Name, expires: Time]

Steps == {"idle", "account", "create", "validate", "session", "profile", "persist",
          "upsert", "visit"}

\* new: the request is a registration; password: there is one in the request.
Request == [step: Steps, player: Name \cup {NoOne}, account: Name \cup {NoOne},
            expires: Time, new: BOOLEAN, password: BOOLEAN]

NoRequest == [step |-> "idle", player |-> NoOne, account |-> NoOne, expires |-> 0,
              new |-> FALSE, password |-> FALSE]

At(w, step) == request[w].step = step

Goto(w, step) == request' = [request EXCEPT ![w].step = step]

\* The handler returns an error, or an exception unwinds it to the HTTP session's catch.
Return(w) == request' = [request EXCEPT ![w] = NoRequest]

\* A free worker takes the next request.
Begin(w) ==
    /\ At(w, "idle")
    /\ served < MaxRequests
    /\ served' = served + 1

Owners(a) == {p \in Name : users[p].account = a}

Exists(p) == users[p] # NoUser

------------------------------------------------------------------------------
Init ==
    /\ clock = 0
    /\ devAuth \in BOOLEAN
    /\ storageUp = TRUE
    /\ users = [p \in Name |-> NoUser]
    /\ tokens = {}
    /\ nextSessionId = 1
    /\ sessions = [s \in SessionId |-> NoSession]
    /\ playerSessions = [p \in Name |-> 0]
    /\ request = [w \in Worker |-> NoRequest]
    /\ served = 0
    /\ registered = {}

TimePasses ==
    /\ clock < MaxClock
    /\ clock' = clock + 1
    /\ UNCHANGED <<devAuth, storageUp, users, tokens, sessionVars, served, request, registered>>

StorageBreaks ==
    /\ storageUp
    /\ storageUp' = FALSE
    /\ UNCHANGED <<clock, devAuth, users, tokens, sessionVars, served, request, registered>>

------------------------------------------------------------------------------
(* registerUser, up to the new row *)

\* The storage gate and findUser.
Register(w, p, a) ==
    /\ Begin(w)
    /\ storageUp
    /\ ~Exists(p)
    /\ request' = [request EXCEPT ![w] = [NoRequest EXCEPT
                      !.step = "account", !.player = p, !.account = a,
                      !.new = TRUE, !.password = TRUE]]
    /\ UNCHANGED <<clock, devAuth, storageUp, users, tokens, sessionVars, registered>>

FindAccount(w) ==
    /\ At(w, "account")
    /\ IF storageUp /\ Owners(request[w].account) = {} THEN Goto(w, "create") ELSE Return(w)
    /\ UNCHANGED <<clock, devAuth, storageUp, users, tokens, sessionVars, served, registered>>

\* issueToken(), with which every handler goes on to loginWithToken().
Issue(w) == request' = [request EXCEPT ![w].step = "validate", ![w].expires = clock + TokenTtl]

NewUser(w) == [account |-> request[w].account, password |-> w]

Insertable(w) == ~Exists(request[w].player) /\ Owners(request[w].account) = {}

\* One INSERT: the primary key and the unique account decide between two requests.
CreateUser(w) ==
    /\ At(w, "create")
    /\ IF storageUp /\ Insertable(w)
       THEN /\ users' = [users EXCEPT ![request[w].player] = NewUser(w)]
            /\ Issue(w)
       ELSE UNCHANGED users /\ Return(w)
    /\ UNCHANGED <<clock, devAuth, storageUp, tokens, sessionVars, served, registered>>

\* The connection goes during the commit: the row is there, the handler reports failure.
CreateUserInDoubt(w) ==
    /\ At(w, "create")
    /\ storageUp
    /\ Insertable(w)
    /\ users' = [users EXCEPT ![request[w].player] = NewUser(w)]
    /\ storageUp' = FALSE
    /\ Return(w)
    /\ UNCHANGED <<clock, devAuth, tokens, sessionVars, served, registered>>

------------------------------------------------------------------------------
(* login, up to the token *)

Login(w, p, a, expires, password) ==
    request' = [request EXCEPT ![w] = [NoRequest EXCEPT
                   !.step = "validate", !.player = p, !.account = a,
                   !.expires = expires, !.password = password]]

\* findUserByAccount and verifyPasswordBcrypt; a row without a hash matches no password.
LoginWithPassword(w, p) ==
    /\ Begin(w)
    /\ storageUp
    /\ users[p].password # NoOne
    /\ Login(w, p, users[p].account, clock + TokenTtl, TRUE)
    /\ UNCHANGED <<clock, devAuth, storageUp, users, tokens, sessionVars, registered>>

\* Mutant: the switch is ignored.
LoginAsDeveloperAlways(w, p, a) ==
    /\ Begin(w)
    /\ Login(w, p, a, clock + TokenTtl, FALSE)
    /\ UNCHANGED <<clock, devAuth, storageUp, users, tokens, sessionVars, registered>>

LoginAsDeveloper(w, p, a) ==
    /\ Begin(w)
    /\ devAuth
    /\ Login(w, p, a, clock + TokenTtl, FALSE)
    /\ UNCHANGED <<clock, devAuth, storageUp, users, tokens, sessionVars, registered>>

LoginWithOldToken(w, t) ==
    /\ Begin(w)
    /\ Login(w, t.player, t.account, t.expires, FALSE)
    /\ UNCHANGED <<clock, devAuth, storageUp, users, tokens, sessionVars, registered>>

------------------------------------------------------------------------------
(* loginWithToken and the rest of both handlers *)

\* validateToken() takes no lock: the session is written in a later step.
ValidateToken(w) ==
    /\ At(w, "validate")
    /\ IF clock <= request[w].expires THEN Goto(w, "session") ELSE Return(w)
    /\ UNCHANGED <<clock, devAuth, storageUp, users, tokens, sessionVars, served, registered>>

\* A password login knows the profile already, as does a registration.
AfterSession(w) == IF request[w].password THEN "persist" ELSE "profile"

\* Mutant: a login extends the token.
OpenedForLonger(w) == [player |-> request[w].player, account |-> request[w].account,
                       seen |-> clock, expires |-> request[w].expires + TokenTtl]

Opened(w) == [player |-> request[w].player, account |-> request[w].account,
              seen |-> clock, expires |-> request[w].expires]

RefreshSession(w) ==
    /\ At(w, "session")
    /\ playerSessions[request[w].player] # 0
    /\ sessions' = [sessions EXCEPT ![playerSessions[request[w].player]] = Opened(w)]
    /\ Goto(w, AfterSession(w))
    /\ UNCHANGED <<clock, devAuth, storageUp, users, tokens, nextSessionId, playerSessions,
                   served, registered>>

OpenSession(w) ==
    LET p == request[w].player
    IN /\ At(w, "session")
       /\ playerSessions[p] = 0
       /\ nextSessionId \in SessionId
       /\ nextSessionId' = nextSessionId + 1
       /\ sessions' = [sessions EXCEPT ![nextSessionId] = Opened(w)]
       /\ playerSessions' = [playerSessions EXCEPT ![p] = nextSessionId]
       /\ Goto(w, AfterSession(w))
       /\ UNCHANGED <<clock, devAuth, storageUp, users, tokens, served, registered>>

\* findUser for the display name, if isConnected.
FindProfile(w) ==
    /\ At(w, "profile")
    /\ Goto(w, "persist")
    /\ UNCHANGED <<clock, devAuth, storageUp, users, tokens, sessionVars, served, registered>>

\* The connection goes between isConnected and findUser, which throws: the session
\* stays, the client gets an error instead of its token.
FindProfileThrows(w) ==
    /\ At(w, "profile")
    /\ storageUp
    /\ storageUp' = FALSE
    /\ Return(w)
    /\ UNCHANGED <<clock, devAuth, users, tokens, sessionVars, served, registered>>

\* The reply of both handlers: the client has its token, whatever was persisted.
Confirm(w) ==
    /\ tokens' = tokens \cup {[player |-> request[w].player, account |-> request[w].account,
                               expires |-> request[w].expires]}
    /\ registered' = IF request[w].new
                     THEN registered \cup {[player |-> request[w].player,
                                            account |-> request[w].account, password |-> w]}
                     ELSE registered
    /\ Return(w)

\* persistLoginSession: isConnected and findUser; only an unknown player is written.
PersistLoginSession(w) ==
    /\ At(w, "persist")
    /\ IF storageUp /\ ~Exists(request[w].player)
       THEN Goto(w, "upsert") /\ UNCHANGED <<tokens, registered>>
       ELSE Confirm(w)
    /\ UNCHANGED <<clock, devAuth, storageUp, users, sessionVars, served>>

\* Mutant: the update takes over the empty hash as well.
UpsertUserAndHash(p, a) ==
    IF storageUp /\ Owners(a) \subseteq {p}
    THEN users' = [users EXCEPT ![p] = [account |-> a, password |-> NoOne]]
    ELSE UNCHANGED users

\* upsertUser with an empty hash: on conflict the account is replaced, the hash stays.
UpsertUser(p, a) ==
    IF storageUp /\ Owners(a) \subseteq {p}
    THEN users' = [users EXCEPT ![p].account = a]
    ELSE UNCHANGED users

UpsertLogin(w) ==
    /\ At(w, "upsert")
    /\ UpsertUser(request[w].player, request[w].account)
    /\ Confirm(w)
    /\ UNCHANGED <<clock, devAuth, storageUp, sessionVars, served>>

------------------------------------------------------------------------------
(* Other handlers, and the rest of SessionAuthService *)

\* resolvePlayer: a valid token, or the bare player id where that is allowed.
Resolves(p) ==
    devAuth \/ \E t \in tokens : t.player = p /\ clock <= t.expires

\* persistRoomEvent (and saveStartEvent): findUser, and upsertUser of an unknown player.
Visit(w, p) ==
    /\ Begin(w)
    /\ Resolves(p)
    /\ storageUp
    /\ ~Exists(p)
    /\ request' = [request EXCEPT ![w] = [NoRequest EXCEPT !.step = "visit", !.player = p]]
    /\ UNCHANGED <<clock, devAuth, storageUp, users, tokens, sessionVars, registered>>

UpsertVisitor(w) ==
    /\ At(w, "visit")
    /\ UpsertUser(request[w].player, request[w].player)
    /\ Return(w)
    /\ UNCHANGED <<clock, devAuth, storageUp, tokens, sessionVars, served, registered>>

TouchSession(s) ==
    /\ sessions[s] # NoSession
    /\ sessions' = [sessions EXCEPT ![s].seen = clock]
    /\ UNCHANGED <<clock, devAuth, storageUp, users, tokens, nextSessionId, playerSessions,
                   served, request, registered>>

\* Mutant: the index keeps the closed session.
CloseSessionKeepsIndex(s) ==
    /\ sessions[s] # NoSession
    /\ sessions' = [sessions EXCEPT ![s] = NoSession]
    /\ UNCHANGED <<clock, devAuth, storageUp, users, tokens, nextSessionId, playerSessions,
                   served, request, registered>>

CloseSession(s) ==
    /\ sessions[s] # NoSession
    /\ sessions' = [sessions EXCEPT ![s] = NoSession]
    /\ playerSessions' = [playerSessions EXCEPT ![sessions[s].player] = 0]
    /\ UNCHANGED <<clock, devAuth, storageUp, users, tokens, nextSessionId, served,
                   request, registered>>

IsSessionExpired(s) ==
    /\ sessions[s] # NoSession
    /\ clock - sessions[s].seen > IdleTimeout \/ clock >= sessions[s].expires

SweepExpiredSessions ==
    /\ sessions' = [s \in SessionId |-> IF IsSessionExpired(s) THEN NoSession ELSE sessions[s]]
    /\ playerSessions' = [p \in Name |->
            IF \E s \in SessionId : IsSessionExpired(s) /\ sessions[s].player = p
            THEN 0 ELSE playerSessions[p]]
    /\ UNCHANGED <<clock, devAuth, storageUp, users, tokens, nextSessionId, served,
                   request, registered>>

------------------------------------------------------------------------------
Handle(w) ==
    \/ \E p, a \in Name : Register(w, p, a) \/ LoginAsDeveloper(w, p, a)
    \/ FindAccount(w)
    \/ CreateUser(w)
    \/ CreateUserInDoubt(w)
    \/ \E p \in Name : LoginWithPassword(w, p) \/ Visit(w, p)
    \/ \E t \in tokens : LoginWithOldToken(w, t)
    \/ ValidateToken(w)
    \/ RefreshSession(w)
    \/ OpenSession(w)
    \/ FindProfile(w)
    \/ FindProfileThrows(w)
    \/ PersistLoginSession(w)
    \/ UpsertLogin(w)
    \/ UpsertVisitor(w)

Next ==
    \/ TimePasses
    \/ StorageBreaks
    \/ \E w \in Worker : Handle(w)
    \/ \E s \in SessionId : TouchSession(s) \/ CloseSession(s)
    \/ SweepExpiredSessions

Spec == Init /\ [][Next]_vars

------------------------------------------------------------------------------
\* The shapes of the service's and the handlers' state.
TypeOK ==
    /\ clock \in 0..MaxClock
    /\ devAuth \in BOOLEAN
    /\ storageUp \in BOOLEAN
    /\ users \in [Name -> User]
    /\ tokens \subseteq Token
    /\ nextSessionId \in 1..(MaxSessions + 1)
    /\ sessions \in [SessionId -> Session]
    /\ playerSessions \in [Name -> SessionId \cup {0}]
    /\ request \in [Worker -> Request]
    /\ served \in 0..MaxRequests
    /\ registered \subseteq [player: Name, account: Name, password: Worker]

\* sessions_ and player_sessions_ are one relation: a player has at most one session,
\* and upsertSession's sessions_.at(), which would throw, always finds it.
SessionIndexAgrees ==
    /\ \A s \in SessionId : sessions[s] # NoSession =>
            /\ sessions[s].player \in Name
            /\ playerSessions[sessions[s].player] = s
    /\ \A p \in Name : playerSessions[p] # 0 => sessions[playerSessions[p]].player = p

\* Two clients are never both told that they registered the same player, nor, unless dev_auth
\* let a third rename the account, the same account, although registerUser looks long before
\* it writes.
OneRegistrationPerName ==
    \A x, y \in registered :
        x.player = y.player \/ (~devAuth /\ x.account = y.account) => x = y

\* What was confirmed lasts, and to one client per name: the row keeps its password (upsertUser's
\* CASE) and, without dev_auth, its account, so that the client can log in with them.
RegistrationsLast ==
    /\ OneRegistrationPerName
    /\ \A x \in registered :
        /\ users[x.player].password = x.password
        /\ ~devAuth => users[x.player].account = x.account

\* Without dev_auth tokens and sessions speak only of players who have a row, by the
\* account of that row; handlers that look for the player's row always find it.
IdentitiesAreRegistered ==
    ~devAuth =>
        /\ \A t \in tokens : users[t.player].account = t.account
        /\ \A s \in SessionId : sessions[s] # NoSession =>
                users[sessions[s].player].account = sessions[s].account
        /\ \A w \in Worker : ~At(w, "upsert") /\ ~At(w, "visit")
==============================================================================
