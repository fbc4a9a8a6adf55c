---------------------------- MODULE OidcSessions ----------------------------
(***************************************************************************)
(* Browser logins and sessions of the broker, foundry-circle/src/auth.rs.  *)
(*                                                                         *)
(* A login is a row of oidc_transactions, written when it starts and       *)
(* consumed by the callback; a callback that completes writes the claims   *)
(* of the principal and a session and answers with the session's cookie.   *)
(* The handlers run concurrently: each await is a step, at which the       *)
(* database or the identity provider may fail, another handler may run, or *)
(* the client (or the broker) may go away.  The same callback may be sent  *)
(* any number of times.                                                    *)
(*                                                                         *)
(* PKCE, the nonce and the token exchange are the OIDC client's and        *)
(* external: the exchange answers with somebody's verified identity or     *)
(* fails.  PostgreSQL is external: row locks, atomic commits, and commits  *)
(* whose acknowledgement is lost.                                          *)
(***************************************************************************)
EXTENDS Integers

CONSTANTS
    Browsers,     \* user agents, each with a cookie jar
    Handlers,     \* requests the broker can serve at once
    Logins,       \* values of the OIDC state parameter
    Tokens,       \* session tokens
    Subjects,     \* people the identity provider knows
    Groups,       \* groups a groups claim may list
    AccessGroup,  \* the group that may use Foundry Circle
    LoginLife,    \* ten minutes: the life of a login transaction
    SessionTtl,   \* the configured life of a session
    IdTokenLives, \* lives of the identity provider's ID tokens
    MaxTime,      \* bound on the clock
    None          \* no row, no cookie, no time

ASSUME AccessIsAGroup == AccessGroup \in Groups
ASSUME TimesAreNaturals ==
    /\ {LoginLife, SessionTtl, MaxTime} \subseteq Nat
    /\ IdTokenLives \subseteq Nat
ASSUME NoneIsNew == None \notin Int \cup Tokens \cup Logins \cup Handlers \cup Browsers \cup Subjects

VARIABLES
    now,           \* the clock
    pool,          \* whether DatabaseState publishes a pool
    idp,           \* each subject's groups at the identity provider
    transactions,  \* oidc_transactions: the expiry of each stored login
    issued,        \* state values drawn so far
    rowLock,       \* the handler that holds the row lock of a login
    principals,    \* principals: the groups stored for each subject
    sessions,      \* sessions: the row of each token
    cookies,       \* the session cookie of each browser
    request        \* what each handler is doing

vars == <<now, pool, idp, transactions, issued, rowLock, principals, sessions, cookies, request>>

Idle == [at |-> "idle", browser |-> None, login |-> None, row |-> None, subject |-> None,
         groups |-> {}, idExpires |-> None, expires |-> None, token |-> None]

Times == Nat

\* A row of sessions; login and idExpires are history: the login the session
\* came from and the expiry of its ID token.
SessionRow == [subject : Subjects, expires : Times, revoked : BOOLEAN,
               login : Logins, idExpires : Times \cup {None}]
ASSUME NoneIsNoRow == None \notin SessionRow

Stored(t) == sessions[t] # None

\* What session_principal and require_session admit.
Live(t)   == Stored(t) /\ ~sessions[t].revoked /\ sessions[t].expires > now
Admits(t) == Live(t) /\ AccessGroup \in principals[sessions[t].subject]

-----------------------------------------------------------------------------
Init ==
    /\ now = 0
    /\ pool \in BOOLEAN
    /\ idp \in [Subjects -> SUBSET Groups]
    /\ transactions = [l \in Logins |-> None]
    /\ issued = {}
    /\ rowLock = [l \in Logins |-> None]
    /\ principals = [u \in Subjects |-> None]
    /\ sessions = [t \in Tokens |-> None]
    /\ cookies = [b \in Browsers |-> None]
    /\ request = [h \in Handlers |-> Idle]

\* The rows of the database, and everything that is not a handler's own.
database == <<transactions, issued, rowLock, principals, sessions>>
world    == <<now, pool, idp>>

Goto(h, l) == request' = [request EXCEPT ![h].at = l]

\* The operators that a comment calls a mutant are not the code: each is a
\* plausible mistake in the definition below it, which a property must notice.

\* The handler answers; nothing it held survives it, an open database
\* transaction is rolled back and its row lock freed (mutant: it is left open).
LeaveLocked(h) == UNCHANGED rowLock
Unlock(h) == rowLock' = [l \in Logins |-> IF rowLock[l] = h THEN None ELSE rowLock[l]]
Answer(h) == request' = [request EXCEPT ![h] = Idle] /\ Unlock(h)

LoginExpiry == now + LoginLife

\* login_start: draw a state, store the transaction, redirect the browser.
LoginStart(l) ==
    /\ pool
    /\ l \notin issued
    /\ issued' = issued \cup {l}
    /\ transactions' = [transactions EXCEPT ![l] = LoginExpiry]
    /\ UNCHANGED <<world, rowLock, principals, sessions, cookies, request>>

\* oidc_callback is entered, with any state, the first time or again.
CallbackStart(h, b, l) ==
    /\ request[h] = Idle
    /\ pool
    /\ request' = [request EXCEPT ![h] = [Idle EXCEPT !.at = "select", !.browser = b, !.login = l]]
    /\ UNCHANGED <<world, database, cookies>>

\* SELECT ... FOR UPDATE waits for the row; no row is a replay or a stranger
\* (mutant: a plain SELECT).
CanRead(l) == TRUE
CanLock(l) == rowLock[l] = None
SelectForUpdate(h) ==
    /\ request[h].at = "select"
    /\ LET l == request[h].login
       IN  /\ CanLock(l)
           /\ \/ /\ transactions[l] = None
                 /\ Answer(h)
              \/ /\ transactions[l] # None
                 /\ rowLock' = [rowLock EXCEPT ![l] = h]
                 /\ request' = [request EXCEPT ![h].at = "delete", ![h].row = transactions[l]]
    /\ UNCHANGED <<world, transactions, issued, principals, sessions, cookies>>

\* DELETE and COMMIT.
DeleteRow(h) ==
    /\ transactions' = [transactions EXCEPT ![request[h].login] = None]
    /\ Unlock(h)
    /\ UNCHANGED <<world, issued, principals, sessions, cookies>>

ConsumeLogin(h) == request[h].at = "delete" /\ DeleteRow(h) /\ Goto(h, "expiry")

\* The commit is done but its acknowledgement is lost: 500, the login is gone.
ConsumeUnacknowledged(h) ==
    /\ request[h].at = "delete"
    /\ DeleteRow(h)
    /\ request' = [request EXCEPT ![h] = Idle]

\* The expiry is compared only after the row is gone.
CheckExpiry(h) ==
    /\ request[h].at = "expiry"
    /\ \/ request[h].row <= now /\ Answer(h)
       \/ request[h].row > now /\ Goto(h, "complete") /\ UNCHANGED rowLock
    /\ UNCHANGED <<world, transactions, issued, principals, sessions, cookies>>

\* The code is exchanged: a verified identity, with the groups of this moment
\* and an ID token that is still valid or states no expiry.
Complete(h, u, exp) ==
    /\ request[h].at = "complete"
    /\ request' = [request EXCEPT ![h].at = "authorize", ![h].subject = u,
                                  ![h].groups = idp[u], ![h].idExpires = exp]
    /\ UNCHANGED <<world, database, cookies>>

\* The session ends with the ID token or the configured life, if that is earlier.
\* (mutant: if that is later).
LaterExpiry(exp) ==
    IF exp # None /\ exp > now + SessionTtl THEN exp ELSE now + SessionTtl
SessionExpiry(exp) ==
    IF exp # None /\ exp < now + SessionTtl THEN exp ELSE now + SessionTtl

\* The access group is checked before anything is stored (mutant: only later).
HasIdentity(groups) == TRUE
HasAccess(groups) == AccessGroup \in groups
Refuse(h) ==
    /\ request[h].at = "authorize"
    /\ ~HasAccess(request[h].groups)
    /\ Answer(h)
    /\ UNCHANGED <<world, transactions, issued, principals, sessions, cookies>>

\* A token is random, so it is nobody's.
Fresh(t) == ~Stored(t) /\ \A g \in Handlers : request[g].token # t

\* A token is drawn and the expiry computed.
Authorize(h, t) ==
    /\ request[h].at = "authorize"
    /\ HasAccess(request[h].groups)
    /\ Fresh(t)
    /\ request' = [request EXCEPT ![h].at = "save", ![h].token = t,
                                  ![h].expires = SessionExpiry(request[h].idExpires)]
    /\ UNCHANGED <<world, database, cookies>>

\* One database transaction: the claims of the principal, whatever they were,
\* and the session.
StoreSession(h) ==
    LET r == request[h]
    IN  /\ principals' = [principals EXCEPT ![r.subject] = r.groups]
        /\ sessions' = [sessions EXCEPT ![r.token] =
               [subject |-> r.subject, expires |-> r.expires, revoked |-> FALSE,
                login |-> r.login, idExpires |-> r.idExpires]]
        /\ UNCHANGED <<world, transactions, issued, cookies>>

\* (mutant: the reply is sent while the rows are still being written.)
ReplyWithoutSaving(h) ==
    /\ request[h].at = "save" /\ Goto(h, "respond")
    /\ UNCHANGED <<world, database, cookies>>
SaveSession(h) ==
    request[h].at = "save" /\ StoreSession(h) /\ Goto(h, "respond") /\ UNCHANGED rowLock

SaveUnacknowledged(h) == request[h].at = "save" /\ StoreSession(h) /\ Answer(h)

\* The reply reaches the browser, which keeps the cookie.
Respond(h) ==
    /\ request[h].at = "respond"
    /\ cookies' = [cookies EXCEPT ![request[h].browser] = request[h].token]
    /\ Answer(h)
    /\ UNCHANGED <<world, transactions, issued, principals, sessions>>

\* logout, with a pool: without one it answers 204 and does nothing.
LogoutStart(h, b) ==
    /\ request[h] = Idle
    /\ pool
    /\ request' = [request EXCEPT ![h] = [Idle EXCEPT !.at = "revoke", !.browser = b,
                                                      !.token = cookies[b]]]
    /\ UNCHANGED <<world, database, cookies>>

\* UPDATE sessions; an error is only logged.
RevokedBy(h) ==
    [t \in Tokens |-> IF t = request[h].token /\ Stored(t)
                      THEN [sessions[t] EXCEPT !.revoked = TRUE] ELSE sessions[t]]
Revoke(h) ==
    /\ request[h].at = "revoke"
    /\ sessions' \in {RevokedBy(h), sessions}
    /\ Goto(h, "clear")
    /\ UNCHANGED <<world, transactions, issued, rowLock, principals, cookies>>

\* The reply expires whatever cookie the browser has by then.
ClearCookie(h) ==
    /\ request[h].at = "clear"
    /\ cookies' = [cookies EXCEPT ![request[h].browser] = None]
    /\ Answer(h)
    /\ UNCHANGED <<world, transactions, issued, principals, sessions>>

\* Any await may fail, and the client or the broker may go away at any await.
Fail(h) ==
    /\ request[h].at # "idle"
    /\ Answer(h)
    /\ UNCHANGED <<world, transactions, issued, principals, sessions, cookies>>

-----------------------------------------------------------------------------
(* The environment: the clock, the database supervisor, the identity        *)
(* provider, the browser's own expiry of the cookie.                        *)

Tick == now < MaxTime /\ now' = now + 1 /\ UNCHANGED <<pool, idp, database, cookies, request>>

PoolChanges == pool' = ~pool /\ UNCHANGED <<now, idp, database, cookies, request>>

GroupsChange(u) ==
    /\ idp' \in {[idp EXCEPT ![u] = g] : g \in SUBSET Groups}
    /\ UNCHANGED <<now, pool, database, cookies, request>>

CookieExpires(b) ==
    /\ cookies[b] # None
    /\ cookies' = [cookies EXCEPT ![b] = None]
    /\ UNCHANGED <<world, database, request>>

\* The steps a request takes if nothing fails under it.
Advance(h) ==
    \/ SelectForUpdate(h) \/ ConsumeLogin(h) \/ ConsumeUnacknowledged(h) \/ CheckExpiry(h)
    \/ \E u \in Subjects, exp \in {now + d : d \in IdTokenLives} \cup {None} : Complete(h, u, exp)
    \/ Refuse(h) \/ \E t \in Tokens : Authorize(h, t)
    \/ SaveSession(h) \/ SaveUnacknowledged(h) \/ Respond(h)
    \/ Revoke(h) \/ ClearCookie(h)

Step(h) == Advance(h) \/ Fail(h)

Next ==
    \/ \E l \in Logins : LoginStart(l)
    \/ \E h \in Handlers, b \in Browsers :
          LogoutStart(h, b) \/ \E l \in Logins : CallbackStart(h, b, l)
    \/ \E h \in Handlers : Step(h)
    \/ Tick \/ PoolChanges
    \/ \E u \in Subjects : GroupsChange(u)
    \/ \E b \in Browsers : CookieExpires(b)

\* The runtime polls every handler, the database and the identity provider
\* answer, waiters for a row lock are served in turn; nobody has to fail.
Fairness == \A h \in Handlers : WF_vars(Advance(h)) /\ SF_vars(SelectForUpdate(h))

Spec == Init /\ [][Next]_vars /\ Fairness

-----------------------------------------------------------------------------
(* Properties.                                                              *)

Places == {"idle", "select", "delete", "expiry", "complete", "authorize", "save", "respond",
           "revoke", "clear"}

\* The type invariant: every variable holds what its declaration says.
TypeOK ==
    /\ now \in 0..MaxTime
    /\ pool \in BOOLEAN
    /\ idp \in [Subjects -> SUBSET Groups]
    /\ transactions \in [Logins -> Times \cup {None}]
    /\ issued \subseteq Logins
    /\ rowLock \in [Logins -> Handlers \cup {None}]
    /\ principals \in [Subjects -> (SUBSET Groups) \cup {None}]
    /\ sessions \in [Tokens -> SessionRow \cup {None}]
    /\ cookies \in [Browsers -> Tokens \cup {None}]
    /\ request \in [Handlers ->
          [at : Places, browser : Browsers \cup {None}, login : Logins \cup {None},
           row : Times \cup {None}, subject : Subjects \cup {None}, groups : SUBSET Groups,
           idExpires : Times \cup {None}, expires : Times \cup {None},
           token : Tokens \cup {None}]]

\* A login opens at most one session, however often and however concurrently
\* its callback is delivered, and whichever step of it fails: "invalid or
\* replayed login flow" (SELECT ... FOR UPDATE, DELETE, COMMIT of take_transaction).
OneSessionPerLogin ==
    \A t, u \in Tokens :
        Stored(t) /\ Stored(u) /\ sessions[t].login = sessions[u].login => t = u

\* A session that is over stays over: revoked by a logout or expired, no later
\* login, claim change or retry makes its token admit anybody again.
DeadSessionsStayDead ==
    [][\A t \in Tokens : Stored(t) /\ ~Live(t) => Stored(t)' /\ ~Live(t)']_vars

\* A session never outlives the ID token it came from, nor the configured life.
SessionsEndInTime ==
    \A t \in Tokens : Stored(t) =>
        /\ sessions[t].idExpires # None => sessions[t].expires <= sessions[t].idExpires
        /\ sessions[t].expires <= now + SessionTtl

\* A browser's cookie names a stored session: it is sent after the commit.
CookiesNameSessions == \A b \in Browsers : cookies[b] # None => Stored(cookies[b])

\* Everybody the database knows had access at their latest stored login: a
\* refused login stores nothing.  So a live session is always admitted, and with
\* an unchanged access group require_session never answers "access is no longer
\* provisioned" and the console never shows its Denied view.
LiveSessionsAreAdmitted == \A t \in Tokens : Live(t) => Admits(t)

\* Every request is answered, also one that waits for another's row lock.
RequestsEnd == \A h \in Handlers : request[h].at # "idle" ~> request[h].at = "idle"

-----------------------------------------------------------------------------
(* The tables and requests implement LoginService.                          *)

\* The requests that have consumed login l and not yet answered or stored, and
\* those of them that know who logs in, a person with access.
Consumed     == {"expiry", "complete", "authorize", "save"}
Consumers(l) == {h \in Handlers : request[h].at \in Consumed /\ request[h].login = l}
Admitting(l) == {h \in Consumers(l) : request[h].at \in {"authorize", "save"}
                                         /\ AccessGroup \in request[h].groups}

provisioned == {u \in Subjects : AccessGroup \in idp[u]}

stage == [l \in Logins |->
    CASE l \notin issued -> "new"
      [] l \in issued /\ transactions[l] # None -> "offered"
      [] OTHER -> IF Consumers(l) # {} THEN "taken" ELSE "over"]

admitted == [l \in Logins |-> {request[h].subject : h \in Admitting(l)}]

owner == [t \in Tokens |->
    [is |-> IF ~Stored(t) THEN "none" ELSE IF Live(t) THEN "live" ELSE "over",
     subject |-> IF Stored(t) THEN sessions[t].subject ELSE None,
     login |-> IF Stored(t) THEN sessions[t].login ELSE None]]

Service == INSTANCE LoginService
             WITH provisioned <- provisioned, stage <- stage, admitted <- admitted, owner <- owner

\* Every step of the handlers is one that the abstract service may take: however
\* callbacks are replayed, interleaved and cut off, a login opens one session at
\* most, for the person whose code was exchanged and who had access then, and no
\* session changes its owner or comes back to life.
ImplementsLoginService == Service!Spec
=============================================================================
