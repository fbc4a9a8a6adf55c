------------------------- MODULE OidcSessionsProofs -------------------------
(* Theorems about OidcSessions, for every number of requests, logins, people *)
(* and tokens and every length of the lives.                                *)
EXTENDS OidcSessions, TLAPS

\* A row lock is held exactly by the request that is deleting the row.
LockOwner ==
    \A h \in Handlers, l \in Logins :
        rowLock[l] = h <=> request[h].at = "delete" /\ request[h].login = l

\* A stored login has been consumed by nobody.
StoredIsUnused ==
    \A l \in Logins : transactions[l] # None =>
        /\ l \in issued
        /\ \A h \in Handlers : request[h].at \in Consumed => request[h].login # l
        /\ \A t \in Tokens : Stored(t) => sessions[t].login # l

\* A request that deletes a login finds it there, and it is the only one that
\* consumes it; a login with a session is consumed by nobody any more.
ConsumedOnce ==
    /\ \A h \in Handlers : request[h].at = "delete" => transactions[request[h].login] # None
    /\ \A g, h \in Handlers :
          /\ request[g].at \in Consumed /\ request[h].at \in Consumed
          /\ request[g].login = request[h].login
          => g = h
    /\ \A h \in Handlers, t \in Tokens :
          request[h].at \in Consumed /\ Stored(t) => sessions[t].login # request[h].login

\* What a request has read or computed when it gets to a place: the state it was
\* sent, and the login is one that was issued once it has been consumed.
Filled ==
    \A h \in Handlers :
        /\ request[h].at \in Consumed \cup {"select", "delete"} => request[h].login \in Logins
        /\ request[h].at \in Consumed => request[h].login \in issued
        /\ request[h].at \in {"delete", "expiry"} => request[h].row \in Times
        /\ request[h].at \in {"authorize", "save"} => request[h].subject \in Subjects
        /\ request[h].at = "save" =>
              /\ request[h].token \in Tokens
              /\ request[h].expires \in Times
              /\ AccessGroup \in request[h].groups
              /\ request[h].idExpires # None => request[h].expires <= request[h].idExpires
              /\ request[h].expires <= now + SessionTtl
        /\ request[h].at = "respond" => request[h].token \in Tokens /\ Stored(request[h].token)

\* The token of a request that is about to store a session is no session's and
\* no other such request's.
TokensAreFresh ==
    \A h \in Handlers : request[h].at = "save" =>
        /\ ~Stored(request[h].token)
        /\ \A g \in Handlers :
              request[g].at = "save" /\ request[g].token = request[h].token => g = h

\* The login a session came from was issued.
IssuedSessions == \A t \in Tokens : Stored(t) => sessions[t].login \in issued

\* Whoever has a session had access when the claims were stored.
Provisioned ==
    \A t \in Tokens : Stored(t) =>
        /\ principals[sessions[t].subject] \in SUBSET Groups
        /\ AccessGroup \in principals[sessions[t].subject]

IInv ==
    /\ TypeOK /\ LockOwner /\ StoredIsUnused /\ ConsumedOnce /\ Filled /\ TokensAreFresh
    /\ OneSessionPerLogin /\ SessionsEndInTime /\ CookiesNameSessions /\ Provisioned
    /\ IssuedSessions

-----------------------------------------------------------------------------
Request == [at : Places, browser : Browsers \cup {None}, login : Logins \cup {None},
            row : Times \cup {None}, subject : Subjects \cup {None}, groups : SUBSET Groups,
            idExpires : Times \cup {None}, expires : Times \cup {None},
            token : Tokens \cup {None}]

\* The initial states satisfy the invariant.
LEMMA InitIInv == Init => IInv
<1> SUFFICES ASSUME Init PROVE IInv
  OBVIOUS
<1> USE DEF Init
<1>1. Idle \in Request /\ Idle.at = "idle"
  BY DEF Idle, Request, Places
<1>2. TypeOK
  BY <1>1, TimesAreNaturals DEF TypeOK, Request
<1>3. LockOwner /\ StoredIsUnused /\ ConsumedOnce /\ Filled /\ TokensAreFresh
  BY <1>1, NoneIsNew DEF LockOwner, StoredIsUnused, ConsumedOnce, Filled, TokensAreFresh, Consumed
<1>4. OneSessionPerLogin /\ SessionsEndInTime /\ CookiesNameSessions /\ Provisioned /\ IssuedSessions
  BY DEF OneSessionPerLogin, SessionsEndInTime, CookiesNameSessions, Provisioned, IssuedSessions,
         Stored
<1> QED
  BY <1>2, <1>3, <1>4 DEF IInv

\* A request that answers: its row lock is freed, the tables stay.
LEMMA AnswerStep ==
    ASSUME IInv, NEW h \in Handlers, Answer(h),
           UNCHANGED <<world, transactions, issued, principals, sessions>>,
           cookies' \in [Browsers -> Tokens \cup {None}],
           \A b \in Browsers : cookies'[b] # None => Stored(cookies'[b])
    PROVE  IInv'
<1> USE DEF IInv, Answer, Unlock, world
<1>1. Idle \in Request /\ Idle.at = "idle"
  BY DEF Idle, Request, Places
<1>2. TypeOK'
  BY <1>1 DEF TypeOK, Request
<1>3. request'[h] = Idle /\ \A g \in Handlers \ {h} : request'[g] = request[g]
  BY DEF TypeOK
<1>4. LockOwner'
  BY <1>1, <1>3, NoneIsNew DEF TypeOK, LockOwner
<1>5. StoredIsUnused' /\ ConsumedOnce'
  BY <1>1, <1>3 DEF StoredIsUnused, ConsumedOnce, Consumed, Stored
<1>6. Filled' /\ TokensAreFresh'
  BY <1>1, <1>3 DEF Filled, TokensAreFresh, Consumed, Stored
<1>7. OneSessionPerLogin' /\ SessionsEndInTime' /\ CookiesNameSessions' /\ Provisioned'
      /\ IssuedSessions'
  BY DEF OneSessionPerLogin, SessionsEndInTime, CookiesNameSessions, Provisioned,
         IssuedSessions, Stored
<1> QED
  BY <1>2, <1>4, <1>5, <1>6, <1>7

\* A step that changes one request and nothing else; the new request is given.
LEMMA RequestStep ==
    ASSUME IInv, NEW h \in Handlers, NEW r \in Request,
           request' = [request EXCEPT ![h] = r],
           UNCHANGED <<world, database, cookies>>,
           r.at # "delete", request[h].at # "delete",
           r.at \in Consumed => request[h].at \in Consumed /\ r.login = request[h].login,
           r.at = "select" => r.login \in Logins,
           r.at = "expiry" => r.row \in Times,
           r.at \in {"authorize", "save"} => r.subject \in Subjects,
           r.at = "save" =>
              /\ r.token \in Tokens /\ Fresh(r.token)
              /\ r.expires \in Times /\ AccessGroup \in r.groups
              /\ r.idExpires # None => r.expires <= r.idExpires
              /\ r.expires <= now + SessionTtl,
           r.at # "respond"
    PROVE  IInv'
<1> USE DEF IInv, world, database
<1>1. TypeOK'
  BY DEF TypeOK, Request
<1>2. request'[h] = r /\ \A g \in Handlers \ {h} : request'[g] = request[g]
  BY DEF TypeOK
<1>3. LockOwner'
  BY <1>2 DEF LockOwner
<1>4. StoredIsUnused' /\ ConsumedOnce'
  BY <1>2 DEF StoredIsUnused, ConsumedOnce, Consumed, Stored
<1>5. Filled'
  BY <1>2 DEF Filled, Consumed, Stored
<1>6. TokensAreFresh'
  BY <1>2 DEF TokensAreFresh, Fresh, Stored
<1>7. OneSessionPerLogin' /\ SessionsEndInTime' /\ CookiesNameSessions' /\ Provisioned'
      /\ IssuedSessions'
  BY DEF OneSessionPerLogin, SessionsEndInTime, CookiesNameSessions, Provisioned,
         IssuedSessions, Stored
<1> QED
  BY <1>1, <1>3, <1>4, <1>5, <1>6, <1>7

-----------------------------------------------------------------------------
(* One lemma per action, or per group of actions with the same effect.      *)

LEMMA LoginStartStep ==
    ASSUME IInv, NEW l \in Logins, LoginStart(l)
    PROVE  IInv'
<1> USE DEF IInv, LoginStart, world
<1>1. LoginExpiry \in Times
  BY TimesAreNaturals DEF LoginExpiry, Times, TypeOK
<1>2. TypeOK'
  BY <1>1 DEF TypeOK
<1>3. /\ \A h \in Handlers : request[h].at \in Consumed => request[h].login # l
      /\ \A h \in Handlers : request[h].at = "delete" /\ request[h].login = l => FALSE
  BY DEF Filled, ConsumedOnce, StoredIsUnused
<1>4. LockOwner' /\ Filled' /\ TokensAreFresh'
  BY DEF LockOwner, Filled, TokensAreFresh, Stored
<1>5. \A t \in Tokens : Stored(t) => sessions[t].login \in issued
  BY DEF IssuedSessions
<1>6. StoredIsUnused' /\ ConsumedOnce'
  BY <1>1, <1>3, <1>5, NoneIsNew DEF TypeOK, StoredIsUnused, ConsumedOnce, Stored, Times
<1>7. OneSessionPerLogin' /\ SessionsEndInTime' /\ CookiesNameSessions' /\ Provisioned'
  BY DEF OneSessionPerLogin, SessionsEndInTime, CookiesNameSessions, Provisioned, Stored
<1>8. IssuedSessions'
  BY DEF IssuedSessions, Stored
<1> QED
  BY <1>2, <1>4, <1>6, <1>7, <1>8

\* Everything a failure, a refusal or a reply does is to answer.
LEMMA AnsweringSteps ==
    ASSUME IInv, NEW h \in Handlers, Refuse(h) \/ Fail(h) \/ Respond(h) \/ ClearCookie(h)
    PROVE  IInv'
<1>1. CASE Refuse(h) \/ Fail(h)
  BY <1>1, AnswerStep DEF Refuse, Fail, IInv, TypeOK, CookiesNameSessions
<1>2. CASE Respond(h)
  <2>1. request[h].token \in Tokens /\ Stored(request[h].token)
    BY <1>2 DEF Respond, IInv, Filled
  <2>2. /\ cookies' \in [Browsers -> Tokens \cup {None}]
        /\ \A b \in Browsers : cookies'[b] # None => Stored(cookies'[b])
    BY <1>2, <2>1 DEF Respond, IInv, TypeOK, CookiesNameSessions
  <2> QED
    BY <1>2, <2>2, AnswerStep DEF Respond
<1>3. CASE ClearCookie(h)
  BY <1>3, AnswerStep DEF ClearCookie, IInv, TypeOK, CookiesNameSessions
<1> QED
  BY <1>1, <1>2, <1>3

\* Steps that only change what a request is doing.
LEMMA CallbackStartStep ==
    ASSUME IInv, NEW h \in Handlers, NEW b \in Browsers, NEW l \in Logins, CallbackStart(h, b, l)
    PROVE  IInv'
<1> DEFINE r == [Idle EXCEPT !.at = "select", !.browser = b, !.login = l]
<1>1. r \in Request /\ r.at = "select" /\ r.login = l
  BY DEF Idle, Request, Places
<1>2. request[h].at = "idle"
  BY DEF CallbackStart, Idle
<1> HIDE DEF r
<1> QED
  BY <1>1, <1>2, RequestStep DEF CallbackStart, r, Consumed

LEMMA LogoutStartStep ==
    ASSUME IInv, NEW h \in Handlers, NEW b \in Browsers, LogoutStart(h, b)
    PROVE  IInv'
<1> DEFINE r == [Idle EXCEPT !.at = "revoke", !.browser = b, !.token = cookies[b]]
<1>1. r \in Request /\ r.at = "revoke"
  BY DEF Idle, Request, Places, IInv, TypeOK
<1>2. request[h].at = "idle"
  BY DEF LogoutStart, Idle
<1> HIDE DEF r
<1> QED
  BY <1>1, <1>2, RequestStep DEF LogoutStart, r, Consumed

LEMMA CompleteStep ==
    ASSUME IInv, NEW h \in Handlers, NEW u \in Subjects, NEW exp \in Times \cup {None},
           Complete(h, u, exp)
    PROVE  IInv'
<1> DEFINE r == [request[h] EXCEPT !.at = "authorize", !.subject = u, !.groups = idp[u],
                                   !.idExpires = exp]
<1>0. request[h] \in Request
  BY DEF IInv, TypeOK, Request
<1>1. r \in Request /\ r.at = "authorize" /\ r.login = request[h].login /\ r.subject = u
  BY <1>0 DEF Request, Places, IInv, TypeOK
<1>2. request' = [request EXCEPT ![h] = r]
  BY <1>0 DEF Complete, Request
<1> HIDE DEF r
<1> QED
  BY <1>1, <1>2, RequestStep DEF Complete, Consumed

LEMMA CheckExpiryStep ==
    ASSUME IInv, NEW h \in Handlers, CheckExpiry(h)
    PROVE  IInv'
<1>1. CASE Answer(h)
  BY <1>1, AnswerStep DEF CheckExpiry, IInv, TypeOK, CookiesNameSessions
<1>2. CASE Goto(h, "complete") /\ UNCHANGED rowLock
  <2> DEFINE r == [request[h] EXCEPT !.at = "complete"]
  <2>0. request[h] \in Request
    BY DEF IInv, TypeOK, Request
  <2>1. r \in Request /\ r.at = "complete" /\ r.login = request[h].login
    BY <2>0 DEF Request, Places
  <2>2. request' = [request EXCEPT ![h] = r]
    BY <1>2, <2>0 DEF Goto, Request
  <2> HIDE DEF r
  <2> QED
    BY <1>2, <2>1, <2>2, RequestStep DEF CheckExpiry, Consumed, database
<1> QED
  BY <1>1, <1>2 DEF CheckExpiry

\* The expiry of a session is a time, and no later than it may be.
LEMMA SessionExpiryBounds ==
    ASSUME TypeOK, NEW exp \in Times \cup {None}
    PROVE  /\ SessionExpiry(exp) \in Times
           /\ exp # None => SessionExpiry(exp) <= exp
           /\ SessionExpiry(exp) <= now + SessionTtl
BY TimesAreNaturals, NoneIsNew DEF SessionExpiry, TypeOK, Times

LEMMA AuthorizeStep ==
    ASSUME IInv, NEW h \in Handlers, NEW t \in Tokens, Authorize(h, t)
    PROVE  IInv'
<1> DEFINE e == SessionExpiry(request[h].idExpires)
           r == [request[h] EXCEPT !.at = "save", !.token = t, !.expires = e]
<1>0. request[h] \in Request
  BY DEF IInv, TypeOK, Request
<1>1. /\ e \in Times /\ e <= now + SessionTtl
      /\ request[h].idExpires # None => e <= request[h].idExpires
  BY <1>0, SessionExpiryBounds DEF IInv, Request
<1> HIDE DEF e
<1>2. /\ r \in Request /\ r.at = "save" /\ r.login = request[h].login /\ r.token = t
      /\ r.expires = e /\ r.groups = request[h].groups /\ r.idExpires = request[h].idExpires
      /\ r.subject = request[h].subject
  BY <1>0, <1>1 DEF Request, Places
<1>3. request' = [request EXCEPT ![h] = r]
  BY <1>0 DEF Authorize, Request, e
<1>4. request[h].subject \in Subjects /\ Fresh(t) /\ AccessGroup \in request[h].groups
  BY DEF Authorize, HasAccess, IInv, Filled
<1> HIDE DEF r
<1> QED
  BY <1>1, <1>2, <1>3, <1>4, RequestStep DEF Authorize, Consumed

\* SELECT ... FOR UPDATE: answers, or takes the lock of a row that is there.
LEMMA SelectStep ==
    ASSUME IInv, NEW h \in Handlers, SelectForUpdate(h)
    PROVE  IInv'
<1> DEFINE l == request[h].login
<1>1. CASE Answer(h)
  BY <1>1, AnswerStep DEF SelectForUpdate, world, IInv, TypeOK, CookiesNameSessions
<1>2. CASE /\ transactions[l] # None
           /\ rowLock' = [rowLock EXCEPT ![l] = h]
           /\ request' = [request EXCEPT ![h].at = "delete", ![h].row = transactions[l]]
  <2> USE DEF IInv
  <2> DEFINE r == [request[h] EXCEPT !.at = "delete", !.row = transactions[l]]
  <2>a. /\ request[h] \in Request /\ l \in Logins /\ rowLock[l] = None
        /\ request[h].at = "select" /\ transactions[l] \in Times
        /\ UNCHANGED <<now, pool, idp, transactions, issued, principals, sessions, cookies>>
    BY <1>2 DEF SelectForUpdate, world, Filled, TypeOK, CanLock, Request
  <2>b. /\ r \in Request /\ r.at = "delete" /\ r.login = l /\ r.row = transactions[l]
    <3> DEFINE moved == [request[h] EXCEPT !.at = "delete"]
    <3>1. moved \in Request /\ moved.at = "delete" /\ moved.login = l
      BY <2>a DEF Request, Places
    <3>2. r = [moved EXCEPT !.row = transactions[l]]
      BY <2>a DEF Request
    <3> HIDE DEF moved
    <3> QED
      BY <2>a, <3>1, <3>2 DEF Request
  <2>c. request' = [request EXCEPT ![h] = r]
    BY <1>2, <2>a DEF Request
  <2>d. rowLock' = [rowLock EXCEPT ![l] = h] /\ transactions[l] # None
    BY <1>2
  <2> HIDE DEF r, l
  <2>0. /\ l \in Logins /\ rowLock[l] = None /\ l = request[h].login
        /\ request[h].at = "select" /\ transactions[l] \in Times
    BY <2>a DEF l
  <2>1. /\ request'[h] = r /\ \A g \in Handlers \ {h} : request'[g] = request[g]
        /\ request' \in [Handlers -> Request]
    BY <2>b, <2>c DEF TypeOK, Request
  <2> USE <2>a, <2>b, <2>d
  <2>2. TypeOK'
    BY <2>0, <2>1 DEF TypeOK, Request
  <2>3. LockOwner'
    BY <2>0, <2>1, NoneIsNew DEF TypeOK, LockOwner
  <2>4. StoredIsUnused' /\ ConsumedOnce'
    BY <2>0, <2>1 DEF StoredIsUnused, ConsumedOnce, Consumed, Stored
  <2>5. Filled' /\ TokensAreFresh'
    BY <2>0, <2>1 DEF Filled, TokensAreFresh, Consumed, Stored
  <2>6. OneSessionPerLogin' /\ SessionsEndInTime' /\ CookiesNameSessions' /\ Provisioned'
    BY DEF OneSessionPerLogin, SessionsEndInTime, CookiesNameSessions, Provisioned, Stored
  <2>7. IssuedSessions'
    BY DEF IssuedSessions, Stored
  <2> QED
    BY <2>2, <2>3, <2>4, <2>5, <2>6, <2>7
<1> QED
  BY <1>1, <1>2 DEF SelectForUpdate

\* DELETE and COMMIT: the row and its lock go; the request goes on or has failed.
LEMMA ConsumeStep ==
    ASSUME IInv, NEW h \in Handlers, ConsumeLogin(h) \/ ConsumeUnacknowledged(h)
    PROVE  IInv'
<1> USE DEF IInv, DeleteRow, Unlock, world
<1> DEFINE l == request[h].login
<1>0. /\ l \in Logins /\ request[h] \in Request /\ request[h].at = "delete"
      /\ transactions[l] # None /\ DeleteRow(h)
  BY DEF Filled, TypeOK, Request, ConsumeLogin, ConsumeUnacknowledged, ConsumedOnce
<1>1. /\ request'[h] \in Request
      /\ request'[h].at \in {"idle", "expiry"}
      /\ request'[h].at = "expiry" => request'[h].login = l /\ request'[h].row = request[h].row
      /\ \A g \in Handlers \ {h} : request'[g] = request[g]
      /\ request' \in [Handlers -> Request]
  BY <1>0 DEF ConsumeLogin, ConsumeUnacknowledged, Goto, TypeOK, Request, Places, Idle
<1>2. TypeOK'
  BY <1>0, <1>1 DEF TypeOK, Request
<1>3. LockOwner'
  BY <1>0, <1>1, NoneIsNew DEF TypeOK, LockOwner
<1>4. \A k \in Logins : transactions'[k] = IF k = l THEN None ELSE transactions[k]
  BY <1>0 DEF TypeOK
<1>5. \A g \in Handlers : request[g].at = "delete" /\ request[g].login = l => g = h
  BY <1>0 DEF LockOwner
<1>6. StoredIsUnused'
  BY <1>0, <1>1, <1>4 DEF StoredIsUnused, Consumed, Stored
<1>7. ConsumedOnce'
  BY <1>0, <1>1, <1>4, <1>5 DEF StoredIsUnused, ConsumedOnce, Consumed, Stored, Filled
<1>8. l \in issued /\ request[h].row \in Times
  BY <1>0 DEF StoredIsUnused, Filled
<1>9. Filled' /\ TokensAreFresh'
  BY <1>0, <1>1, <1>8 DEF Filled, TokensAreFresh, Consumed, Stored
<1>10. OneSessionPerLogin' /\ SessionsEndInTime' /\ CookiesNameSessions' /\ Provisioned'
  BY <1>0 DEF OneSessionPerLogin, SessionsEndInTime, CookiesNameSessions, Provisioned, Stored
<1>11. IssuedSessions'
  BY <1>0 DEF IssuedSessions, Stored
<1> QED
  BY <1>2, <1>3, <1>6, <1>7, <1>9, <1>10, <1>11

\* The claims and the session are stored: a new row for a new token.
LEMMA SaveStep ==
    ASSUME IInv, NEW h \in Handlers, SaveSession(h) \/ SaveUnacknowledged(h)
    PROVE  IInv'
<1> USE DEF IInv
<1> DEFINE t == request[h].token
           row == [subject |-> request[h].subject, expires |-> request[h].expires,
                   revoked |-> FALSE, login |-> request[h].login,
                   idExpires |-> request[h].idExpires]
<1>1. /\ request[h] \in Request /\ request[h].at = "save" /\ t \in Tokens /\ ~Stored(t)
      /\ request[h].login \in Logins /\ request[h].login \in issued
      /\ request[h].subject \in Subjects /\ AccessGroup \in request[h].groups
      /\ request[h].expires \in Times /\ request[h].expires <= now + SessionTtl
      /\ request[h].idExpires # None => request[h].expires <= request[h].idExpires
  BY DEF SaveSession, SaveUnacknowledged, TypeOK, Request, Filled, TokensAreFresh, Consumed
<1>2. row \in SessionRow /\ row # None
  <2>1. row \in SessionRow
    BY <1>1 DEF SessionRow, Request
  <2> QED
    BY <2>1, NoneIsNoRow
<1>3. /\ principals' = [principals EXCEPT ![request[h].subject] = request[h].groups]
      /\ sessions' = [sessions EXCEPT ![t] = row]
      /\ UNCHANGED <<now, pool, idp, transactions, issued, cookies>>
  BY DEF SaveSession, SaveUnacknowledged, StoreSession, world
<1>4. /\ request'[h] \in Request /\ request'[h].at \in {"idle", "respond"}
      /\ request'[h].at = "respond" => request'[h].token = t
      /\ \A g \in Handlers \ {h} : request'[g] = request[g]
      /\ request' \in [Handlers -> Request]
  BY <1>1 DEF SaveSession, SaveUnacknowledged, Goto, Answer, TypeOK, Request, Places, Idle
<1>5. rowLock' = rowLock
  BY <1>1 DEF SaveSession, SaveUnacknowledged, Answer, Unlock, LockOwner, TypeOK
<1> HIDE DEF row, t
<1>6. TypeOK'
  BY <1>1, <1>2, <1>3, <1>4, <1>5 DEF TypeOK, Request
<1>7. LockOwner'
  BY <1>1, <1>4, <1>5 DEF LockOwner
<1>8. sessions'[t] = row /\ \A u \in Tokens \ {t} : sessions'[u] = sessions[u]
  BY <1>1, <1>3 DEF TypeOK
<1>9. row.login = request[h].login /\ row.subject = request[h].subject
      /\ row.expires = request[h].expires /\ row.idExpires = request[h].idExpires
  BY DEF row
<1>10. transactions[request[h].login] = None
  BY <1>1 DEF StoredIsUnused, Consumed
<1>11. StoredIsUnused'
  BY <1>1, <1>3, <1>4, <1>8, <1>9, <1>10 DEF StoredIsUnused, Consumed, Stored
<1>12. ConsumedOnce'
  BY <1>1, <1>3, <1>4, <1>8, <1>9 DEF ConsumedOnce, Consumed, Stored
<1>13. Filled'
  BY <1>1, <1>2, <1>3, <1>4, <1>8 DEF Filled, Consumed, Stored
<1>14. TokensAreFresh'
  BY <1>1, <1>4, <1>8, t = request[h].token DEF TokensAreFresh, Stored, Filled, t
<1>15. OneSessionPerLogin'
  BY <1>1, <1>8, <1>9 DEF OneSessionPerLogin, ConsumedOnce, Consumed, Stored
<1>16. SessionsEndInTime' /\ CookiesNameSessions' /\ IssuedSessions'
  BY <1>1, <1>2, <1>3, <1>8, <1>9 DEF SessionsEndInTime, CookiesNameSessions, IssuedSessions,
     Stored, TypeOK
<1>17. Provisioned'
  BY <1>1, <1>3, <1>8, <1>9 DEF Provisioned, Stored, TypeOK, SessionRow
<1> QED
  BY <1>6, <1>7, <1>11, <1>12, <1>13, <1>14, <1>15, <1>16, <1>17

\* A logout marks a row as revoked, or fails to.
LEMMA RevokeStep ==
    ASSUME IInv, NEW h \in Handlers, Revoke(h)
    PROVE  IInv'
<1> USE DEF IInv
<1>1. /\ request[h] \in Request /\ request[h].at = "revoke"
      /\ UNCHANGED <<now, pool, idp, transactions, issued, rowLock, principals, cookies>>
  BY DEF Revoke, world, TypeOK, Request
<1>2. /\ request'[h] \in Request /\ request'[h].at = "clear"
      /\ \A g \in Handlers \ {h} : request'[g] = request[g]
      /\ request' \in [Handlers -> Request]
  BY <1>1 DEF Revoke, Goto, TypeOK, Request, Places
<1>3. /\ sessions' \in [Tokens -> SessionRow \cup {None}]
      /\ \A t \in Tokens :
            /\ Stored(t)' <=> Stored(t)
            /\ Stored(t) => /\ sessions'[t].login = sessions[t].login
                            /\ sessions'[t].subject = sessions[t].subject
                            /\ sessions'[t].expires = sessions[t].expires
                            /\ sessions'[t].idExpires = sessions[t].idExpires
  <2>1. CASE sessions' = sessions
    BY <2>1 DEF TypeOK, Stored
  <2>2. CASE sessions' = RevokedBy(h)
    <3> DEFINE revoked(t) == [sessions[t] EXCEPT !.revoked = TRUE]
    <3>1. ASSUME NEW t \in Tokens, Stored(t)
          PROVE  /\ revoked(t) \in SessionRow
                 /\ revoked(t).login = sessions[t].login
                 /\ revoked(t).subject = sessions[t].subject
                 /\ revoked(t).expires = sessions[t].expires
                 /\ revoked(t).idExpires = sessions[t].idExpires
      BY <3>1 DEF TypeOK, Stored, SessionRow
    <3>2. \A t \in Tokens : sessions'[t] = IF t = request[h].token /\ Stored(t)
                                          THEN revoked(t) ELSE sessions[t]
      BY <2>2 DEF RevokedBy
    <3>3. sessions' \in [Tokens -> SessionRow \cup {None}]
      BY <2>2, <3>1 DEF RevokedBy, TypeOK
    <3> HIDE DEF revoked
    <3> QED
      BY <3>1, <3>2, <3>3, NoneIsNoRow DEF Stored
  <2> QED
    BY <2>1, <2>2 DEF Revoke
<1>4. TypeOK'
  BY <1>1, <1>2, <1>3 DEF TypeOK, Request
<1>5. LockOwner' /\ StoredIsUnused' /\ ConsumedOnce'
  BY <1>1, <1>2, <1>3 DEF LockOwner, StoredIsUnused, ConsumedOnce, Consumed
<1>6. Filled' /\ TokensAreFresh'
  BY <1>1, <1>2, <1>3 DEF Filled, TokensAreFresh, Consumed
<1>7. OneSessionPerLogin' /\ SessionsEndInTime'
  BY <1>1, <1>3 DEF OneSessionPerLogin, SessionsEndInTime
<1>8. CookiesNameSessions' /\ IssuedSessions' /\ Provisioned'
  BY <1>1, <1>3 DEF TypeOK, CookiesNameSessions, IssuedSessions, Provisioned
<1> QED
  BY <1>4, <1>5, <1>6, <1>7, <1>8

\* The clock, the pool, the identity provider and the browsers.
LEMMA EnvironmentStep ==
    ASSUME IInv,
           \/ Tick \/ PoolChanges \/ \E u \in Subjects : GroupsChange(u)
           \/ \E b \in Browsers : CookieExpires(b)
    PROVE  IInv'
<1> USE DEF IInv
<1>1. /\ UNCHANGED <<transactions, issued, rowLock, principals, sessions, request>>
      /\ now' \in 0..MaxTime /\ now <= now' /\ pool' \in BOOLEAN
      /\ idp' \in [Subjects -> SUBSET Groups]
      /\ cookies' \in [Browsers -> Tokens \cup {None}]
      /\ \A b \in Browsers : cookies'[b] \in {cookies[b], None}
  <2>1. CASE Tick
    BY <2>1, TimesAreNaturals DEF Tick, TypeOK, database
  <2>2. CASE PoolChanges
    BY <2>2 DEF PoolChanges, TypeOK, database
  <2>3. CASE \E u \in Subjects : GroupsChange(u)
    BY <2>3 DEF GroupsChange, TypeOK, database
  <2>4. CASE \E b \in Browsers : CookieExpires(b)
    BY <2>4 DEF CookieExpires, TypeOK, database, world
  <2> QED
    BY <2>1, <2>2, <2>3, <2>4
<1>2. TypeOK'
  BY <1>1 DEF TypeOK
<1>3. \A x \in Times : x <= now + SessionTtl => x <= now' + SessionTtl
  BY <1>1, TimesAreNaturals DEF TypeOK, Times
<1>4. LockOwner' /\ StoredIsUnused' /\ ConsumedOnce' /\ TokensAreFresh'
  BY <1>1 DEF LockOwner, StoredIsUnused, ConsumedOnce, TokensAreFresh, Consumed, Stored
<1>5. Filled'
  BY <1>1, <1>3 DEF Filled, Stored
<1>6. SessionsEndInTime'
  BY <1>1, <1>3 DEF SessionsEndInTime, Stored, TypeOK, SessionRow
<1>7. OneSessionPerLogin' /\ CookiesNameSessions' /\ Provisioned' /\ IssuedSessions'
  BY <1>1 DEF OneSessionPerLogin, CookiesNameSessions, Provisioned, IssuedSessions, Stored
<1> QED
  BY <1>2, <1>4, <1>5, <1>6, <1>7

\* The next-state relation preserves the inductive invariant.
LEMMA NextIInv == IInv /\ [Next]_vars => IInv'
<1> SUFFICES ASSUME IInv, [Next]_vars PROVE IInv'
  OBVIOUS
<1>1. ASSUME NEW h \in Handlers, Advance(h) PROVE IInv'
  <2>1. CASE \E u \in Subjects, exp \in {now + d : d \in IdTokenLives} \cup {None} : Complete(h, u, exp)
    <3>1. \A d \in IdTokenLives : now + d \in Times
      BY TimesAreNaturals DEF IInv, TypeOK, Times
    <3> QED
      BY <2>1, <3>1, CompleteStep
  <2>2. CASE Refuse(h) \/ Respond(h) \/ ClearCookie(h)
    BY <2>2, AnsweringSteps
  <2>3. CASE ConsumeLogin(h) \/ ConsumeUnacknowledged(h)
    BY <2>3, ConsumeStep
  <2>4. CASE SaveSession(h) \/ SaveUnacknowledged(h)
    BY <2>4, SaveStep
  <2> QED
    BY <1>1, <2>1, <2>2, <2>3, <2>4, SelectStep, CheckExpiryStep, AuthorizeStep, RevokeStep
       DEF Advance
<1>2. ASSUME NEW h \in Handlers, Fail(h) PROVE IInv'
  BY <1>2, AnsweringSteps
<1>3. CASE UNCHANGED vars
  BY <1>3 DEF vars, IInv, TypeOK, LockOwner, StoredIsUnused, ConsumedOnce, Filled, TokensAreFresh,
     OneSessionPerLogin, SessionsEndInTime, CookiesNameSessions, Provisioned, IssuedSessions,
     Consumed, Stored
<1> QED
  BY <1>1, <1>2, <1>3, LoginStartStep, LogoutStartStep, CallbackStartStep, EnvironmentStep
     DEF Next, Step

-----------------------------------------------------------------------------
\* The invariant holds in every reachable state.
THEOREM Invariance == Spec => []IInv
BY InitIInv, NextIInv, PTL DEF Spec

\* Type correctness of logins and sessions, for every instance.
THEOREM TypeCorrect == Spec => []TypeOK
<1>1. IInv => TypeOK
  BY DEF IInv
<1> QED
  BY <1>1, Invariance, PTL

\* However a callback is repeated, interleaved or cut off, its login opens at
\* most one session: the row lock makes one request its only consumer.
THEOREM LoginsOpenOneSession == Spec => []OneSessionPerLogin
<1>1. IInv => OneSessionPerLogin
  BY DEF IInv
<1> QED
  BY <1>1, Invariance, PTL

\* No session outlives its ID token or the configured life.
THEOREM SessionsEnd == Spec => []SessionsEndInTime
<1>1. IInv => SessionsEndInTime
  BY DEF IInv
<1> QED
  BY <1>1, Invariance, PTL

\* A browser is never sent the cookie of a session that is not stored.
THEOREM CookiesAreStored == Spec => []CookiesNameSessions
<1>1. IInv => CookiesNameSessions
  BY DEF IInv
<1> QED
  BY <1>1, Invariance, PTL

\* Whoever has a live session is admitted: refused logins store nothing.
THEOREM LiveIsAdmitted == Spec => []LiveSessionsAreAdmitted
<1>1. IInv => LiveSessionsAreAdmitted
  BY DEF IInv, Provisioned, LiveSessionsAreAdmitted, Admits, Live
<1> QED
  BY <1>1, Invariance, PTL

\* A logout revokes a session, and does nothing else to any.
LEMMA LogoutRevokes ==
    ASSUME IInv, NEW t \in Tokens, NEW h \in Handlers, sessions' = RevokedBy(h)
    PROVE  /\ Stored(t)' <=> Stored(t)
           /\ Stored(t) => /\ sessions'[t].subject = sessions[t].subject
                           /\ sessions'[t].login = sessions[t].login
                           /\ sessions'[t].expires = sessions[t].expires
                           /\ sessions[t].revoked => sessions'[t].revoked
<1>1. sessions'[t] = IF t = request[h].token /\ Stored(t)
                     THEN [sessions[t] EXCEPT !.revoked = TRUE] ELSE sessions[t]
  BY DEF RevokedBy
<1>2. Stored(t) => sessions[t] \in SessionRow
  BY DEF Stored, IInv, TypeOK
<1>3. CASE sessions'[t] = sessions[t]
  BY <1>3 DEF Stored
<1>4. CASE Stored(t) /\ sessions'[t] = [sessions[t] EXCEPT !.revoked = TRUE]
  <2>1. /\ sessions'[t] \in SessionRow /\ sessions'[t].revoked
        /\ sessions'[t].subject = sessions[t].subject
        /\ sessions'[t].login = sessions[t].login
        /\ sessions'[t].expires = sessions[t].expires
    BY <1>2, <1>4 DEF SessionRow
  <2> QED
    BY <1>4, <2>1, NoneIsNoRow DEF Stored
<1> QED
  BY <1>1, <1>3, <1>4

\* A session that is dead stays so in every step: time does not run backwards,
\* logouts only revoke, and a session that is stored has a token of its own.
LEMMA DeadStep ==
    ASSUME IInv, Next, NEW t \in Tokens, Stored(t), ~Live(t)
    PROVE  Stored(t)' /\ ~Live(t)'
<1>1. CASE UNCHANGED <<sessions, now>>
  BY <1>1 DEF Stored, Live
<1>2. CASE Tick
  BY <1>2 DEF Tick, database, Stored, Live, IInv, TypeOK, SessionRow, Times
<1>3. ASSUME NEW h \in Handlers, SaveSession(h) \/ SaveUnacknowledged(h)
      PROVE  Stored(t)' /\ ~Live(t)'
  <2>1. request[h].at = "save" /\ request[h].token # t
    BY <1>3 DEF SaveSession, SaveUnacknowledged, IInv, TokensAreFresh
  <2>2. sessions'[t] = sessions[t] /\ now' = now
    BY <1>3, <2>1 DEF SaveSession, SaveUnacknowledged, StoreSession, world, IInv, TypeOK
  <2> QED
    BY <2>2 DEF Stored, Live
<1>4. ASSUME NEW h \in Handlers, Revoke(h)
      PROVE  Stored(t)' /\ ~Live(t)'
  <2>1. now' = now
    BY <1>4 DEF Revoke, world
  <2>2. CASE sessions' = RevokedBy(h)
    BY <2>1, <2>2, LogoutRevokes DEF Live
  <2> QED
    BY <1>4, <2>1, <2>2 DEF Revoke, Stored, Live
<1>5. ASSUME NEW h \in Handlers, Step(h)
      PROVE  Stored(t)' /\ ~Live(t)'
  BY <1>1, <1>3, <1>4, <1>5 DEF Step, Advance, SelectForUpdate, ConsumeLogin, DeleteRow,
     ConsumeUnacknowledged, CheckExpiry, Complete, Refuse, Authorize, Respond, ClearCookie,
     Fail, world, database
<1>6. CASE \/ \E l \in Logins : LoginStart(l)
           \/ \E h \in Handlers, b \in Browsers :
                 LogoutStart(h, b) \/ \E l \in Logins : CallbackStart(h, b, l)
           \/ PoolChanges \/ \E u \in Subjects : GroupsChange(u)
           \/ \E b \in Browsers : CookieExpires(b)
  BY <1>1, <1>6 DEF LoginStart, LogoutStart, CallbackStart, PoolChanges, GroupsChange,
     CookieExpires, world, database
<1> QED
  BY <1>2, <1>5, <1>6 DEF Next

\* A revoked or expired session is never live again: tokens are fresh when a
\* session is stored, logouts only revoke, and time does not run backwards.
THEOREM DeadStaysDead == Spec => DeadSessionsStayDead
<1>1. IInv /\ [Next]_vars =>
        [\A t \in Tokens : Stored(t) /\ ~Live(t) => Stored(t)' /\ ~Live(t)']_vars
  BY DeadStep
<1> QED
  BY <1>1, Invariance, PTL DEF Spec, DeadSessionsStayDead

-----------------------------------------------------------------------------
(* The handlers and tables implement LoginService.                           *)

Tables == <<now, idp, transactions, issued, sessions>>

\* A request that has consumed a login is its only consumer; the login is
\* taken, and whom it admits is known once its identity is.
LEMMA OnlyConsumer ==
    ASSUME IInv, NEW h \in Handlers, request[h].at \in Consumed, NEW l, l = request[h].login
    PROVE  /\ l \in Logins /\ stage[l] = "taken"
           /\ Consumers(l) = {h}
           /\ admitted[l] = IF request[h].at \in {"authorize", "save"}
                               /\ AccessGroup \in request[h].groups
                            THEN {request[h].subject} ELSE {}
<1>1. l \in Logins /\ l \in issued /\ transactions[l] = None
  BY DEF IInv, Filled, StoredIsUnused
<1>2. Consumers(l) = {h}
  BY DEF Consumers, IInv, ConsumedOnce
<1>3. Admitting(l) = IF request[h].at \in {"authorize", "save"} /\ AccessGroup \in request[h].groups
                     THEN {h} ELSE {}
  BY <1>2 DEF Admitting
<1>4. stage[l] = "taken"
  BY <1>1, <1>2 DEF stage
<1>5. admitted[l] = {request[g].subject : g \in Admitting(l)}
  BY <1>1 DEF admitted
<1> QED
  BY <1>1, <1>2, <1>3, <1>4, <1>5

\* A request that consumes nothing before and after, or stays where it was for
\* its login, is not seen by the service.
LEMMA Unseen ==
    ASSUME NEW h \in Handlers, UNCHANGED Tables,
           \A g \in Handlers \ {h} : request'[g] = request[g],
           \/ request[h].at \notin Consumed /\ request'[h].at \notin Consumed
           \/ /\ request[h].at \in Consumed /\ request'[h].at \in Consumed
              /\ request'[h].login = request[h].login
              /\ request'[h].subject = request[h].subject
              /\ request'[h].groups = request[h].groups
              /\ request[h].at \in {"authorize", "save"} <=> request'[h].at \in {"authorize", "save"}
    PROVE  UNCHANGED Service!vars
<1>1. \A k \in Logins : Consumers(k)' = Consumers(k)
  BY DEF Consumers
<1>2. \A k \in Logins : Admitting(k)' = Admitting(k)
  BY <1>1 DEF Admitting, Consumers, Consumed
<1>3. \A k \in Logins : \A g \in Admitting(k) : request'[g].subject = request[g].subject
  BY DEF Admitting, Consumers
<1>4. stage' = stage
  BY <1>1 DEF stage, Tables
<1>5. admitted' = admitted
  BY <1>2, <1>3 DEF admitted
<1>6. provisioned' = provisioned /\ owner' = owner
  BY DEF provisioned, owner, Stored, Live, Tables
<1> QED
  BY <1>4, <1>5, <1>6 DEF Service!vars

\* What one request does for its login is not seen at any other login.
LEMMA OtherLogins ==
    ASSUME NEW h \in Handlers, NEW l \in Logins, NEW k \in Logins \ {l},
           \A g \in Handlers \ {h} : request'[g] = request[g],
           request[h].at \in Consumed => request[h].login = l,
           request'[h].at \in Consumed => request'[h].login = l,
           issued' = issued, transactions'[k] = transactions[k]
    PROVE  stage'[k] = stage[k] /\ admitted'[k] = admitted[k]
<1>1. Consumers(k)' = Consumers(k)
  BY DEF Consumers
<1>2. Admitting(k)' = Admitting(k)
  BY <1>1 DEF Admitting, Consumers
<1>3. \A g \in Admitting(k) : request'[g].subject = request[g].subject
  BY DEF Admitting, Consumers
<1>4. stage'[k] = stage[k]
  BY <1>1 DEF stage
<1>5. admitted'[k] = admitted[k]
  BY <1>2, <1>3 DEF admitted
<1> QED
  BY <1>4, <1>5

LEMMA ServiceInit == Init => Service!Init
<1> SUFFICES ASSUME Init PROVE Service!Init
  OBVIOUS
<1>1. \A l \in Logins : Consumers(l) = {} /\ Admitting(l) = {}
  BY DEF Init, Idle, Consumers, Admitting, Consumed
<1>2. stage = [l \in Logins |-> "new"]
  BY DEF Init, stage
<1>3. admitted = [l \in Logins |-> {}]
  BY <1>1 DEF admitted
<1>4. owner = [t \in Tokens |-> Service!NoSession]
  BY DEF Init, owner, Stored, Service!NoSession
<1>5. provisioned \in SUBSET Subjects
  BY DEF provisioned
<1> QED
  BY <1>2, <1>3, <1>4, <1>5 DEF Service!Init

\* A login that starts is offered: nobody has consumed it.
LEMMA OfferStep ==
    ASSUME IInv, NEW l \in Logins, LoginStart(l)
    PROVE  Service!Offer(l)
<1> USE DEF LoginStart, world
<1>1. Consumers(l) = {}
  BY DEF IInv, Filled, Consumers
<1>2. \A k \in Logins : Consumers(k)' = Consumers(k) /\ Admitting(k)' = Admitting(k)
  BY DEF Consumers, Admitting
<1>3. LoginExpiry # None
  BY TimesAreNaturals, NoneIsNew DEF LoginExpiry, IInv, TypeOK
<1>4. /\ transactions'[l] # None
      /\ \A k \in Logins \ {l} : transactions'[k] = transactions[k]
  BY <1>3 DEF IInv, TypeOK
<1>5. stage[l] = "new"
  BY DEF stage
<1>6. stage' = [stage EXCEPT ![l] = "offered"]
  BY <1>2, <1>4 DEF stage
<1>7. UNCHANGED <<provisioned, admitted, owner>>
  BY <1>2 DEF provisioned, admitted, owner, Stored, Live
<1> QED
  BY <1>5, <1>6, <1>7 DEF Service!Offer

\* A callback deletes the row of its login: the login is taken, or over when the
\* acknowledgement is lost.
LEMMA ConsumeIsTaking ==
    ASSUME IInv, NEW h \in Handlers, ConsumeLogin(h) \/ ConsumeUnacknowledged(h)
    PROVE  \E l \in Logins : Service!Take(l) \/ Service!Close(l)
<1>0. PICK l \in Logins : l = request[h].login
  BY DEF ConsumeLogin, ConsumeUnacknowledged, IInv, Filled
<1>1. /\ transactions[l] # None /\ l \in issued
      /\ request[h].at = "delete" /\ request[h] \in Request
      /\ \A g \in Handlers : request[g].at \in Consumed => request[g].login # l
  BY <1>0 DEF ConsumeLogin, ConsumeUnacknowledged, IInv, ConsumedOnce, StoredIsUnused,
     TypeOK, Request
<1>2. /\ transactions' = [transactions EXCEPT ![l] = None]
      /\ UNCHANGED <<now, idp, issued, sessions>>
  BY <1>0 DEF ConsumeLogin, ConsumeUnacknowledged, DeleteRow, world
<1>3. /\ \A g \in Handlers \ {h} : request'[g] = request[g]
      /\ \/ ConsumeLogin(h) /\ request'[h].at = "expiry" /\ request'[h].login = l
         \/ ConsumeUnacknowledged(h) /\ request'[h].at = "idle"
  BY <1>0, <1>1 DEF ConsumeLogin, ConsumeUnacknowledged, Goto, Idle, IInv, TypeOK, Request
<1>4. transactions'[l] = None /\ \A k \in Logins \ {l} : transactions'[k] = transactions[k]
  BY <1>1, <1>2 DEF IInv, TypeOK
<1>5. \A k \in Logins \ {l} : stage'[k] = stage[k] /\ admitted'[k] = admitted[k]
  BY <1>0, <1>1, <1>2, <1>3, <1>4, OtherLogins DEF Consumed
<1>6. stage[l] = "offered" /\ Admitting(l) = {} /\ Admitting(l)' = {}
  BY <1>1, <1>3 DEF stage, Admitting, Consumers
<1>7. admitted' = admitted /\ admitted[l] = {}
  BY <1>1, <1>5, <1>6 DEF admitted
<1>8. UNCHANGED <<provisioned, owner>>
  BY <1>2 DEF provisioned, owner, Stored, Live
<1>9. CASE ConsumeLogin(h) /\ request'[h].at = "expiry" /\ request'[h].login = l
  <2>1. Consumers(l)' # {}
    BY <1>9 DEF Consumers, Consumed
  <2>2. stage'[l] = "taken"
    BY <1>1, <1>2, <1>4, <2>1 DEF stage
  <2>3. stage' = [stage EXCEPT ![l] = "taken"]
    BY <1>1, <1>5, <2>2 DEF stage
  <2> QED
    BY <1>1, <1>6, <1>7, <1>8, <2>3 DEF Service!Take
<1>10. CASE ConsumeUnacknowledged(h) /\ request'[h].at = "idle"
  <2>1. Consumers(l)' = {}
    BY <1>1, <1>3, <1>10 DEF Consumers, Consumed
  <2>2. stage'[l] = "over"
    BY <1>1, <1>2, <1>4, <2>1 DEF stage
  <2>3. stage' = [stage EXCEPT ![l] = "over"]
    BY <1>1, <1>5, <2>2 DEF stage
  <2>4. admitted' = [admitted EXCEPT ![l] = {}]
    BY <1>1, <1>7 DEF admitted
  <2> QED
    BY <1>1, <1>6, <1>8, <2>3, <2>4 DEF Service!Close
<1> QED
  BY <1>3, <1>9, <1>10

\* A request that answers after it has consumed its login, and before anything is
\* stored, closes the login; any other answer is not seen.
LEMMA AnswerIsClosing ==
    ASSUME IInv, NEW h \in Handlers, Answer(h), UNCHANGED Tables
    PROVE  UNCHANGED Service!vars \/ \E l \in Logins : Service!Close(l)
<1>1. request'[h].at \notin Consumed /\ \A g \in Handlers \ {h} : request'[g] = request[g]
  BY DEF Answer, Idle, Consumed, IInv, TypeOK
<1>2. CASE request[h].at \notin Consumed
  BY <1>1, <1>2, Unseen
<1>3. CASE request[h].at \in Consumed
  <2>0. PICK l \in Logins : l = request[h].login
    BY <1>3 DEF IInv, Filled
  <2>1. stage[l] = "taken" /\ Consumers(l) = {h}
    BY <1>3, <2>0, OnlyConsumer
  <2>2. l \in issued /\ transactions[l] = None
    BY <1>3, <2>0 DEF IInv, Filled, StoredIsUnused
  <2>3. \A k \in Logins \ {l} : stage'[k] = stage[k] /\ admitted'[k] = admitted[k]
    BY <1>1, <2>0, OtherLogins DEF Tables
  <2>4. Consumers(l)' = {} /\ Admitting(l)' = {}
    BY <1>1, <2>1 DEF Consumers, Admitting
  <2>5. stage'[l] = "over" /\ admitted'[l] = {}
    BY <2>1, <2>2, <2>4 DEF stage, admitted, Tables
  <2>6. stage' = [stage EXCEPT ![l] = "over"] /\ admitted' = [admitted EXCEPT ![l] = {}]
    BY <2>1, <2>3, <2>5 DEF stage, admitted
  <2>7. UNCHANGED <<provisioned, owner>>
    BY DEF provisioned, owner, Stored, Live, Tables
  <2> QED
    BY <2>1, <2>6, <2>7 DEF Service!Close
<1> QED
  BY <1>2, <1>3

\* The identity provider answers: whoever has access now is admitted, and
\* anybody else is nobody to the service.
LEMMA IdentifyIsAdmitting ==
    ASSUME IInv, NEW h \in Handlers, NEW u \in Subjects, NEW exp, Complete(h, u, exp)
    PROVE  UNCHANGED Service!vars \/ \E l \in Logins : Service!Admit(l, u)
<1>0. PICK l \in Logins : l = request[h].login
  BY DEF Complete, IInv, Filled, Consumed
<1>1. UNCHANGED Tables /\ request[h].at = "complete"
  BY DEF Complete, world, database, Tables
<1>2. /\ \A g \in Handlers \ {h} : request'[g] = request[g]
      /\ request'[h].at = "authorize" /\ request'[h].login = l
      /\ request'[h].subject = u /\ request'[h].groups = idp[u]
  BY <1>0 DEF Complete, IInv, TypeOK
<1>3. stage[l] = "taken" /\ Consumers(l) = {h} /\ admitted[l] = {}
  BY <1>0, <1>1, OnlyConsumer DEF Consumed
<1>4. \A k \in Logins \ {l} : stage'[k] = stage[k] /\ admitted'[k] = admitted[k]
  BY <1>0, <1>1, <1>2, OtherLogins DEF Tables
<1>5. Consumers(l)' = {h}
  BY <1>1, <1>2, <1>3 DEF Consumers, Consumed
<1>6. stage'[l] = stage[l]
  BY <1>1, <1>3, <1>5 DEF stage, Tables
<1>7. stage' = stage
  BY <1>3, <1>4, <1>6 DEF stage
<1>8. UNCHANGED <<provisioned, owner>>
  BY <1>1 DEF provisioned, owner, Stored, Live, Tables
<1>9. CASE AccessGroup \in idp[u]
  <2>1. Admitting(l)' = {h}
    BY <1>2, <1>5, <1>9 DEF Admitting
  <2>2. admitted'[l] = {u}
    BY <1>2, <1>3, <2>1 DEF admitted
  <2>3. admitted' = [admitted EXCEPT ![l] = {u}]
    BY <1>3, <1>4, <2>2 DEF admitted
  <2> QED
    BY <1>3, <1>7, <1>8, <1>9, <2>3 DEF Service!Admit, provisioned
<1>10. CASE AccessGroup \notin idp[u]
  <2>1. Admitting(l)' = {}
    BY <1>2, <1>5, <1>10 DEF Admitting
  <2>2. admitted'[l] = admitted[l]
    BY <1>3, <2>1 DEF admitted
  <2>3. admitted' = admitted
    BY <1>3, <1>4, <2>2 DEF admitted
  <2> QED
    BY <1>7, <1>8, <2>3 DEF Service!vars
<1> QED
  BY <1>9, <1>10

\* The session that is stored is granted to whom the login admits.
LEMMA SaveIsGranting ==
    ASSUME IInv, NEW h \in Handlers, SaveSession(h) \/ SaveUnacknowledged(h)
    PROVE  \E l \in Logins, u \in Subjects, t \in Tokens : Service!Grant(l, u, t)
<1>0. PICK l \in Logins, u \in Subjects, t \in Tokens :
         l = request[h].login /\ u = request[h].subject /\ t = request[h].token
  BY DEF SaveSession, SaveUnacknowledged, IInv, Filled, Consumed
<1> DEFINE row == [subject |-> u, expires |-> request[h].expires, revoked |-> FALSE,
                   login |-> l, idExpires |-> request[h].idExpires]
<1>1. /\ request[h] \in Request /\ request[h].at = "save" /\ ~Stored(t)
      /\ AccessGroup \in request[h].groups /\ request[h].expires \in Times
      /\ l \in issued /\ transactions[l] = None
  BY <1>0 DEF SaveSession, SaveUnacknowledged, IInv, TypeOK, Request, Filled, TokensAreFresh,
     StoredIsUnused, Consumed
<1>2. stage[l] = "taken" /\ Consumers(l) = {h} /\ admitted[l] = {u}
  BY <1>0, <1>1, OnlyConsumer DEF Consumed
<1>3. row # None
  <2>1. row \in SessionRow
    BY <1>1, <1>2 DEF SessionRow, Request
  <2> QED
    BY <2>1, NoneIsNoRow
<1>4. /\ sessions' = [sessions EXCEPT ![t] = row]
      /\ UNCHANGED <<now, idp, transactions, issued>>
  BY <1>0 DEF SaveSession, SaveUnacknowledged, StoreSession, world
<1>5. /\ \A g \in Handlers \ {h} : request'[g] = request[g]
      /\ request'[h].at \notin Consumed
  BY <1>1 DEF SaveSession, SaveUnacknowledged, Goto, Answer, Idle, Consumed, IInv, TypeOK, Request
<1>6. row.subject = u /\ row.login = l
  OBVIOUS
<1> HIDE DEF row
<1>7. \A k \in Logins \ {l} : stage'[k] = stage[k] /\ admitted'[k] = admitted[k]
  BY <1>0, <1>4, <1>5, OtherLogins DEF Consumed
<1>8. Consumers(l)' = {} /\ Admitting(l)' = {}
  BY <1>2, <1>5 DEF Consumers, Admitting
<1>9. stage'[l] = "over" /\ admitted'[l] = {}
  BY <1>1, <1>2, <1>4, <1>8 DEF stage, admitted
<1>10. stage' = [stage EXCEPT ![l] = "over"] /\ admitted' = [admitted EXCEPT ![l] = {}]
  BY <1>2, <1>7, <1>9 DEF stage, admitted
<1>11. provisioned' = provisioned
  BY <1>4 DEF provisioned
<1>12. owner[t] = Service!NoSession
  BY <1>1 DEF owner, Service!NoSession
<1>13. sessions'[t] = row /\ \A v \in Tokens \ {t} : sessions'[v] = sessions[v]
  BY <1>1, <1>4 DEF IInv, TypeOK
<1>14. \E is \in {"live", "over"} : owner'[t] = [is |-> is, subject |-> u, login |-> l]
  BY <1>1, <1>3, <1>6, <1>13 DEF owner, Stored
<1>15. \A v \in Tokens \ {t} : owner'[v] = owner[v]
  BY <1>4, <1>13 DEF owner, Stored, Live
<1>16. \E is \in {"live", "over"} : owner' = [owner EXCEPT ![t] = [is |-> is, subject |-> u, login |-> l]]
  <2>1. PICK is \in {"live", "over"} : owner'[t] = [is |-> is, subject |-> u, login |-> l]
    BY <1>14
  <2>2. owner' = [owner EXCEPT ![t] = [is |-> is, subject |-> u, login |-> l]]
    BY <1>1, <1>15, <2>1 DEF owner
  <2> QED
    BY <2>2
<1>17. Service!Grant(l, u, t)
  BY <1>2, <1>10, <1>11, <1>12, <1>16 DEF Service!Grant
<1> QED
  BY <1>1, <1>2, <1>17

\* Time and logouts end sessions, and do nothing else to them.
LEMMA EndStep ==
    ASSUME IInv, Next, Tick \/ \E h \in Handlers : Revoke(h)
    PROVE  Service!End({t \in Tokens : Live(t) /\ ~Live(t)'})
<1> DEFINE T == {t \in Tokens : Live(t) /\ ~Live(t)'}
<1>1. /\ UNCHANGED <<idp, transactions, issued>>
      /\ \A g \in Handlers : \/ request'[g] = request[g]
                             \/ request[g].at \notin Consumed /\ request'[g].at \notin Consumed
  BY DEF Tick, Revoke, world, database, Goto, IInv, TypeOK, Consumed
<1>2. \A k \in Logins : Consumers(k)' = Consumers(k)
  BY <1>1 DEF Consumers
<1>3. \A k \in Logins : Admitting(k)' = Admitting(k)
  BY <1>1, <1>2 DEF Admitting, Consumers, Consumed
<1>4. \A k \in Logins : \A g \in Admitting(k) : request'[g].subject = request[g].subject
  BY <1>1 DEF Admitting, Consumers
<1>5. stage' = stage /\ provisioned' = provisioned
  BY <1>1, <1>2 DEF stage, provisioned
<1>6. admitted' = admitted
  BY <1>3, <1>4 DEF admitted
<1>7. ASSUME NEW t \in Tokens
      PROVE  /\ Stored(t)' <=> Stored(t)
             /\ Stored(t) => /\ sessions'[t].subject = sessions[t].subject
                             /\ sessions'[t].login = sessions[t].login
  <2>1. CASE sessions' = sessions
    BY <2>1 DEF Stored
  <2>2. ASSUME NEW h \in Handlers, sessions' = RevokedBy(h)
        PROVE  /\ Stored(t)' <=> Stored(t)
               /\ Stored(t) => /\ sessions'[t].subject = sessions[t].subject
                               /\ sessions'[t].login = sessions[t].login
    BY <2>2, LogoutRevokes
  <2> QED
    BY <2>1, <2>2 DEF Tick, Revoke, database
<1>8. \A t \in Tokens : Live(t)' => Live(t)
  <2>1. \A t \in Tokens : Live(t)' => Stored(t)'
    BY DEF Live
  <2> QED
    BY <1>7, <2>1, DeadStep
<1>9. \A t \in Tokens :
         owner'[t] = IF t \in T THEN [owner[t] EXCEPT !.is = "over"] ELSE owner[t]
  <2> TAKE t \in Tokens
  <2>1. /\ owner[t] = [is |-> IF ~Stored(t) THEN "none" ELSE IF Live(t) THEN "live" ELSE "over",
                       subject |-> IF Stored(t) THEN sessions[t].subject ELSE None,
                       login |-> IF Stored(t) THEN sessions[t].login ELSE None]
        /\ owner'[t] = [is |-> IF ~Stored(t)' THEN "none" ELSE IF Live(t)' THEN "live" ELSE "over",
                        subject |-> IF Stored(t)' THEN sessions'[t].subject ELSE None,
                        login |-> IF Stored(t)' THEN sessions'[t].login ELSE None]
    BY DEF owner
  <2>2. Live(t) => Stored(t)
    BY DEF Live
  <2> QED
    BY <1>7, <1>8, <2>1, <2>2
<1>10. owner' = [t \in Tokens |-> IF t \in T THEN [owner[t] EXCEPT !.is = "over"] ELSE owner[t]]
  BY <1>9 DEF owner
<1>11. \A t \in T : owner[t].is = "live"
  BY DEF owner, Live
<1> QED
  BY <1>5, <1>6, <1>10, <1>11 DEF Service!End

\* A request that starts has consumed nothing.
LEMMA StartIsUnseen ==
    ASSUME IInv, NEW h \in Handlers, NEW b \in Browsers,
           LogoutStart(h, b) \/ \E l \in Logins : CallbackStart(h, b, l)
    PROVE  UNCHANGED Service!vars
<1>1. CASE LogoutStart(h, b)
  <2>0. request[h] = Idle /\ Idle.at = "idle"
    BY <1>1 DEF LogoutStart, Idle
  <2>1. request'[h].at = "revoke" /\ \A g \in Handlers \ {h} : request'[g] = request[g]
    BY <1>1 DEF LogoutStart, Idle, IInv, TypeOK
  <2>2. UNCHANGED Tables
    BY <1>1 DEF LogoutStart, world, database, Tables
  <2> QED
    BY <2>0, <2>1, <2>2, Unseen DEF Consumed
<1>2. ASSUME NEW l \in Logins, CallbackStart(h, b, l)
      PROVE  UNCHANGED Service!vars
  <2>0. request[h] = Idle /\ Idle.at = "idle"
    BY <1>2 DEF CallbackStart, Idle
  <2>1. request'[h].at = "select" /\ \A g \in Handlers \ {h} : request'[g] = request[g]
    BY <1>2 DEF CallbackStart, Idle, IInv, TypeOK
  <2>2. UNCHANGED Tables
    BY <1>2 DEF CallbackStart, world, database, Tables
  <2> QED
    BY <2>0, <2>1, <2>2, Unseen DEF Consumed
<1> QED
  BY <1>1, <1>2

\* What else happens to the tables and requests is not seen by the service.
LEMMA UnseenSteps ==
    ASSUME IInv,
           \/ PoolChanges \/ \E b \in Browsers : CookieExpires(b)
           \/ \E h \in Handlers, b \in Browsers :
                 LogoutStart(h, b) \/ \E l \in Logins : CallbackStart(h, b, l)
           \/ \E h \in Handlers :
                 \/ SelectForUpdate(h) /\ ~Answer(h)
                 \/ CheckExpiry(h) /\ ~Answer(h)
                 \/ \E t \in Tokens : Authorize(h, t)
    PROVE  UNCHANGED Service!vars
<1>1. CASE PoolChanges \/ \E b \in Browsers : CookieExpires(b)
  BY <1>1 DEF PoolChanges, CookieExpires, world, database, Service!vars, provisioned, stage,
     admitted, owner, Consumers, Admitting, Stored, Live
<1>2. ASSUME NEW h \in Handlers, NEW b \in Browsers,
             LogoutStart(h, b) \/ \E l \in Logins : CallbackStart(h, b, l)
      PROVE  UNCHANGED Service!vars
  BY <1>2, StartIsUnseen
<1>3. ASSUME NEW h \in Handlers, SelectForUpdate(h), ~Answer(h)
      PROVE  UNCHANGED Service!vars
  <2>1. /\ UNCHANGED Tables /\ \A g \in Handlers \ {h} : request'[g] = request[g]
        /\ request[h].at \notin Consumed /\ request'[h].at \notin Consumed
    BY <1>3 DEF SelectForUpdate, world, Tables, Consumed, IInv, TypeOK
  <2> QED
    BY <2>1, Unseen
<1>4. ASSUME NEW h \in Handlers, CheckExpiry(h), ~Answer(h)
      PROVE  UNCHANGED Service!vars
  <2>1. request[h].at = "expiry" /\ Goto(h, "complete") /\ UNCHANGED Tables
    BY <1>4 DEF CheckExpiry, world, Tables
  <2>2. /\ \A g \in Handlers \ {h} : request'[g] = request[g]
        /\ request'[h] = [request[h] EXCEPT !.at = "complete"] /\ request[h] \in Request
    BY <2>1 DEF Goto, IInv, TypeOK, Request
  <2> QED
    BY <2>1, <2>2, Unseen DEF Consumed, Request
<1>5. ASSUME NEW h \in Handlers, NEW t \in Tokens, Authorize(h, t)
      PROVE  UNCHANGED Service!vars
  <2>1. request[h].at = "authorize" /\ UNCHANGED Tables
    BY <1>5 DEF Authorize, world, database, Tables
  <2>2. /\ \A g \in Handlers \ {h} : request'[g] = request[g]
        /\ request'[h] = [request[h] EXCEPT !.at = "save", !.token = t,
                                           !.expires = SessionExpiry(request[h].idExpires)]
        /\ request[h] \in Request
    BY <1>5 DEF Authorize, IInv, TypeOK, Request
  <2> QED
    BY <2>1, <2>2, Unseen DEF Consumed, Request
<1> QED
  BY <1>1, <1>2, <1>3, <1>4, <1>5

LEMMA ProvisionStep ==
    ASSUME NEW u \in Subjects, GroupsChange(u)
    PROVE  Service!Provision
BY DEF GroupsChange, database, Service!Provision, provisioned, stage, admitted, owner,
   Consumers, Admitting, Stored, Live

\* Every step of the handlers and of their environment is a step of the service,
\* or not seen by it.
LEMMA ServiceStep == IInv /\ [Next]_vars => [Service!Next]_(Service!vars)
<1> SUFFICES ASSUME IInv, [Next]_vars PROVE [Service!Next]_(Service!vars)
  OBVIOUS
<1>1. CASE UNCHANGED vars
  BY <1>1 DEF vars, Service!vars, provisioned, stage, admitted, owner, Consumers, Admitting,
     Stored, Live
<1>2. ASSUME NEW h \in Handlers, Answer(h), UNCHANGED Tables
      PROVE  [Service!Next]_(Service!vars)
  BY <1>2, AnswerIsClosing DEF Service!Next
<1>3. ASSUME NEW h \in Handlers, ConsumeLogin(h) \/ ConsumeUnacknowledged(h)
      PROVE  [Service!Next]_(Service!vars)
  BY <1>3, ConsumeIsTaking DEF Service!Next
<1>4. ASSUME NEW h \in Handlers, NEW u \in Subjects, NEW exp, Complete(h, u, exp)
      PROVE  [Service!Next]_(Service!vars)
  BY <1>4, IdentifyIsAdmitting DEF Service!Next
<1>5. ASSUME NEW h \in Handlers, SaveSession(h) \/ SaveUnacknowledged(h)
      PROVE  [Service!Next]_(Service!vars)
  BY <1>5, SaveIsGranting DEF Service!Next
<1>6. CASE Next /\ (Tick \/ \E h \in Handlers : Revoke(h))
  BY <1>6, EndStep DEF Service!Next
<1>7. CASE \E u \in Subjects : GroupsChange(u)
  BY <1>7, ProvisionStep DEF Service!Next
<1>8. CASE \E l \in Logins : LoginStart(l)
  BY <1>8, OfferStep DEF Service!Next
<1>9. ASSUME NEW h \in Handlers, Next, Step(h)
      PROVE  [Service!Next]_(Service!vars)
  <2>1. CASE Refuse(h) \/ Respond(h) \/ ClearCookie(h) \/ Fail(h)
    BY <1>2, <2>1 DEF Refuse, Respond, ClearCookie, Fail, world, Tables
  <2>2. CASE SelectForUpdate(h) \/ CheckExpiry(h)
    BY <1>2, <2>2, UnseenSteps DEF SelectForUpdate, CheckExpiry, world, Tables
  <2> QED
    BY <1>3, <1>4, <1>5, <1>6, <1>9, <2>1, <2>2, UnseenSteps DEF Step, Advance
<1> QED
  BY <1>1, <1>6, <1>7, <1>8, <1>9, UnseenSteps DEF Next

\* Every behaviour of the handlers is one of the abstract service: a login opens
\* one session at most, for the person who was identified in it and had access
\* then, and sessions keep their owner and end for good.
THEOREM LoginsImplementService == Spec => ImplementsLoginService
BY Invariance, ServiceInit, ServiceStep, PTL DEF Spec, ImplementsLoginService, Service!Spec

=============================================================================
