---------------------------- MODULE BrokerProofs ----------------------------
(* Theorems about Broker, for every number of calls, requests, logins, people *)
(* and groups.  The logins take their steps beside the calls, so their        *)
(* inductive invariant is part of this one.                                   *)
EXTENDS Broker, OidcSessionsProofs

\* A call that has not looked its session up knows nobody; and if the session
\* was not live when it arrived, it is dead by now, and stays so.
Remembered ==
    \A c \in Calls : call[c].at \in {"pool", "lookup"} =>
        /\ ~call[c].known
        /\ call[c].token # None /\ ~call[c].live =>
              Stored(call[c].token) /\ ~Live(call[c].token)

\* A call asks for a token only if the browser has sent one.
Presented == \A c \in Calls : call[c].at = "lookup" => call[c].token # None

\* Who is known had a live session, and has the access group.
KnownHasAccess == \A c \in Calls : call[c].known => call[c].live /\ AccessGroup \in call[c].groups

BInv ==
    /\ IInv
    /\ BrokerTypeOK /\ Remembered /\ Presented /\ KnownHasAccess /\ NobodyIsDenied

CallRecord ==
    [at : {"idle", "pool", "lookup", "handle", "reply"}, route : Routes \cup {None},
     token : Tokens \cup {None}, known : BOOLEAN, groups : SUBSET Groups,
     reply : Replies \cup {None}, live : BOOLEAN]

LEMMA NoCallIsACall == NoCall \in CallRecord
<1>1. FALSE \in BOOLEAN /\ {} \in SUBSET Groups
  OBVIOUS
<1> QED
  BY <1>1, Zenon DEF NoCall, CallRecord

LEMMA InitBInv == BrokerInit => BInv
<1> SUFFICES ASSUME BrokerInit PROVE BInv
  OBVIOUS
<1>1. IInv
  BY InitIInv DEF BrokerInit
<1>2. BrokerTypeOK
  BY <1>1, NoCallIsACall DEF BrokerInit, BrokerTypeOK, IInv, CallRecord
<1>3. NoCall.at = "idle" /\ NoCall.known = FALSE /\ NoCall.reply = None
  BY DEF NoCall
<1>4. Remembered /\ Presented /\ KnownHasAccess /\ NobodyIsDenied
  BY <1>3, NoneIsNoReply DEF BrokerInit, Remembered, Presented, KnownHasAccess, NobodyIsDenied,
     Replies
<1> QED
  BY <1>1, <1>2, <1>4 DEF BInv

\* A login, a logout, an expiry: what the calls remember stays true.
LEMMA SessionsBInv ==
    ASSUME BInv, Next, UNCHANGED <<worldReady, call>>
    PROVE  BInv'
<1>1. IInv'
  BY NextIInv DEF BInv
<1>2. BrokerTypeOK'
  BY <1>1 DEF BInv, BrokerTypeOK, IInv
<1>3. Remembered'
  BY DeadStep DEF BInv, BrokerTypeOK, Remembered
<1>4. Presented' /\ KnownHasAccess' /\ NobodyIsDenied'
  BY DEF BInv, Presented, KnownHasAccess, NobodyIsDenied
<1> QED
  BY <1>1, <1>2, <1>3, <1>4 DEF BInv

\* A step of one call: the sessions stay, and so do the other calls.
LEMMA CallBInv ==
    ASSUME BInv, NEW c \in Calls,
           UNCHANGED vars, worldReady' \in BOOLEAN,
           NEW r \in CallRecord, call' = [call EXCEPT ![c] = r],
           r.at \in {"pool", "lookup"} =>
              /\ ~r.known
              /\ r.token # None /\ ~r.live => Stored(r.token) /\ ~Live(r.token),
           r.at = "lookup" => r.token # None,
           r.known => r.live /\ AccessGroup \in r.groups,
           r.reply \notin {"forbidden", "denied"}
    PROVE  BInv'
<1>1. call'[c] = r /\ \A d \in Calls \ {c} : call'[d] = call[d]
  BY DEF BInv, BrokerTypeOK
<1>2. IInv'
  BY NextIInv DEF BInv
<1>3. BrokerTypeOK'
  BY <1>2 DEF BInv, BrokerTypeOK, IInv, CallRecord
<1>4. Remembered' /\ Presented' /\ KnownHasAccess' /\ NobodyIsDenied'
  BY <1>1 DEF BInv, Remembered, Presented, KnownHasAccess, NobodyIsDenied, Stored, Live, vars
<1> QED
  BY <1>2, <1>3, <1>4 DEF BInv

LEMMA ArriveBInv ==
    ASSUME BInv, NEW c \in Calls, NEW b \in Browsers, NEW route \in Routes, Arrive(c, b, route)
    PROVE  BInv'
<1> DEFINE r == [NoCall EXCEPT !.at = "pool", !.route = route, !.token = cookies[b],
                               !.live = cookies[b] # None /\ Live(cookies[b])]
<1>1. cookies[b] \in Tokens \cup {None} /\ (cookies[b] # None => Stored(cookies[b]))
  BY DEF BInv, IInv, TypeOK, CookiesNameSessions
<1>2. r \in CallRecord
  BY <1>1, NoCallIsACall DEF NoCall, CallRecord
<1>3. /\ r.at = "pool" /\ ~r.known /\ r.reply = None
      /\ r.token = cookies[b] /\ r.live = (cookies[b] # None /\ Live(cookies[b]))
  BY Zenon DEF NoCall
<1>4. call' = [call EXCEPT ![c] = r] /\ UNCHANGED <<vars, worldReady>>
  BY DEF Arrive
<1> HIDE DEF r
<1> QED
  BY <1>1, <1>2, <1>3, <1>4, NoneIsNoReply, CallBInv DEF BInv, BrokerTypeOK, Replies

\* What an answer or a jump of one call amounts to.
LEMMA ServeBInv ==
    ASSUME BInv, NEW c \in Calls, Serve(c)
    PROVE  BInv'
<1> DEFINE old == call[c]
           to(l) == [old EXCEPT !.at = l]
           answer(a) == [old EXCEPT !.at = "reply", !.reply = a]
<1>1. /\ call[c] \in CallRecord /\ UNCHANGED <<vars, worldReady>> /\ worldReady \in BOOLEAN
      /\ old.reply \notin {"forbidden", "denied"}
      /\ old.known => old.live /\ AccessGroup \in old.groups
  BY DEF BInv, BrokerTypeOK, CallRecord, Serve, AskPool, LookUp, LookUpFails, Handle, Finish,
     NobodyIsDenied, KnownHasAccess
<1>2. ASSUME NEW l \in {"handle", "lookup"}, call' = To(c, l),
             l = "lookup" => old.at = "pool" /\ old.token # None
      PROVE  BInv'
  <2>1. to(l) \in CallRecord
    BY <1>1 DEF CallRecord
  <2>2. call' = [call EXCEPT ![c] = to(l)]
    BY <1>2 DEF To
  <2>3. l = "lookup" => ~old.known
                        /\ (old.token # None /\ ~old.live => Stored(old.token) /\ ~Live(old.token))
    BY <1>2 DEF BInv, Remembered
  <2>4. /\ to(l).at = l /\ to(l).known = old.known /\ to(l).token = old.token
        /\ to(l).live = old.live /\ to(l).groups = old.groups /\ to(l).reply = old.reply
    BY <1>1 DEF CallRecord
  <2> HIDE DEF to
  <2> QED
    BY <1>1, <1>2, <2>1, <2>2, <2>3, <2>4, CallBInv
<1>3. ASSUME NEW a \in Replies \ {"forbidden", "denied"}, call' = Reply(c, a)
      PROVE  BInv'
  <2>1. answer(a) \in CallRecord
    BY <1>1 DEF CallRecord
  <2>2. call' = [call EXCEPT ![c] = answer(a)]
    BY <1>3 DEF Reply
  <2>3. /\ answer(a).at = "reply" /\ answer(a).known = old.known /\ answer(a).reply = a
        /\ answer(a).live = old.live /\ answer(a).groups = old.groups
    BY <1>1 DEF CallRecord
  <2> HIDE DEF answer
  <2> QED
    BY <1>1, <2>1, <2>2, <2>3, CallBInv
<1>4. CASE AskPool(c)
  BY <1>2, <1>3, <1>4 DEF AskPool, Without, Replies
<1>5. CASE LookUp(c)
  <2>1. /\ old.token \in Tokens /\ old.at = "lookup"
        /\ Found(old.token) => old.live
    BY <1>1, <1>5 DEF LookUp, BInv, Remembered, Presented, CallRecord, Found
  <2>2. Found(old.token) => /\ AccessGroup \in principals[sessions[old.token].subject]
                            /\ principals[sessions[old.token].subject] \in SUBSET Groups
    BY <2>1 DEF BInv, IInv, Provisioned, Found, Live
  <2>3. CASE ~Found(old.token)
    BY <1>2, <1>3, <1>5, <2>3 DEF LookUp, Without, Replies
  <2>4. CASE Found(old.token)
    <3> DEFINE groups == principals[sessions[old.token].subject]
               r == [old EXCEPT !.at = "handle", !.known = TRUE, !.groups = groups]
    <3>1. call' = [To(c, "handle") EXCEPT ![c].known = TRUE, ![c].groups = groups]
      BY <1>5, <2>2, <2>4 DEF LookUp
    <3>2. call' = [call EXCEPT ![c] = r]
      BY <1>1, <3>1 DEF To, BInv, BrokerTypeOK
    <3>3. r \in CallRecord
      BY <1>1, <2>2, <2>4 DEF CallRecord
    <3>4. /\ r.at = "handle" /\ r.live = old.live /\ r.groups = groups /\ r.reply = old.reply
      BY <1>1 DEF CallRecord
    <3> HIDE DEF r
    <3> QED
      BY <1>1, <2>1, <2>2, <2>4, <3>2, <3>3, <3>4, CallBInv
  <2> QED
    BY <2>3, <2>4
<1>6. CASE LookUpFails(c)
  BY <1>2, <1>3, <1>6 DEF LookUpFails, Without, Replies
<1>7. CASE Handle(c)
  <2>1. Answered(c) \in Replies \ {"forbidden", "denied"}
    BY <1>1 DEF Answered, Role, Replies
  <2> QED
    BY <1>3, <1>7, <2>1 DEF Handle
<1>8. CASE Finish(c)
  <2>1. /\ NoCall.at = "idle" /\ NoCall.known = FALSE /\ NoCall.reply = None
    BY DEF NoCall
  <2> QED
    BY <1>1, <1>8, <2>1, NoCallIsACall, NoneIsNoReply, CallBInv DEF Finish, Replies
<1> QED
  BY <1>4, <1>5, <1>6, <1>7, <1>8 DEF Serve

LEMMA SnapshotBInv == ASSUME BInv, SnapshotChanges PROVE BInv'
<1>1. IInv'
  BY NextIInv DEF BInv, SnapshotChanges
<1> QED
  BY <1>1 DEF SnapshotChanges, BInv, IInv, BrokerTypeOK, Remembered, Presented, KnownHasAccess,
     NobodyIsDenied, Stored, Live, vars

LEMMA NextBInv == BInv /\ [BrokerNext]_brokerVars => BInv'
<1> SUFFICES ASSUME BInv, [BrokerNext]_brokerVars PROVE BInv'
  OBVIOUS
<1>1. CASE UNCHANGED brokerVars
  <2>1. IInv'
    BY <1>1, NextIInv DEF BInv, brokerVars
  <2> QED
    BY <1>1, <2>1 DEF brokerVars, BInv, IInv, BrokerTypeOK, Remembered, Presented,
       KnownHasAccess, NobodyIsDenied, Stored, Live, vars
<1> QED
  BY <1>1, SessionsBInv, ServeBInv, ArriveBInv, SnapshotBInv DEF BrokerNext

\* The invariant holds of every state of the broker.
THEOREM BrokerInvariance == BrokerSpec => []BInv
BY InitBInv, NextBInv, PTL DEF BrokerSpec

\* Type correctness of the logins and the calls beside them.
THEOREM BrokerTypeCorrect == BrokerSpec => []BrokerTypeOK
<1>1. BInv => BrokerTypeOK
  BY DEF BInv
<1> QED BY <1>1, BrokerInvariance, PTL

\* Nobody is answered as somebody with a session that was over when the call
\* arrived, whatever logins, logouts and expiries run beside the call.
THEOREM ServedWasLiveAlways == BrokerSpec => []ServedWasLive
<1>1. BInv => ServedWasLive
  BY DEF BInv, KnownHasAccess, ServedWasLive
<1> QED BY <1>1, BrokerInvariance, PTL

\* Nobody with a live session is told that their access is gone: the access
\* group is checked before any claims are stored.
THEOREM NobodyDenied == BrokerSpec => []NobodyIsDenied
<1>1. BInv => NobodyIsDenied
  BY DEF BInv
<1> QED BY <1>1, BrokerInvariance, PTL
=============================================================================
