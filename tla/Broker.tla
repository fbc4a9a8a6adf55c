------------------------------- MODULE Broker -------------------------------
(***************************************************************************)
(* The API and the console of the broker (require_session, optional_session*)
(* and the handlers of foundry-circle/src/http.rs) beside the logins and   *)
(* logouts that change who is admitted, the supervisor that publishes and  *)
(* withdraws the pool and the driver that publishes the world's state.     *)
(*                                                                         *)
(* A call looks its session up once and keeps what it found: by the time   *)
(* it is answered the session may be over and the claims rewritten.        *)
(***************************************************************************)
EXTENDS OidcSessions

CONSTANTS
    Calls,       \* requests served at once
    AdminGroup,  \* the group that may send commands
    GmGroup      \* the group that sees the setup link, or None

ASSUME AdminIsAGroup == AdminGroup \in Groups

VARIABLES
    worldReady,  \* the snapshot of the driver says Ready
    call         \* what each call is doing; known: it has found a principal; live is
                 \* history: its session was live when it arrived

brokerVars == <<vars, worldReady, call>>

\* discovery, me and capabilities; world and document; command; the console page.
Routes == {"open", "world", "command", "console"}

Replies == {"noDatabase", "login", "forbidden", "lookupError", "signedOut", "denied",
            "admin", "gm", "player", "adminRequired", "worldNotReady", "served"}
ASSUME NoneIsNoReply == None \notin Replies

NoCall == [at |-> "idle", route |-> None, token |-> None, known |-> FALSE,
           groups |-> {}, reply |-> None, live |-> FALSE]

BrokerInit ==
    /\ Init
    /\ worldReady \in BOOLEAN
    /\ call = [c \in Calls |-> NoCall]

To(c, l) == [call EXCEPT ![c].at = l]
Reply(c, answer) == [call EXCEPT ![c].at = "reply", ![c].reply = answer]

Arrive(c, b, route) ==
    /\ call[c].at = "idle"
    /\ call' = [call EXCEPT ![c] =
           [NoCall EXCEPT !.at = "pool", !.route = route, !.token = cookies[b],
                          !.live = cookies[b] # None /\ Live(cookies[b])]]
    /\ UNCHANGED <<vars, worldReady>>

\* No principal: the page is rendered for nobody, the API answers.
Without(c, answer) ==
    IF call[c].route = "console" THEN To(c, "handle") ELSE Reply(c, answer)

\* The pool is cloned and the cookie read.
AskPool(c) ==
    /\ call[c].at = "pool"
    /\ call' = IF ~pool THEN Without(c, "noDatabase")
               ELSE IF call[c].token = None THEN Without(c, "login")
               ELSE To(c, "lookup")
    /\ UNCHANGED <<vars, worldReady>>

\* The operators that a comment calls a mutant are not the code: each is a
\* plausible mistake in the definition below it, which a property must notice.

\* (mutant: the query does not look at revoked_at and expires_at.)
Known(t) == Stored(t)
Found(t) == Live(t)

\* session_principal: one query of the session and the stored claims.
LookUp(c) ==
    /\ call[c].at = "lookup"
    /\ LET t == call[c].token
           groups == principals[sessions[t].subject]
       IN  call' = IF ~Found(t) THEN Without(c, "login")
                   ELSE IF AccessGroup \notin groups /\ call[c].route # "console"
                   THEN Reply(c, "forbidden")
                   ELSE [To(c, "handle") EXCEPT ![c].known = TRUE, ![c].groups = groups]
    /\ UNCHANGED <<vars, worldReady>>

LookUpFails(c) ==
    /\ call[c].at = "lookup"
    /\ call' = Without(c, "lookupError")
    /\ UNCHANGED <<vars, worldReady>>

\* Principal.role.
Role(groups) == IF AdminGroup \in groups THEN "admin"
                ELSE IF GmGroup \in groups THEN "gm" ELSE "player"

\* console_view, and the handlers: who may, then whether the world is ready.
Answered(c) ==
    LET route == call[c].route
        groups == call[c].groups
    IN  CASE route = "console" /\ ~call[c].known -> "signedOut"
          [] route = "console" /\ call[c].known ->
                 IF AccessGroup \in groups THEN Role(groups) ELSE "denied"
          [] route = "command" /\ AdminGroup \notin groups -> "adminRequired"
          [] route \in {"command", "world"} /\ ~worldReady -> "worldNotReady"
          [] OTHER -> "served"

Handle(c) ==
    /\ call[c].at = "handle"
    /\ call' = Reply(c, Answered(c))
    /\ UNCHANGED <<vars, worldReady>>

\* The answer is sent, or the client has gone away.
Finish(c) ==
    /\ call[c].at # "idle"
    /\ call' = [call EXCEPT ![c] = NoCall]
    /\ UNCHANGED <<vars, worldReady>>

SnapshotChanges == worldReady' = ~worldReady /\ UNCHANGED <<vars, call>>

Serve(c) == AskPool(c) \/ LookUp(c) \/ LookUpFails(c) \/ Handle(c) \/ Finish(c)

BrokerNext ==
    \/ Next /\ UNCHANGED <<worldReady, call>>
    \/ \E c \in Calls : Serve(c) \/ \E b \in Browsers, route \in Routes : Arrive(c, b, route)
    \/ SnapshotChanges

BrokerSpec == BrokerInit /\ [][BrokerNext]_brokerVars /\ Fairness

-----------------------------------------------------------------------------
(* Properties.                                                              *)

\* The type invariant: every variable holds what its declaration says.
BrokerTypeOK ==
    /\ TypeOK
    /\ worldReady \in BOOLEAN
    /\ call \in [Calls ->
          [at : {"idle", "pool", "lookup", "handle", "reply"}, route : Routes \cup {None},
           token : Tokens \cup {None}, known : BOOLEAN, groups : SUBSET Groups,
           reply : Replies \cup {None}, live : BOOLEAN]]

\* Who is answered as somebody had a live session when the call arrived: no
\* logout, expiry, login or retry that runs beside the call lets a dead token in.
ServedWasLive == \A c \in Calls : call[c].known => call[c].live

\* Whoever is logged in has access: the answers "Foundry Circle access is no
\* longer provisioned" and the console's Denied view are never given while the
\* configured access group stays the same.
NobodyIsDenied == \A c \in Calls : call[c].reply \notin {"forbidden", "denied"}
=============================================================================
