---------------------------- MODULE LoginService ----------------------------
(***************************************************************************)
(* What the logins of the broker promise: a login is offered once, taken   *)
(* once, and opens one session at most, for a person who had access when   *)
(* they were identified.  A session belongs to that person for ever and    *)
(* ends for good.  Tables, row locks, requests, failures and the clock are *)
(* left to OidcSessions.                                                   *)
(***************************************************************************)
CONSTANTS Logins, Tokens, Subjects, None

VARIABLES
    provisioned,  \* the people who have access
    stage,        \* of each login: "new", "offered", "taken" or "over"
    admitted,     \* who has been identified in a login and has access
    owner         \* of each token's session, with the login it came from

vars == <<provisioned, stage, admitted, owner>>

NoSession == [is |-> "none", subject |-> None, login |-> None]

Init ==
    /\ provisioned \in SUBSET Subjects
    /\ stage = [l \in Logins |-> "new"]
    /\ admitted = [l \in Logins |-> {}]
    /\ owner = [t \in Tokens |-> NoSession]

Provision ==
    /\ provisioned' \in SUBSET Subjects
    /\ UNCHANGED <<stage, admitted, owner>>

Offer(l) ==
    /\ stage[l] = "new"
    /\ stage' = [stage EXCEPT ![l] = "offered"]
    /\ UNCHANGED <<provisioned, admitted, owner>>

Take(l) ==
    /\ stage[l] = "offered"
    /\ stage' = [stage EXCEPT ![l] = "taken"]
    /\ UNCHANGED <<provisioned, admitted, owner>>

Admit(l, u) ==
    /\ stage[l] = "taken" /\ admitted[l] = {}
    /\ u \in provisioned
    /\ admitted' = [admitted EXCEPT ![l] = {u}]
    /\ UNCHANGED <<provisioned, stage, owner>>

\* The login fails, or is refused.
Close(l) ==
    /\ stage[l] \in {"offered", "taken"}
    /\ stage' = [stage EXCEPT ![l] = "over"]
    /\ admitted' = [admitted EXCEPT ![l] = {}]
    /\ UNCHANGED <<provisioned, owner>>

\* The session is opened; it may have ended by then.
Grant(l, u, t) ==
    /\ stage[l] = "taken" /\ u \in admitted[l]
    /\ owner[t] = NoSession
    /\ stage' = [stage EXCEPT ![l] = "over"]
    /\ admitted' = [admitted EXCEPT ![l] = {}]
    /\ \E is \in {"live", "over"} :
          owner' = [owner EXCEPT ![t] = [is |-> is, subject |-> u, login |-> l]]
    /\ UNCHANGED provisioned

\* Sessions are revoked, or expire.
End(T) ==
    /\ \A t \in T : owner[t].is = "live"
    /\ owner' = [t \in Tokens |-> IF t \in T THEN [owner[t] EXCEPT !.is = "over"] ELSE owner[t]]
    /\ UNCHANGED <<provisioned, stage, admitted>>

Next ==
    \/ Provision
    \/ \E l \in Logins : Offer(l) \/ Take(l) \/ Close(l)
    \/ \E l \in Logins, u \in Subjects : Admit(l, u) \/ \E t \in Tokens : Grant(l, u, t)
    \/ \E T \in SUBSET Tokens : End(T)

Spec == Init /\ [][Next]_vars
=============================================================================
