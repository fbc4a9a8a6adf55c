---------------------------- MODULE FetchService ----------------------------
(***************************************************************************)
(* What foundryvtt-fetchd promises to the builds: a client asks for the    *)
(* archive of a release by its hash and is given that archive or an error, *)
(* or loses its connection.  The archive of a release is fetched once and  *)
(* never replaced, so a path that was handed out names the same bytes for  *)
(* ever.  How it is fetched, cached and shared is left to FetchDaemon.     *)
(***************************************************************************)
CONSTANTS Clients, Releases, Archives, ReleaseOf, None

VARIABLES
    store,    \* the archive each release is served from
    phase,    \* of each client
    asked,    \* the release it wants
    want      \* the hash it wants

vars == <<store, phase, asked, want>>

Init ==
    /\ store = [k \in Releases |-> None]
    /\ phase = [c \in Clients |-> "away"]
    /\ asked = [c \in Clients |-> None]
    /\ want = [c \in Clients |-> None]

Ask(c, k, a) ==
    /\ phase[c] = "away"
    /\ phase' = [phase EXCEPT ![c] = "waiting"]
    /\ asked' = [asked EXCEPT ![c] = k]
    /\ want' = [want EXCEPT ![c] = a]
    /\ UNCHANGED store

Fetch(k, a) ==
    /\ store[k] = None
    /\ ReleaseOf[a] = k
    /\ store' = [store EXCEPT ![k] = a]
    /\ UNCHANGED <<phase, asked, want>>

Answer(c, reply) ==
    /\ phase[c] = "waiting"
    /\ reply = "ready" => store[asked[c]] = want[c]
    /\ phase' = [phase EXCEPT ![c] = reply]
    /\ UNCHANGED <<store, asked, want>>

\* Clients have their answers, or the service has died.
Gone(C) ==
    /\ phase' = [c \in Clients |-> IF c \in C THEN "away" ELSE phase[c]]
    /\ asked' = [c \in Clients |-> IF c \in C THEN None ELSE asked[c]]
    /\ want' = [c \in Clients |-> IF c \in C THEN None ELSE want[c]]
    /\ UNCHANGED store

Next ==
    \/ \E c \in Clients, k \in Releases, a \in Archives : Ask(c, k, a)
    \/ \E k \in Releases, a \in Archives : Fetch(k, a)
    \/ \E c \in Clients, reply \in {"ready", "error"} : Answer(c, reply)
    \/ \E C \in SUBSET Clients : Gone(C)

Spec == Init /\ [][Next]_vars
=============================================================================
