------------------------------- MODULE Readyz -------------------------------
(***************************************************************************)
(* The readiness endpoint (readyz, foundry-circle/src/http.rs) beside the  *)
(* database supervisor.  The supervisor keeps the pool and the last error  *)
(* under two locks, readyz reads one after the other, and any step of the  *)
(* supervisor may come between: an answer can be a pair that never was.    *)
(***************************************************************************)
EXTENDS DatabaseSupervisor

CONSTANT Probes  \* requests of readyz

VARIABLES
    probe,  \* where each request is, and what it has read
    failed  \* history: the supervisor has recorded an error before

readyzVars == <<vars, probe, failed>>

NoProbe == [at |-> "idle", ready |-> FALSE, error |-> FALSE]

ReadyzInit ==
    /\ Init
    /\ probe = [r \in Probes |-> NoProbe]
    /\ failed = FALSE

\* is_ready().await: the status of the answer is decided.
ReadPool(r) ==
    /\ probe[r].at = "idle"
    /\ probe' = [probe EXCEPT ![r].at = "error", ![r].ready = published # None]
    /\ UNCHANGED <<vars, failed>>

\* last_error().await: its category, if any, is added to the body.
ReadError(r) ==
    /\ probe[r].at = "error"
    /\ probe' = [probe EXCEPT ![r].at = "reply", ![r].error = lastError]
    /\ UNCHANGED <<vars, failed>>

\* The operators that a comment calls a mutant are not the code: each is a
\* plausible mistake in the definition below it, which a property must notice.

\* (mutant: the error is read first.)
ReadErrorFirst(r) ==
    \/ /\ probe[r].at = "idle"
       /\ probe' = [probe EXCEPT ![r].at = "error", ![r].error = lastError]
       /\ UNCHANGED <<vars, failed>>
    \/ /\ probe[r].at = "error"
       /\ probe' = [probe EXCEPT ![r].at = "reply", ![r].ready = published # None]
       /\ UNCHANGED <<vars, failed>>

Read(r) == ReadPool(r) \/ ReadError(r)

Reply(r) ==
    /\ probe[r].at = "reply"
    /\ probe' = [probe EXCEPT ![r] = NoProbe]
    /\ UNCHANGED <<vars, failed>>

ReadyzNext ==
    \/ Next /\ failed' = (failed \/ lastError') /\ UNCHANGED probe
    \/ \E r \in Probes : Read(r) \/ Reply(r)

ReadyzSpec == ReadyzInit /\ [][ReadyzNext]_readyzVars /\ Fairness

-----------------------------------------------------------------------------
(* Properties.                                                              *)

\* The type invariant: every variable holds what its declaration says.
ReadyzTypeOK ==
    /\ TypeOK
    /\ probe \in [Probes ->
          [at : {"idle", "error", "reply"}, ready : BOOLEAN, error : BOOLEAN]]
    /\ failed \in BOOLEAN

Decided(r, ready, error) ==
    /\ probe[r].at # "reply" /\ probe[r].at' = "reply"
    /\ probe[r].ready' = ready /\ probe[r].error' = error

\* What readyz says of the database was true in one piece: a 503 gives the reason
\* once anything has failed, unless the database was being withdrawn or has been
\* published meanwhile; a 200 with an error is about a database that has just
\* come or just gone.
AnswersAgree ==
    [][\A r \in Probes :
        /\ Decided(r, FALSE, FALSE) => ~failed \/ pc = "recordLoss" \/ published # None
        /\ Decided(r, TRUE, TRUE) => pc = "clearError" \/ published = None]_readyzVars
=============================================================================
