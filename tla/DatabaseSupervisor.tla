------------------------- MODULE DatabaseSupervisor -------------------------
(***************************************************************************)
(* The optional database of the broker: DatabaseState and its supervisor   *)
(* task in foundry-circle/src/http.rs, and the request handlers that use   *)
(* the pool.                                                               *)
(*                                                                         *)
(* The supervisor publishes a pool once PostgreSQL is reachable and        *)
(* migrated, probes it every five seconds, and withdraws and closes it     *)
(* when the probe fails.  A handler clones the published pool and takes    *)
(* one of its connections for a while; it may hold a pool that has been    *)
(* withdrawn since.  PostgreSQL and the pool (sqlx) are external.          *)
(***************************************************************************)
EXTENDS Naturals, FiniteSets

CONSTANTS
    Requests,        \* request handlers
    Pools,           \* identities of pools
    MaxConnections,  \* connections of a pool (five in the code)
    None             \* no pool

ASSUME NoneIsNoPool == None \notin Pools
ASSUME SomeConnections == MaxConnections \in Nat \ {0}

VARIABLES
    db,         \* PostgreSQL: "down", "up" or "unmigratable"
    url,        \* whether the database URL is known
    published,  \* DatabaseState.pool
    lastError,  \* DatabaseState.last_error: whether it holds a category
    pc,         \* where the supervisor is
    mine,       \* the pool in the supervisor's hands
    open,       \* pools that have not been closed
    migrated,   \* pools on which the migrations have succeeded
    handler     \* the pool each request has, and whether it has a connection

supervisor == <<published, lastError, pc, mine, open, migrated>>
vars == <<db, url, supervisor, handler>>

NoRequest == [at |-> "idle", pool |-> None]

\* Connections of pool p that are checked out.
InUse(p) == {r \in Requests : handler[r].at = "connected" /\ handler[r].pool = p}

\* acquire() on a clone of pool p.
CanAcquire(p) == p \in open /\ Cardinality(InUse(p)) < MaxConnections

Init ==
    /\ db \in {"down", "up", "unmigratable"}
    /\ url \in BOOLEAN
    /\ published = None
    /\ lastError = FALSE
    /\ pc = "loop"
    /\ mine = None
    /\ open = {}
    /\ migrated = {}
    /\ handler = [r \in Requests |-> NoRequest]

others == <<db, url, handler>>

-----------------------------------------------------------------------------
(* supervise().                                                             *)

\* The pool is read and cloned; without one, the URL is looked for.
LoopStart ==
    /\ pc = "loop"
    /\ mine' = published
    /\ pc' = IF published # None THEN "probe" ELSE IF url THEN "connect" ELSE "asleep"
    /\ UNCHANGED <<published, lastError, open, migrated, others>>

\* The operators that a comment calls a mutant are not the code: each is a
\* plausible mistake in the definition below it, which a property must notice.

\* (mutant: the pool alone is asked.)
ProbePool ==
    /\ pc = "probe"
    /\ CanAcquire(mine)
    /\ pc' = "asleep"
    /\ mine' = None
    /\ UNCHANGED <<published, lastError, open, migrated, others>>

\* SELECT 1 needs a connection of the pool and a database that answers.
ProbeOk ==
    /\ pc = "probe"
    /\ db # "down" /\ CanAcquire(mine)
    /\ pc' = "asleep"
    /\ mine' = None
    /\ UNCHANGED <<published, lastError, open, migrated, others>>

\* (mutant: the pool stays published while it is closed.)
ProbeFailsQuietly ==
    /\ pc = "probe"
    /\ db = "down" \/ ~CanAcquire(mine)
    /\ pc' = "recordLoss"
    /\ UNCHANGED <<published, lastError, mine, open, migrated, others>>

\* It fails when the database is down, or times out on a pool that is
\* exhausted by the handlers.
ProbeFails ==
    /\ pc = "probe"
    /\ db = "down" \/ ~CanAcquire(mine)
    /\ published' = None
    /\ pc' = "recordLoss"
    /\ UNCHANGED <<lastError, mine, open, migrated, others>>

RecordLoss ==
    /\ pc = "recordLoss"
    /\ lastError' = TRUE
    /\ pc' = "close"
    /\ UNCHANGED <<published, mine, open, migrated, others>>

\* pool.close() refuses new connections at once and waits for those in use.
CloseBegins ==
    /\ pc = "close"
    /\ open' = open \ {mine}
    /\ pc' = "closing"
    /\ UNCHANGED <<published, lastError, mine, migrated, others>>

\* (mutant: the close is not awaited.)
CloseDetached ==
    /\ pc = "closing"
    /\ mine' = None
    /\ pc' = "asleep"
    /\ UNCHANGED <<published, lastError, open, migrated, others>>

CloseEnds ==
    /\ pc = "closing"
    /\ InUse(mine) = {}
    /\ mine' = None
    /\ pc' = "asleep"
    /\ UNCHANGED <<published, lastError, open, migrated, others>>

\* PgPoolOptions::connect; a new pool is none that anybody still has.
ConnectOk(p) ==
    /\ pc = "connect"
    /\ db # "down"
    /\ p \notin open /\ \A r \in Requests : handler[r].pool # p
    /\ mine' = p
    /\ open' = open \cup {p}
    /\ migrated' = migrated \ {p}
    /\ pc' = "migrate"
    /\ UNCHANGED <<published, lastError, others>>

ConnectFails ==
    /\ pc = "connect"
    /\ db = "down"
    /\ lastError' = TRUE
    /\ pc' = "asleep"
    /\ UNCHANGED <<published, mine, open, migrated, others>>

MigrateOk ==
    /\ pc = "migrate"
    /\ db = "up"
    /\ migrated' = migrated \cup {mine}
    /\ pc' = "publish"
    /\ UNCHANGED <<published, lastError, mine, open, others>>

\* (mutant: the task ends.)
MigrateGivesUp ==
    /\ pc = "migrate"
    /\ db # "up"
    /\ lastError' = TRUE
    /\ pc' = "gone"
    /\ UNCHANGED <<published, mine, open, migrated, others>>

MigrateFails ==
    /\ pc = "migrate"
    /\ db # "up"
    /\ lastError' = TRUE
    /\ pc' = "close"
    /\ UNCHANGED <<published, mine, open, migrated, others>>

Publish ==
    /\ pc = "publish"
    /\ published' = mine
    /\ pc' = "clearError"
    /\ UNCHANGED <<lastError, mine, open, migrated, others>>

ClearError ==
    /\ pc = "clearError"
    /\ lastError' = FALSE
    /\ mine' = None
    /\ pc' = "asleep"
    /\ UNCHANGED <<published, open, migrated, others>>

\* Five seconds later.
Wake == pc = "asleep" /\ pc' = "loop"
           /\ UNCHANGED <<published, lastError, mine, open, migrated, others>>

Supervise ==
    \/ LoopStart \/ ProbeOk \/ ProbeFails \/ RecordLoss \/ CloseBegins \/ CloseEnds
    \/ \E p \in Pools : ConnectOk(p)
    \/ ConnectFails \/ MigrateOk \/ MigrateFails \/ Publish \/ ClearError \/ Wake

-----------------------------------------------------------------------------
(* Request handlers: every handler of auth.rs that asks for the pool.       *)

handlerOnly == <<db, url, supervisor>>

ClonePool(r) ==
    /\ handler[r].at = "idle"
    /\ published # None
    /\ handler' = [handler EXCEPT ![r] = [at |-> "cloned", pool |-> published]]
    /\ UNCHANGED handlerOnly

Acquire(r) ==
    /\ handler[r].at = "cloned"
    /\ CanAcquire(handler[r].pool)
    /\ handler' = [handler EXCEPT ![r].at = "connected"]
    /\ UNCHANGED handlerOnly

\* The statements are done, or the pool was closed, exhausted or lost, or the
\* client went away: clone and connection are dropped.
Drop(r) ==
    /\ handler[r].at # "idle"
    /\ handler' = [handler EXCEPT ![r] = NoRequest]
    /\ UNCHANGED handlerOnly

-----------------------------------------------------------------------------
(* PostgreSQL and the file that holds its URL (external).                   *)

DatabaseChanges ==
    /\ db' \in {"down", "up", "unmigratable"} \ {db}
    /\ UNCHANGED <<url, supervisor, handler>>

UrlChanges == url' = ~url /\ UNCHANGED <<db, supervisor, handler>>

Next ==
    \/ Supervise
    \/ \E r \in Requests : ClonePool(r) \/ Acquire(r) \/ Drop(r)
    \/ DatabaseChanges \/ UrlChanges

\* The supervisor is always scheduled and its calls answer; a handler that has a
\* pool is done with it some day.
Fairness == WF_vars(Supervise) /\ \A r \in Requests : WF_vars(Drop(r))

Spec == Init /\ [][Next]_vars /\ Fairness

-----------------------------------------------------------------------------
(* Properties.                                                              *)

\* The type invariant: every variable holds what its declaration says.
TypeOK ==
    /\ db \in {"down", "up", "unmigratable"}
    /\ url \in BOOLEAN
    /\ published \in Pools \cup {None}
    /\ lastError \in BOOLEAN
    /\ pc \in {"loop", "probe", "recordLoss", "close", "closing", "connect", "migrate",
               "publish", "clearError", "asleep"}
    /\ mine \in Pools \cup {None}
    /\ open \subseteq Pools
    /\ migrated \subseteq Pools
    /\ handler \in [Requests -> [at : {"idle", "cloned", "connected"}, pool : Pools \cup {None}]]

\* What a handler can clone is open and migrated: a pool is withdrawn before it
\* is closed and published after its migrations.
PublishedPoolIsUsable == published # None => published \in open /\ published \in migrated

\* The broker never has two pools: the next one is connected only after the
\* last connection of the previous one has come back.  So it never has more
\* than MaxConnections connections, however often the database is lost.
OnePoolAtATime ==
    /\ Cardinality(open) <= 1
    /\ Cardinality({r \in Requests : handler[r].at = "connected"}) <= MaxConnections

\* A database that stays up and whose URL is known is published again and again:
\* a failed probe, an exhausted pool or handlers with connections of an old pool
\* delay the supervisor but never stop it.
DatabaseComesBack == <>[](db = "up" /\ url) => []<>(published # None)

\* A database that stays down is not served for ever from a dead pool.
OutageIsNoticed == <>[](db = "down") => <>[](published = None)
=============================================================================
