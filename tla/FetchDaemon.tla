---------------------------- MODULE FetchDaemon ----------------------------
(***************************************************************************)
(* The acquisition daemon foundryvtt-fetchd (daemon.rs) and its clients,   *)
(* the build hooks (hook.rs), on a cache directory of its own.             *)
(*                                                                         *)
(* A hook connects, sends the release and hash its derivation declares and *)
(* waits; each connection has a handler, and the handlers take turns on    *)
(* the cache and the account under one mutex.  The daemon may die at any   *)
(* moment, with all its handlers, and is started again by systemd.         *)
(***************************************************************************)
EXTENDS AccountFlow, Integers

CONSTANT Derivations  \* the release and the hash each derivation declares

ASSUME DerivationsDeclare == Derivations \subseteq Releases \X Archives

VARIABLES
    daemon,   \* "down", "opening" or "up"
    lock,     \* the handler that holds the mutex
    want,     \* the hash a client expects
    promised  \* history: releases and hashes that were answered as ready

service == <<daemon, lock, want, promised>>
vars    == <<store, modes, call, tries, service>>

Init ==
    /\ CacheInit
    /\ tries = [p \in Procs |-> 0]
    /\ daemon = "down"
    /\ lock = None
    /\ want = [p \in Procs |-> None]
    /\ promised = {}

-----------------------------------------------------------------------------
(* main                                                                     *)

\* Cache::new: for a moment builds cannot reach the files they were promised.
StartDaemon ==
    /\ daemon = "down"
    /\ daemon' = "opening"
    /\ OpenCache
    /\ UNCHANGED <<store, call, tries, lock, want, promised>>

\* The operators that a comment calls a mutant are not the code: each is a
\* plausible mistake in the definition below it, which a property must notice.

\* (mutant: the cache is shared only when something has been stored.)
ListenAtOnce ==
    /\ daemon = "opening"
    /\ daemon' = "up"
    /\ UNCHANGED <<store, modes, call, tries, lock, want, promised>>

\* prepare_shared_read_cache; then the stale socket is removed and a new one bound.
Listen ==
    /\ daemon = "opening"
    /\ daemon' = "up"
    /\ rootMode' = "shared"
    /\ shared' = {k \in Releases : archive[k] # None}
    /\ UNCHANGED <<store, call, tries, lock, want, promised>>

\* The daemon is killed, restarted or fails to start: every connection is closed.
Crash ==
    /\ daemon # "down"
    /\ daemon' = "down"
    /\ lock' = None
    /\ at' = [p \in Procs |-> "idle"]
    /\ release' = [p \in Procs |-> None]
    /\ input' = [p \in Procs |-> None]
    /\ hash' = [p \in Procs |-> None]
    /\ record' = [p \in Procs |-> None]
    /\ tries' = [p \in Procs |-> 0]
    /\ want' = [p \in Procs |-> None]
    /\ UNCHANGED <<store, modes, promised>>

-----------------------------------------------------------------------------
(* hook.rs, main, and handle: one connection.                               *)

\* The derivation has the markers; the hook connects, and the daemon accepts.
Connect(p, k, a) ==
    /\ at[p] = "idle" /\ daemon = "up"
    /\ Goto(p, "reading")
    /\ release' = [release EXCEPT ![p] = k]
    /\ want' = [want EXCEPT ![p] = a]
    /\ UNCHANGED <<store, modes, input, hash, record, tries, daemon, lock, promised>>

\* The line arrives; a client may also stay silent.
ReadRequest(p) ==
    /\ at[p] = "reading"
    /\ Goto(p, "waiting")
    /\ UNCHANGED <<store, modes, release, input, hash, record, tries, service>>

\* It is no request, or has another version, platform, release or kind of hash.
Reject(p) ==
    /\ at[p] = "reading"
    /\ Goto(p, "error")
    /\ UNCHANGED <<store, modes, release, input, hash, record, tries, service>>

\* The hook prints the path, or fails: on an error, and on a closed connection.
Leave(p) ==
    /\ at[p] \in {"ready", "error"}
    /\ Goto(p, "idle")
    /\ release' = [release EXCEPT ![p] = None]
    /\ input' = [input EXCEPT ![p] = None]
    /\ hash' = [hash EXCEPT ![p] = None]
    /\ record' = [record EXCEPT ![p] = None]
    /\ want' = [want EXCEPT ![p] = None]
    /\ UNCHANGED <<store, modes, tries, daemon, lock, promised>>

-----------------------------------------------------------------------------
(* acquire                                                                  *)

\* (mutant: the guard is dropped where it is made.)
TakeLockAndDrop(p) ==
    /\ at[p] = "waiting"
    /\ lock = None
    /\ Goto(p, "get")
    /\ UNCHANGED <<store, modes, release, input, hash, record, tries, service>>

\* The mutex is taken, the cache asked.
TakeLock(p) ==
    /\ at[p] = "waiting"
    /\ lock = None
    /\ lock' = p
    /\ Goto(p, "get")
    /\ UNCHANGED <<store, modes, release, input, hash, record, tries, daemon, want, promised>>

\* Nothing is cached: acquire_account.
LogIn(p) ==
    /\ at[p] = "absent"
    /\ Goto(p, "login")
    /\ UNCHANGED <<store, modes, release, input, hash, record, tries, service>>

\* (mutant: any archive of the release will do.)
AcceptAny(p) ==
    /\ at[p] \in {"found", "stored"}
    /\ Goto(p, "shareRoot")
    /\ UNCHANGED <<store, modes, release, input, hash, record, tries, service>>

\* The record has the declared hash, an SRI.
Accept(p) ==
    /\ at[p] \in {"found", "stored"}
    /\ record[p].sri = want[p]
    /\ Goto(p, "shareRoot")
    /\ UNCHANGED <<store, modes, release, input, hash, record, tries, service>>

\* (mutants: an archive with another hash is fetched again; the mutex is kept.)
FailOrFetchAgain(p) ==
    /\ at[p] = "failed" \/ (at[p] \in {"found", "stored"} /\ record[p].sri # want[p])
    /\ Goto(p, IF at[p] = "found" THEN "login" ELSE "error")
    /\ lock' = IF at[p] = "found" THEN lock ELSE None
    /\ UNCHANGED <<store, modes, release, input, hash, record, tries, daemon, want, promised>>
FailLocked(p) ==
    /\ at[p] = "failed" \/ (at[p] \in {"found", "stored"} /\ record[p].sri # want[p])
    /\ Goto(p, "error")
    /\ UNCHANGED <<store, modes, release, input, hash, record, tries, service>>

\* It has another one, now and whenever it is asked for; or something failed.
Fail(p) ==
    /\ at[p] = "failed" \/ (at[p] \in {"found", "stored"} /\ record[p].sri # want[p])
    /\ Goto(p, "error")
    /\ lock' = None
    /\ UNCHANGED <<store, modes, release, input, hash, record, tries, daemon, want, promised>>

\* The archive is readable, the answer written after the mutex is free.
Ready(p) ==
    /\ at[p] = "shared"
    /\ Goto(p, "ready")
    /\ lock' = None
    /\ promised' = promised \cup {<<release[p], want[p]>>}
    /\ UNCHANGED <<store, modes, release, input, hash, record, tries, daemon, want>>

Handle(p) ==
    \/ LogIn(p) \/ Accept(p) \/ Fail(p) \/ Ready(p) \/ Leave(p)
    \/ FlowStep(p) /\ UNCHANGED service
    \/ /\ CacheStep(p) \/ RecordFails(p) \/ ShareRoot(p) \/ ShareFiles(p)
       /\ UNCHANGED <<tries, service>>

Next ==
    \/ StartDaemon \/ Listen \/ Crash
    \/ \E p \in Procs :
        \/ ReadRequest(p) \/ Reject(p) \/ TakeLock(p) \/ Handle(p)
        \/ \E d \in Derivations : Connect(p, d[1], d[2])

\* Handlers run and their requests time out; the mutex serves its waiters in
\* turn.  Nobody has to send a request, and the daemon need not crash or start.
Fairness == \A p \in Procs : WF_vars(Handle(p)) /\ SF_vars(TakeLock(p))

Spec == Init /\ [][Next]_vars /\ Fairness

-----------------------------------------------------------------------------
(* Properties.                                                              *)

\* What a handler does with the mutex.
Critical == {"get", "hash", "absent", "found", "put", "look", "install", "record",
             "publish", "stored", "shareRoot", "shareFiles", "shared", "failed"} \cup Requests

\* The type invariant: every variable holds what its declaration says.
TypeOK ==
    /\ CacheTypeOK /\ FlowTypeOK
    /\ at \in [Procs -> {"idle", "reading", "waiting", "ready", "error"} \cup Critical]
    /\ daemon \in {"down", "opening", "up"}
    /\ lock \in Procs \cup {None}
    /\ want \in [Procs -> Archives \cup {None}]
    /\ promised \subseteq Releases \X Archives

\* The archive and the sidecar of a release never disagree: unlike the shared
\* cache of the command line, the daemon's survives crashes between the two
\* renames, because under the mutex only a release without a sidecar is fetched.
CacheAgrees ==
    \A k \in Releases : sidecar[k] # None =>
        sidecar[k] = Of(archive[k]) /\ Valid(archive[k], k)

\* A path that was answered as ready holds, for ever, the archive with the
\* declared hash, whatever is asked, fetched or restarted afterwards.
PromisesAreKept ==
    \A d \in promised : archive[d[1]] = d[2] /\ ReleaseOf[d[2]] = d[1]

\* While the daemon is up, the build group can read every such archive.
PromisesAreReadable ==
    daemon = "up" => \A d \in promised : rootMode = "shared" /\ d[1] \in shared

\* The site sees one session of the account at a time, and only for a release
\* that is not cached.
OneLoginAtATime ==
    \A p, q \in Procs : at[p] \in Requests =>
        /\ at[q] \in Requests => p = q
        /\ sidecar[release[p]] = None

\* A request that has been sent is answered unless the daemon dies, also while
\* other clients keep their connections open in silence.
RequestsAreAnswered == \A p \in Procs : at[p] = "waiting" ~> at[p] \in {"ready", "error", "idle"}

\* How far a handler is from its answer: the attempts of its requests and the
\* steps of the cache that are left.
WorkLeft(p) ==
    CASE at[p] = "reading"  -> 4 * Attempts + 13
      [] at[p] = "waiting"  -> 4 * Attempts + 12
      [] at[p] = "get"      -> 4 * Attempts + 11
      [] at[p] = "absent"   -> 4 * Attempts + 10
      [] at[p] = "login"    -> 4 * Attempts + 9 - tries[p]
      [] at[p] = "submit"   -> 3 * Attempts + 9 - tries[p]
      [] at[p] = "release"  -> 2 * Attempts + 9 - tries[p]
      [] at[p] = "download" -> Attempts + 9 - tries[p]
      [] at[p] = "put"      -> 9
      [] at[p] = "look"     -> 8
      [] at[p] = "install"  -> 7
      [] at[p] = "record"   -> 6
      [] at[p] \in {"publish", "hash"} -> 5
      [] at[p] \in {"found", "stored"} -> 4
      [] at[p] = "shareRoot"           -> 3
      [] at[p] = "shareFiles"          -> 2
      [] at[p] \in {"shared", "failed"} -> 1
      [] OTHER -> 0

\* Whatever the site answers and the other handlers do, every step of a handler
\* that does not end its connection brings it closer to its answer: nothing is
\* asked for, or fetched, twice.
MovesOnStep ==
    \A p \in Procs :
        /\ at[p] # "idle" /\ at'[p] # "idle"
        /\ at'[p] # at[p] \/ tries'[p] # tries[p]
        => WorkLeft(p)' < WorkLeft(p)
HandlersMoveOn == [][MovesOnStep]_vars

-----------------------------------------------------------------------------
(* The daemon implements FetchService: a release is served once its sidecar *)
(* is there.                                                                *)

served == [k \in Releases |-> IF sidecar[k] = None THEN None ELSE archive[k]]

phase == [p \in Procs |->
    CASE at[p] = "idle" -> "away"
      [] at[p] \in {"ready", "error"} -> at[p]
      [] OTHER -> "waiting"]

Service == INSTANCE FetchService
             WITH Clients <- Procs, store <- served, phase <- phase, asked <- release

\* Every step of the daemon is one the abstract service may take: what is served
\* is never replaced, and "ready" is said of the wanted archive only.
ImplementsService == Service!Spec
=============================================================================
