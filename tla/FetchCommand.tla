---------------------------- MODULE FetchCommand ----------------------------
(***************************************************************************)
(* The command line foundryvtt-fetch (main.rs) and the order of sources in *)
(* acquire (lib.rs): the commands archive, account and acquire as          *)
(* processes that share one cache directory without a lock.                *)
(*                                                                         *)
(* The file given to `archive' may change while it is cached, somebody may *)
(* replace the files of the cache, and a process may be killed.            *)
(***************************************************************************)
EXTENDS AccountFlow, Integers

CONSTANT MaxFaults  \* bound on kills, failed renames and changes by others

ASSUME FaultsAreNatural == MaxFaults \in Nat

VARIABLES
    source,   \* where the process is getting the archive from
    plan,     \* what acquire tries after that
    faults,   \* faults so far
    tampered, \* history: releases whose files in the cache somebody replaced
    changed   \* history: releases put from a file that changed meanwhile

command == <<source, plan>>
history == <<faults, tampered, changed>>
vars    == <<store, modes, call, tries, command, history>>

Init ==
    /\ CacheInit
    /\ tries = [p \in Procs |-> 0]
    /\ source = [p \in Procs |-> None]
    /\ plan = [p \in Procs |-> {}]
    /\ faults = 0
    /\ tampered = {}
    /\ changed = {}

Fault == faults < MaxFaults /\ faults' = faults + 1

-----------------------------------------------------------------------------
(* main: the arguments are good and the credentials of `account' readable.  *)

Begin(p, k, l, src, next, a) ==
    /\ at[p] = "idle"
    /\ Goto(p, l)
    /\ OpenCache
    /\ release' = [release EXCEPT ![p] = k]
    /\ input' = [input EXCEPT ![p] = a]
    /\ source' = [source EXCEPT ![p] = src]
    /\ plan' = [plan EXCEPT ![p] = next]
    /\ UNCHANGED <<store, hash, record, tries, history>>

ArchiveCommand(p, k, a) == Begin(p, k, "put", "archive", {}, a)
AccountCommand(p, k)    == Begin(p, k, "login", "account", {}, None)

\* What acquire tries: a URL, an account of which both files or one is given,
\* and the cache in the end; the cache alone if it is offline.
Plans == {s \cup {"cache"} : s \in SUBSET {"url", "account", "half"}}
            \ {{"url", "account", "half", "cache"}, {"account", "half", "cache"}}

AcquireCommand(p, k, s) == Begin(p, k, "choose", "none", s, None)

-----------------------------------------------------------------------------
(* acquire                                                                  *)

Use(p, src, l) ==
    /\ at[p] \in {"choose", "failed"}
    /\ src \in plan[p]
    /\ Goto(p, l)
    /\ source' = [source EXCEPT ![p] = src]
    /\ plan' = [plan EXCEPT ![p] = @ \ {src}]
    /\ UNCHANGED <<store, modes, release, input, hash, record, tries, history>>

\* acquire_signed_url: the file holds an acceptable URL, or not.
UseUrl(p) == Use(p, "url", "download") \/ Use(p, "url", "failed")

\* The operators that a comment calls a mutant are not the code: each is a
\* plausible mistake in the definition below it, which a property must notice.

\* (mutant: a refused login is tried again and again.)
UseAccountAgain(p) ==
    /\ "url" \notin plan[p]
    /\ at[p] \in {"choose", "failed"}
    /\ "account" \in plan[p]
    /\ Goto(p, "login")
    /\ source' = [source EXCEPT ![p] = "account"]
    /\ UNCHANGED <<store, modes, release, input, hash, record, tries, plan, history>>

UseAccount(p) == "url" \notin plan[p] /\ Use(p, "account", "login")

UseCache(p) == plan[p] = {"cache"} /\ Use(p, "cache", "get")

\* The process ends.
Leave(p) ==
    /\ Goto(p, "idle")
    /\ release' = [release EXCEPT ![p] = None]
    /\ input' = [input EXCEPT ![p] = None]
    /\ hash' = [hash EXCEPT ![p] = None]
    /\ record' = [record EXCEPT ![p] = None]
    /\ tries' = [tries EXCEPT ![p] = 0]
    /\ source' = [source EXCEPT ![p] = None]
    /\ plan' = [plan EXCEPT ![p] = {}]
    /\ UNCHANGED <<store, modes, tampered, changed>>

\* Half an account, or credentials that cannot be read, end acquire at once: the
\* cache is not asked.
GivesUp(p) ==
    /\ at[p] \in {"choose", "failed"}
    /\ "url" \notin plan[p] /\ plan[p] \cap {"account", "half"} # {}
    /\ Leave(p) /\ UNCHANGED faults

\* The artifact is printed, or the error of the last source.
Exit(p) ==
    /\ \/ at[p] \in {"found", "stored", "absent"}
       \/ at[p] = "failed" /\ plan[p] = {}
    /\ Leave(p) /\ UNCHANGED faults

-----------------------------------------------------------------------------
(* Faults.                                                                  *)

Kill(p) == at[p] # "idle" /\ Fault /\ Leave(p)

\* The file given to `archive' is written, or replaced, after it was hashed: before
\* it is looked into, or before it is copied.
InputChanges(p, a) ==
    /\ at[p] \in {"look", "install"} /\ source[p] = "archive"
    /\ Fault
    /\ input' = [input EXCEPT ![p] = a]
    /\ changed' = changed \cup {release[p]}
    /\ UNCHANGED <<store, modes, at, release, hash, record, tries, command, tampered>>

\* Somebody replaces, or removes, the files of a release in the cache.  The sidecar
\* may record any SHA-256 with any SRI.
Damage(k) ==
    /\ Fault
    /\ \E a \in Archives \cup {None} : archive' = [archive EXCEPT ![k] = a]
    /\ \E s \in Sidecars : sidecar' = [sidecar EXCEPT ![k] = s]
    /\ tampered' = tampered \cup {k}
    /\ UNCHANGED <<modes, call, tries, command, changed>>

-----------------------------------------------------------------------------
Run(p) ==
    \/ UseUrl(p) \/ UseAccount(p) \/ UseCache(p) \/ GivesUp(p) \/ Exit(p)
    \/ FlowStep(p) /\ UNCHANGED <<command, history>>
    \/ CacheStep(p) /\ UNCHANGED <<tries, command, history>>
    \/ RecordFails(p) /\ Fault /\ UNCHANGED <<tries, command, tampered, changed>>

Next ==
    \/ \E p \in Procs :
        \/ Run(p) \/ Kill(p)
        \/ \E a \in Archives : InputChanges(p, a)
        \/ \E k \in Releases :
            \/ \E a \in Archives : ArchiveCommand(p, k, a)
            \/ AccountCommand(p, k)
            \/ \E s \in Plans : AcquireCommand(p, k, s)
    \/ \E k \in Releases : Damage(k)

\* A process that has been started runs; its requests time out.
Fairness == \A p \in Procs : WF_vars(Run(p))

Spec == Init /\ [][Next]_vars /\ Fairness

-----------------------------------------------------------------------------
(* Properties.                                                              *)

Steps == {"idle", "choose", "get", "hash", "put", "look", "install", "record", "publish",
          "found", "absent", "stored", "failed"} \cup Requests

\* The type invariant: every variable holds what its declaration says, and no
\* request is sent more often than the retry policy allows.
TypeOK ==
    /\ CacheTypeOK /\ FlowTypeOK
    /\ at \in [Procs -> Steps]
    /\ source \in [Procs -> {"none", "archive", "url", "account", "cache", None}]
    /\ plan \in [Procs -> SUBSET {"url", "account", "half", "cache"}]
    /\ faults \in 0..MaxFaults
    /\ tampered \subseteq Releases /\ changed \subseteq Releases

\* The cache holds archives of the release they are filed under and their own
\* records, and nothing else, whatever the site sends, whoever is killed and however
\* the processes interleave, unless somebody else changes files meanwhile.
InstalledIsValid ==
    \A k \in Releases \ (tampered \cup changed) :
        /\ archive[k] # None => Valid(archive[k], k)
        /\ sidecar[k] # None => \E a \in Archives : Valid(a, k) /\ sidecar[k] = Of(a)

\* The SHA-256 that a command prints is that of a content it has read itself, also
\* if its record was read before somebody's put, if files of the cache have been
\* replaced or if the input was still being written; the content is an archive of
\* the release, unless it was hashed before its file changed.  The SRI is of the same
\* content as long as nobody replaces files of the cache: what a sidecar says is
\* printed unseen.
PrintedWasRead ==
    \A p \in Procs : at[p] \in {"found", "stored"} =>
        /\ record[p].sha = hash[p]
        /\ at[p] = "found" \/ release[p] \notin changed => Valid(hash[p], release[p])
        /\ release[p] \notin tampered => record[p].sri = hash[p]

\* With one process at a time, what a command prints is what the cache holds, record
\* and archive: a put heals what a killed one left, and a get refuses it.  A get
\* refuses as well what was put from a file that changed under the put.
PrintedIsCached ==
    \A p \in Procs :
        LET k == release[p]
        IN  at[p] \in {"found", "stored"} /\ k \notin tampered =>
                /\ record[p] = sidecar[k]
                /\ at[p] = "found" \/ k \notin changed => record[p] = Of(archive[k])

\* "The archive and sidecar are atomically replaced" (Cache, lib.rs): when nobody
\* is using the cache, the archive and the sidecar of a release belong together.
RestingCacheAgrees ==
    (\A p \in Procs : at[p] = "idle") =>
        \A k \in Releases \ (tampered \cup changed) :
            sidecar[k] # None => sidecar[k] = Of(archive[k])

\* Every command ends: the retries of a request and the sources of acquire run
\* out.
CommandsEnd == \A p \in Procs : at[p] # "idle" ~> at[p] = "idle"

\* What a command has left of the source at hand: the attempts of its requests,
\* the steps of a put or of a get; and what a source of the plan may cost.
AtHand(p) ==
    CASE at[p] = "login"    -> 4 * Attempts + 5 - tries[p]
      [] at[p] = "submit"   -> 3 * Attempts + 5 - tries[p]
      [] at[p] = "release"  -> 2 * Attempts + 5 - tries[p]
      [] at[p] = "download" -> Attempts + 5 - tries[p]
      [] at[p] = "put"      -> 5
      [] at[p] = "look"     -> 4
      [] at[p] = "install"  -> 3
      [] at[p] \in {"record", "get"}   -> 2
      [] at[p] \in {"publish", "hash"} -> 1
      [] OTHER -> 0
Planned(p) ==
    (IF "url" \in plan[p] THEN Attempts + 6 ELSE 0)
       + (IF "account" \in plan[p] THEN 4 * Attempts + 6 ELSE 0)
       + (IF "cache" \in plan[p] THEN 3 ELSE 0)
WorkLeft(p) == AtHand(p) + Planned(p)

\* Whatever the site answers and other commands do, each step of a command that
\* does not end it leaves it less to do: no request, no source comes round again.
MovesOnStep ==
    \A p \in Procs :
        /\ at[p] # "idle" /\ at'[p] # "idle"
        /\ at'[p] # at[p] \/ tries'[p] # tries[p] \/ plan'[p] # plan[p]
        => WorkLeft(p)' < WorkLeft(p)
CommandsMoveOn == [][MovesOnStep]_vars
=============================================================================
