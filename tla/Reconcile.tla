----------------------------- MODULE Reconcile -----------------------------
(***************************************************************************)
(* The declarative package reconciler, foundryvtt-fetch/src/reconcile.rs.  *)
(*                                                                         *)
(* A run reads the desired manifest, takes an exclusive file lock, reads   *)
(* the ledger of initialised packages, preflights every target, seeds the  *)
(* targets that are missing, replaces legacy links by mutable copies and   *)
(* rewrites the ledger.  Several runs may exist at once (the service's     *)
(* ExecStartPre and the command line); Foundry and the administrator own   *)
(* the target directories and may touch them at any moment without taking  *)
(* the lock; a run may fail at any system call and may be killed.          *)
(*                                                                         *)
(* A step is one system call of the code, or several of which only one     *)
(* can be told apart from outside.  A package is identified with its key   *)
(* "kind/id" and with its target path.                                     *)
(***************************************************************************)
EXTENDS Naturals, FiniteSets

CONSTANTS
    Packages,    \* keys of the packages
    Stores,      \* immutable package outputs (store paths)
    GoodStores,  \* the outputs that are directories on this machine
    Procs,       \* reconciler processes
    Manifests,   \* the manifests a run may be given
    None,        \* no store, no process, no package
    MaxOps,      \* bound on what Foundry and the administrator do
    MaxFaults    \* bound on kills and on roll-backs that fail

Entries == [pkg : Packages, state : {"present", "absent"}, store : Stores]

ASSUME PackagesAreFinite == IsFiniteSet(Packages)
ASSUME GoodStoresAreStores == GoodStores \subseteq Stores
ASSUME ManifestsHoldEntries == Manifests \subseteq SUBSET Entries
ASSUME NoneIsNothing == None \notin Stores \cup Procs \cup Packages
ASSUME BoundsAreNaturals == MaxOps \in Nat /\ MaxFaults \in Nat

(***************************************************************************)
(* What a target path holds.  A directory carries the output it is still   *)
(* an exact copy of, or None once somebody has put work of their own in it.*)
(***************************************************************************)
Missing  == [kind |-> "missing", of |-> None]
EmptyDir == [kind |-> "empty",   of |-> None]
File     == [kind |-> "file",    of |-> None]
UserDir  == [kind |-> "dir",     of |-> None]
Copy(s)  == [kind |-> "dir",     of |-> s]
Link(s)  == [kind |-> "link",    of |-> s]

Objects == {Missing, EmptyDir, File, UserDir}
              \cup {Copy(s) : s \in Stores} \cup {Link(s) : s \in Stores}

\* fs::metadata(path).is_dir(), which follows a link.
ResolvesToDir(o) ==
    \/ o.kind \in {"dir", "empty"}
    \/ o.kind = "link" /\ o.of \in GoodStores

\* rename(2): whether the object `from' can be renamed onto the path that holds
\* `onto', a directory only onto an empty one, a file never onto a directory.
CanRename(from, onto) ==
    \/ onto = Missing
    \/ from.kind \in {"dir", "empty"} /\ onto = EmptyDir
    \/ from.kind \in {"file", "link"} /\ onto.kind \in {"file", "link"}

VARIABLES
    target,     \* what each package's path holds
    ledger,     \* the state file: the output a package was initialised from
    lock,       \* the process that holds the lock file
    pc,         \* where each process is
    manifest,   \* the manifest a process read, before it had the lock
    previous,   \* the ledger a process read under the lock
    packages,   \* the ledger it is going to write
    todo,       \* packages left in the current loop
    cur,        \* the package being seeded or materialised
    displaced,  \* the object it moved to a temporary name
    stray,      \* objects left for ever under a temporary name
    ops,        \* operations of Foundry and the administrator so far
    faults,     \* kills and failed roll-backs so far
    deleted,    \* history: targets that are missing because somebody deleted them
    clean       \* history: nobody touched a target since the process locked

disk   == <<target, ledger, stray>>
local  == <<pc, manifest, previous, packages, todo, cur, displaced>>
budget == <<ops, faults>>
vars   == <<disk, lock, local, budget, deleted, clean>>

NoLedger == [k \in Packages |-> None]

PresentKeys(m) == {k \in Packages : \E e \in m : e.pkg = k /\ e.state = "present"}
AbsentKeys(m)  == {k \in Packages : \E e \in m : e.pkg = k /\ e.state = "absent"}

\* The output the manifest wants package k initialised from.
StoreOf(m, k) == (CHOOSE e \in m : e.pkg = k /\ e.state = "present").store

\* validate_package on every entry, and no key twice.
ValidManifest(m) ==
    /\ \A e \in m : e.state = "present" => e.store \in GoodStores
    /\ \A e, f \in m : e.pkg = f.pkg => e = f

\* Where package k of a run comes from: the recorded output if there is one.
Source(p, k) ==
    IF previous[p][k] # None THEN previous[p][k] ELSE StoreOf(manifest[p], k)

-----------------------------------------------------------------------------
\* Any ledger of earlier runs, any targets; the older release linked targets
\* to their output.  A recorded target is missing only if it was deleted.
Init ==
    /\ target \in [Packages -> Objects]
    /\ ledger \in [Packages -> Stores \cup {None}]
    /\ lock = None
    /\ pc = [p \in Procs |-> "idle"]
    /\ manifest = [p \in Procs |-> {}]
    /\ previous = [p \in Procs |-> NoLedger]
    /\ packages = [p \in Procs |-> NoLedger]
    /\ todo = [p \in Procs |-> {}]
    /\ cur = [p \in Procs |-> None]
    /\ displaced = [p \in Procs |-> Missing]
    /\ stray = {}
    /\ ops = 0
    /\ faults = 0
    /\ deleted = {k \in Packages : target[k] = Missing}
    /\ clean = [p \in Procs |-> FALSE]

\* The process leaves reconcile(): its memory is gone, the lock is dropped.
Leave(p) ==
    /\ lock' = IF lock = p THEN None ELSE lock
    /\ pc' = [pc EXCEPT ![p] = "idle"]
    /\ manifest' = [manifest EXCEPT ![p] = {}]
    /\ previous' = [previous EXCEPT ![p] = NoLedger]
    /\ packages' = [packages EXCEPT ![p] = NoLedger]
    /\ todo' = [todo EXCEPT ![p] = {}]
    /\ cur' = [cur EXCEPT ![p] = None]
    /\ displaced' = [displaced EXCEPT ![p] = Missing]
    /\ clean' = [clean EXCEPT ![p] = FALSE]

\* An early return with an error that touched nothing on disk.
Abort(p) == Leave(p) /\ UNCHANGED <<disk, budget, deleted>>

\* reconcile_files reads the manifest; reconcile opens the lock file.
Start(p, m) ==
    /\ pc[p] = "idle"
    /\ pc' = [pc EXCEPT ![p] = "waiting"]
    /\ manifest' = [manifest EXCEPT ![p] = m]
    /\ UNCHANGED <<disk, lock, previous, packages, todo, cur, displaced, budget,
                   deleted, clean>>

\* The operators that a comment calls a mutant are not the code: each is a
\* plausible mistake in the definition below it, which a property must notice.

\* (mutant: the lock does not exclude.)
LockIsShared == TRUE
LockIsFree   == lock = None

\* lock_exclusive, then read_state: under the lock nobody else writes it.
AcquireLock(p) ==
    /\ pc[p] = "waiting"
    /\ LockIsFree
    /\ lock' = p
    /\ pc' = [pc EXCEPT ![p] = "validate"]
    /\ previous' = [previous EXCEPT ![p] = ledger]
    /\ clean' = [clean EXCEPT ![p] = TRUE]
    /\ UNCHANGED <<disk, manifest, packages, todo, cur, displaced, budget, deleted>>

\* The state file cannot be read or parsed, or has another schema.
ReadStateFails(p) == pc[p] = "waiting" /\ LockIsFree /\ Abort(p)

Validate(p) ==
    /\ pc[p] = "validate"
    /\ ValidManifest(manifest[p])
    /\ pc' = [pc EXCEPT ![p] = "preflight"]
    /\ todo' = [todo EXCEPT ![p] = PresentKeys(manifest[p])]
    /\ UNCHANGED <<disk, lock, manifest, previous, packages, cur, displaced, budget,
                   deleted, clean>>

Reject(p) == pc[p] = "validate" /\ ~ValidManifest(manifest[p]) /\ Abort(p)

\* check_initialized_target and check_seed_target: nothing there, the legacy
\* link to a source that is a directory, or anything that resolves to one.
TargetOk(p, k) ==
    \/ target[k] = Missing
    \/ target[k] = Link(Source(p, k)) /\ Source(p, k) \in GoodStores
    \/ target[k] # Link(Source(p, k)) /\ ResolvesToDir(target[k])

Preflight(p, k) ==
    /\ pc[p] = "preflight"
    /\ k \in todo[p]
    /\ TargetOk(p, k)
    /\ todo' = [todo EXCEPT ![p] = @ \ {k}]
    /\ UNCHANGED <<disk, lock, pc, manifest, previous, packages, cur, displaced,
                   budget, deleted, clean>>

PreflightFails(p, k) ==
    pc[p] = "preflight" /\ k \in todo[p] /\ ~TargetOk(p, k) /\ Abort(p)

\* (mutant: the loop begins before every target has been checked.)
PreflightAbandoned(p) ==
    /\ pc[p] = "preflight"
    /\ pc' = [pc EXCEPT ![p] = "loop"]
    /\ packages' = [packages EXCEPT ![p] = previous[p]]
    /\ todo' = [todo EXCEPT ![p] = PresentKeys(manifest[p])]
    /\ UNCHANGED <<disk, lock, manifest, previous, cur, displaced, budget, deleted, clean>>

PreflightDone(p) ==
    /\ pc[p] = "preflight"
    /\ todo[p] = {}
    /\ pc' = [pc EXCEPT ![p] = "loop"]
    /\ packages' = [packages EXCEPT ![p] = previous[p]]
    /\ todo' = [todo EXCEPT ![p] = PresentKeys(manifest[p])]
    /\ UNCHANGED <<disk, lock, manifest, previous, cur, displaced, budget, deleted, clean>>

-----------------------------------------------------------------------------
(* One package of the loop in reconcile_locked.                            *)

\* Whether package k was initialised before (mutant: from this very output).
RecordedFromStore(p, k) == previous[p][k] = StoreOf(manifest[p], k)
Recorded(p, k)          == previous[p][k] # None

BeginPackage(p, k) ==
    /\ pc[p] = "loop"
    /\ k \in todo[p]
    /\ cur' = [cur EXCEPT ![p] = k]
    /\ pc' = [pc EXCEPT ![p] = IF Recorded(p, k) THEN "materialize" ELSE "seed"]
    /\ UNCHANGED <<disk, lock, manifest, previous, packages, todo, displaced, budget,
                   deleted, clean>>

\* The package is done; one that had no record gets its record in memory.
EndPackage(p) ==
    /\ pc' = [pc EXCEPT ![p] = "loop"]
    /\ packages' = [packages EXCEPT ![p][cur[p]] = Source(p, cur[p])]
    /\ todo' = [todo EXCEPT ![p] = @ \ {cur[p]}]
    /\ cur' = [cur EXCEPT ![p] = None]
    /\ displaced' = [displaced EXCEPT ![p] = Missing]
    /\ UNCHANGED <<lock, manifest, previous, budget, clean>>

Skip(p) == EndPackage(p) /\ UNCHANGED <<disk, deleted>>

\* A step inside a package that only advances the program counter.
Goto(p, l) ==
    /\ pc' = [pc EXCEPT ![p] = l]
    /\ UNCHANGED <<disk, lock, manifest, previous, packages, todo, cur, displaced,
                   budget, deleted, clean>>

IsLegacyLink(p) == target[cur[p]] = Link(Source(p, cur[p]))

\* seed_if_missing, the first look at the target.
SeedCheck(p) ==
    /\ pc[p] = "seed"
    /\ \/ IsLegacyLink(p) /\ Goto(p, "materialize")
       \/ target[cur[p]] = Missing /\ Goto(p, "copySeed")
       \/ target[cur[p]] # Missing /\ ~IsLegacyLink(p) /\ Skip(p)

\* The copy goes to a temporary directory next to the target.
CopySeed(p) == pc[p] = "copySeed" /\ Source(p, cur[p]) \in GoodStores /\ Goto(p, "recheck")

\* (mutant: a target that came back is waited for to go away.)
SeedRetry(p) ==
    /\ pc[p] = "recheck"
    /\ \/ target[cur[p]] = Missing /\ Goto(p, "renameSeed")
       \/ target[cur[p]] # Missing /\ Goto(p, "copySeed")

SeedRecheck(p) ==
    /\ pc[p] = "recheck"
    /\ \/ target[cur[p]] = Missing /\ Goto(p, "renameSeed")
       \/ target[cur[p]] # Missing /\ Skip(p)

\* rename(temp, target): fails if the target has come back in between.
RenameSeed(p) ==
    /\ pc[p] = "renameSeed"
    /\ LET new == Copy(Source(p, cur[p]))
       IN  /\ CanRename(new, target[cur[p]])
           /\ target' = [target EXCEPT ![cur[p]] = new]
    /\ deleted' = deleted \ {cur[p]}
    /\ EndPackage(p)
    /\ UNCHANGED <<ledger, stray>>

\* materialize_legacy_link, the first look at the target.
MaterializeCheck(p) ==
    /\ pc[p] = "materialize"
    /\ \/ IsLegacyLink(p) /\ Goto(p, "copyLink")
       \/ ~IsLegacyLink(p) /\ Skip(p)

CopyLink(p) == pc[p] = "copyLink" /\ Source(p, cur[p]) \in GoodStores /\ Goto(p, "displace")

\* rename(target, displaced): moves whatever the target is by now.
Displace(p) ==
    /\ pc[p] = "displace"
    /\ target[cur[p]] # Missing
    /\ displaced' = [displaced EXCEPT ![p] = target[cur[p]]]
    /\ target' = [target EXCEPT ![cur[p]] = Missing]
    /\ pc' = [pc EXCEPT ![p] = "install"]
    /\ UNCHANGED <<ledger, stray, lock, manifest, previous, packages, todo, cur, budget,
                   deleted, clean>>

\* rename(temp, target)
Install(p) ==
    /\ pc[p] = "install"
    /\ LET new == Copy(Source(p, cur[p]))
       IN  /\ CanRename(new, target[cur[p]])
           /\ target' = [target EXCEPT ![cur[p]] = new]
    /\ deleted' = deleted \ {cur[p]}
    /\ pc' = [pc EXCEPT ![p] = "cleanup"]
    /\ UNCHANGED <<ledger, stray, lock, manifest, previous, packages, todo, cur,
                   displaced, budget, clean>>

\* remove_file on the displaced object, and the drop of its TempPath: a file
\* or a link goes, a directory stays under its temporary name (mutant: the
\* directory is removed as well).
DiscardTree(k, o) == UNCHANGED stray
Discard(k, o) == stray' = IF o.kind \in {"dir", "empty"} THEN stray \cup {<<k, o>>} ELSE stray

\* The displaced object is renamed back; an error of that rename is ignored
\* (mutant: it is not renamed back).
NoRollBack(p) == Discard(cur[p], displaced[p]) /\ UNCHANGED <<target, faults>>
RollBack(p) ==
    \/ /\ CanRename(displaced[p], target[cur[p]])
       /\ target' = [target EXCEPT ![cur[p]] = displaced[p]]
       /\ UNCHANGED <<stray, faults>>
    \/ /\ ~CanRename(displaced[p], target[cur[p]])
       /\ Discard(cur[p], displaced[p])
       /\ UNCHANGED <<target, faults>>
    \/ /\ faults < MaxFaults
       /\ faults' = faults + 1
       /\ Discard(cur[p], displaced[p])
       /\ UNCHANGED target

\* The rename of Install fails.
InstallFails(p) ==
    /\ pc[p] = "install"
    /\ RollBack(p)
    /\ Leave(p)
    /\ UNCHANGED <<ledger, ops, deleted>>

\* remove_file(displaced) succeeds on a link or a file.
Cleanup(p) == pc[p] = "cleanup" /\ displaced[p].kind \in {"link", "file"} /\ Skip(p)

\* remove_file fails, as it always does on a directory, which stays behind.
CleanupFails(p) ==
    /\ pc[p] = "cleanup"
    /\ Discard(cur[p], displaced[p])
    /\ Leave(p)
    /\ UNCHANGED <<target, ledger, budget, deleted>>

\* Any other system call of the loop fails: a copy, the rename of a seed, the
\* rename of a target that is gone.  The temporary directory is removed.
PackageFails(p) ==
    /\ pc[p] \in {"seed", "copySeed", "recheck", "renameSeed", "materialize", "copyLink",
                  "displace"}
    /\ Abort(p)

-----------------------------------------------------------------------------
\* What the run writes: the records in memory without the absent packages
\* (mutant: without the packages it does not want present).
LedgerOfManifest(p) ==
    [k \in Packages |-> IF k \in PresentKeys(manifest[p]) THEN packages[p][k] ELSE None]
NewLedger(p) ==
    [k \in Packages |-> IF k \in AbsentKeys(manifest[p]) THEN None ELSE packages[p][k]]

\* write_state replaces the state file atomically; then the lock is dropped.
Commit(p) ==
    /\ pc[p] = "loop"
    /\ todo[p] = {}
    /\ ledger' = NewLedger(p)
    /\ Leave(p)
    /\ UNCHANGED <<target, stray, budget, deleted>>

\* write_state fails before its rename (after it, the step is Commit).
CommitFails(p) == pc[p] = "loop" /\ todo[p] = {} /\ Abort(p)

\* The process is killed: what it displaced stays under its temporary name.
Kill(p) ==
    /\ pc[p] # "idle"
    /\ faults < MaxFaults
    /\ faults' = faults + 1
    /\ stray' = IF displaced[p] = Missing THEN stray
                ELSE stray \cup {<<cur[p], displaced[p]>>}
    /\ Leave(p)
    /\ UNCHANGED <<target, ledger, ops, deleted>>

-----------------------------------------------------------------------------
(* Foundry and the administrator (external): they do not take the lock.    *)

Touch(k, o) ==
    /\ ops < MaxOps
    /\ ops' = ops + 1
    /\ target' = [target EXCEPT ![k] = o]
    /\ clean' = [p \in Procs |-> FALSE]
    /\ UNCHANGED <<ledger, stray, lock, local, faults>>

Put(k, o) == target[k] = Missing /\ o # Missing /\ Touch(k, o) /\ deleted' = deleted \ {k}
Delete(k) == target[k] # Missing /\ Touch(k, Missing) /\ deleted' = deleted \cup {k}
Edit(k)   == target[k].kind \in {"dir", "empty"} /\ target[k] # UserDir
                /\ Touch(k, UserDir) /\ UNCHANGED deleted

Operator == \E k \in Packages :
                \/ \E o \in Objects : Put(k, o)
                \/ Delete(k)
                \/ Edit(k)

-----------------------------------------------------------------------------
\* The steps a run takes by itself once it waits for the lock.
Step(p) ==
    \/ AcquireLock(p) \/ ReadStateFails(p)
    \/ Validate(p) \/ Reject(p)
    \/ \E k \in Packages : Preflight(p, k) \/ PreflightFails(p, k) \/ BeginPackage(p, k)
    \/ PreflightDone(p)
    \/ SeedCheck(p) \/ CopySeed(p) \/ SeedRecheck(p) \/ RenameSeed(p)
    \/ MaterializeCheck(p) \/ CopyLink(p) \/ Displace(p)
    \/ Install(p) \/ InstallFails(p) \/ Cleanup(p) \/ CleanupFails(p) \/ PackageFails(p)
    \/ Commit(p) \/ CommitFails(p)

Next ==
    \/ \E p \in Procs : Kill(p) \/ Step(p) \/ \E m \in Manifests : Start(p, m)
    \/ Operator

\* A process that can run runs; nothing obliges anybody to start one, to
\* kill one or to touch a target.
Fairness == \A p \in Procs : WF_vars(Step(p))

Spec == Init /\ [][Next]_vars /\ Fairness

-----------------------------------------------------------------------------
(* Properties.                                                             *)

LoopSteps == {"seed", "copySeed", "recheck", "renameSeed", "materialize", "copyLink",
              "displace", "install", "cleanup"}
Locked == {"validate", "preflight", "loop"} \cup LoopSteps

\* The type invariant: every variable holds what its declaration says.
TypeOK ==
    /\ target \in [Packages -> Objects]
    /\ ledger \in [Packages -> Stores \cup {None}]
    /\ lock \in Procs \cup {None}
    /\ pc \in [Procs -> {"idle", "waiting"} \cup Locked]
    /\ manifest \in [Procs -> SUBSET Entries]
    /\ previous \in [Procs -> [Packages -> Stores \cup {None}]]
    /\ packages \in [Procs -> [Packages -> Stores \cup {None}]]
    /\ todo \in [Procs -> SUBSET Packages]
    /\ cur \in [Procs -> Packages \cup {None}]
    /\ displaced \in [Procs -> Objects]
    /\ stray \subseteq Packages \X Objects
    /\ ops \in 0..MaxOps
    /\ faults \in 0..MaxFaults
    /\ deleted \subseteq Packages
    /\ clean \in [Procs -> BOOLEAN]

\* A directory o of package k is at its target after the step, or others holds.
Kept(o, k, others) == o.kind = "dir" => target'[k] = o \/ others

NothingLostStep ==
    ops' = ops =>
        /\ \A k \in Packages :
            Kept(target[k], k, \E p \in Procs : cur'[p] = k /\ displaced'[p] = target[k])
        /\ \A p \in Procs :
            Kept(displaced[p], cur[p], \/ displaced'[p] = displaced[p]
                                      \/ <<cur[p], displaced[p]>> \in stray')

\* The directories somebody may have edited are never lost to the reconciler:
\* a step that is not Foundry's or the administrator's leaves a directory at
\* its target or moves it aside, and one moved aside goes back to its target
\* or stays on disk.  At stake: the renames and the remove_file of
\* materialize_legacy_link when the target changes after the check for a link.
NothingLost == [][NothingLostStep]_vars

\* A package that was initialised once is not seeded again: while it is
\* recorded, its missing target is filled by nobody but Foundry, the
\* administrator, or the run that has just displaced it.  ("Initialization is
\* recorded once ... later target deletion [is] left alone", fetch README.)
SeedOnceStep ==
    ops' = ops =>
        \A k \in Packages :
            ledger[k] # None /\ target[k] = Missing /\ target'[k] # Missing
                => lock # None /\ cur[lock] = k /\ displaced[lock] # Missing
SeedOnce == [][SeedOnceStep]_vars

\* A record never changes to another output, and only a run whose manifest
\* declares the package absent clears it: concurrent runs and manifests read
\* before the lock never overwrite each other's records.
RecordedOnceStep ==
    \A k \in Packages :
        ledger[k] # None /\ ledger'[k] # ledger[k]
            => ledger'[k] = None /\ lock # None /\ k \in AbsentKeys(manifest[lock])
InitializationRecordedOnce == [][RecordedOnceStep]_vars

\* "Preflight all targets ... before copying one package.  This keeps a bad
\* target from leaving a partially initialized set": once the loop has begun,
\* no target of the run can make it fail, unless somebody touched one.
PreflightIsBinding ==
    \A p \in Procs : clean[p] /\ pc[p] \in {"loop"} \cup LoopSteps
        => \A k \in PresentKeys(manifest[p]) : TargetOk(p, k)

\* When a run is about to write the ledger, every package it wants present will
\* be recorded and, unless the record is older than the run, is at its target as
\* a directory or a link of somebody's own; no link to a recorded output is left
\* and the other packages keep their records or lose them as the manifest says.
CommitMeetsManifest ==
    \A p \in Procs : clean[p] /\ pc[p] = "loop" /\ todo[p] = {} =>
        /\ \A k \in PresentKeys(manifest[p]) :
            /\ NewLedger(p)[k] # None
            /\ target[k] # Link(NewLedger(p)[k])
            /\ ResolvesToDir(target[k]) \/ (target[k] = Missing /\ ledger[k] # None)
        /\ \A k \in Packages \ PresentKeys(manifest[p]) :
            NewLedger(p)[k] = IF k \in AbsentKeys(manifest[p]) THEN None ELSE ledger[k]

\* Recorded packages whose target is gone, though nobody
\* deleted it and no run is replacing it at this moment.
LostTargets ==
    {k \in Packages :
        /\ ledger[k] # None /\ target[k] = Missing /\ k \notin deleted
        /\ ~\E p \in Procs : cur[p] = k /\ pc[p] = "install"}

\* The target of a recorded package exists unless somebody deleted it or a run
\* is replacing it at this moment: "a legacy link to the recorded immutable output
\* is materialized into a mutable copy once" (fetch README), and not removed.
RecordedTargetsSurvive == LostTargets = {}

\* With kills and roll-backs that fail targets do get lost, but each of them costs
\* one target at most: no failure that the code handles, no later run and nobody
\* who interferes adds to the damage of materialize_legacy_link's two renames.
FaultsCostOneTargetEach == Cardinality(LostTargets) <= faults

\* How far a run is with the package at hand, and the steps it has left at most:
\* one for each preflight and seven for each package.
InPackage(l) ==
    CASE l = "seed" -> 1
      [] l \in {"materialize", "copySeed"} -> 2
      [] l \in {"copyLink", "recheck"} -> 3
      [] l \in {"displace", "renameSeed"} -> 4
      [] l = "install" -> 5
      [] l = "cleanup" -> 6
      [] OTHER -> 0
StepsLeft(p) ==
    LET wanted == Cardinality(PresentKeys(manifest[p]))
        left   == Cardinality(todo[p])
    IN  CASE pc[p] = "validate" -> 8 * wanted + 2
          [] pc[p] = "preflight" -> 7 * wanted + left + 1
          [] OTHER -> 7 * left - InPackage(pc[p])

\* A run that holds the lock never goes back or round in a circle, whatever the
\* owners of the targets do meanwhile: each step it takes leaves fewer to take, so
\* the other runs wait for a number of steps that the manifest bounds.
MovesOnStep ==
    \A p \in Procs : lock = p /\ lock' = p /\ (pc'[p] # pc[p] \/ todo'[p] # todo[p])
        => StepsLeft(p)' < StepsLeft(p)
RunsMoveOn == [][MovesOnStep]_vars

\* The lock is always released: no path through reconcile() keeps it.
LockIsReleased == lock # None ~> lock = None
=============================================================================
