-------------------------- MODULE ReconcileProofs --------------------------
(* Theorems about Reconcile, for every set of packages, outputs, processes  *)
(* and manifests and every bound.                                           *)
EXTENDS Reconcile, TLAPS

SeedSteps == {"seed", "copySeed", "recheck", "renameSeed"}
MovedSteps == {"install", "cleanup"}

\* The file lock excludes: exactly its holder is past lock_exclusive.
LockOwner == \A p \in Procs : pc[p] \in Locked <=> lock = p

\* What the holder read is still what the state file holds.
Fresh == \A p \in Procs : pc[p] \in Locked => previous[p] = ledger

\* The ledger in memory extends the one that was read.
InMemory ==
    \A p \in Procs : pc[p] \in {"loop"} \cup LoopSteps =>
        \A k \in Packages : ledger[k] # None => packages[p][k] = ledger[k]

\* The package at hand is one the manifest wants, and a seeding one has no record.
CurOK ==
    \A p \in Procs :
        /\ pc[p] \in {"preflight", "loop"} \cup LoopSteps => todo[p] \subseteq PresentKeys(manifest[p])
        /\ pc[p] \in LoopSteps => cur[p] \in todo[p]
        /\ pc[p] \in SeedSteps => previous[p][cur[p]] = None

\* Something is displaced exactly between the two renames and the clean-up.
DisplacedOK == \A p \in Procs : displaced[p] # Missing <=> pc[p] \in MovedSteps

IInv == TypeOK /\ LockOwner /\ Fresh /\ InMemory /\ CurOK /\ DisplacedOK

-----------------------------------------------------------------------------
\* The objects of the model, as facts the provers can use without choosing
\* among the constructors.
LEMMA ObjectFacts ==
    /\ Missing \in Objects /\ UserDir \in Objects
    /\ \A s \in Stores : Copy(s) \in Objects /\ Copy(s) # Missing
    /\ Missing.kind = "missing" /\ EmptyDir.kind = "empty"
    /\ \A s \in Stores : Copy(s).kind = "dir" /\ Link(s) # Missing
BY DEF Objects, Missing, UserDir, EmptyDir, Copy, Link

\* The output a run initialises a wanted package from is an output.
LEMMA SourceIsAStore ==
    ASSUME TypeOK, NEW p \in Procs, NEW k \in PresentKeys(manifest[p])
    PROVE  k \in Packages /\ Source(p, k) \in Stores
<1>1. PICK e \in manifest[p] : e.pkg = k /\ e.state = "present"
  BY DEF PresentKeys
<1>2. manifest[p] \subseteq Entries
  BY DEF TypeOK
<1>3. StoreOf(manifest[p], k) \in Stores
  BY <1>1, <1>2 DEF StoreOf, Entries
<1>4. previous[p][k] \in Stores \cup {None}
  BY DEF TypeOK, PresentKeys
<1> QED
  BY <1>3, <1>4 DEF Source, PresentKeys

\* The initial states satisfy the invariant: nobody is in a run.
LEMMA InitIInv == Init => IInv
<1> SUFFICES ASSUME Init PROVE IInv
  OBVIOUS
<1> USE DEF Init
<1>1. TypeOK
  BY ObjectFacts, BoundsAreNaturals DEF TypeOK, NoLedger
<1>2. LockOwner /\ Fresh /\ InMemory
  BY NoneIsNothing DEF LockOwner, Fresh, InMemory, Locked, LoopSteps
<1>3. CurOK /\ DisplacedOK
  BY DEF CurOK, DisplacedOK, LoopSteps, SeedSteps, MovedSteps
<1> QED
  BY <1>1, <1>2, <1>3 DEF IInv

\* Leaving a run keeps the types of everything a process holds.
LEMMA LeaveTypes ==
    ASSUME TypeOK, NEW p \in Procs, Leave(p)
    PROVE  /\ lock' \in Procs \cup {None}
           /\ pc' \in [Procs -> {"idle", "waiting"} \cup Locked]
           /\ manifest' \in [Procs -> SUBSET Entries]
           /\ previous' \in [Procs -> [Packages -> Stores \cup {None}]]
           /\ packages' \in [Procs -> [Packages -> Stores \cup {None}]]
           /\ todo' \in [Procs -> SUBSET Packages]
           /\ cur' \in [Procs -> Packages \cup {None}]
           /\ displaced' \in [Procs -> Objects]
           /\ clean' \in [Procs -> BOOLEAN]
<1>1. NoLedger \in [Packages -> Stores \cup {None}]
  BY DEF NoLedger
<1>2. lock' \in Procs \cup {None} /\ pc' \in [Procs -> {"idle", "waiting"} \cup Locked]
  BY DEF TypeOK, Leave
<1>3. /\ previous' \in [Procs -> [Packages -> Stores \cup {None}]]
      /\ packages' \in [Procs -> [Packages -> Stores \cup {None}]]
  BY <1>1 DEF TypeOK, Leave
<1>4. /\ manifest' \in [Procs -> SUBSET Entries]
      /\ todo' \in [Procs -> SUBSET Packages]
  BY DEF TypeOK, Leave
<1>5. cur' \in [Procs -> Packages \cup {None}] /\ clean' \in [Procs -> BOOLEAN]
  BY DEF TypeOK, Leave
<1>6. displaced' \in [Procs -> Objects]
  BY ObjectFacts DEF TypeOK, Leave
<1> QED
  BY <1>2, <1>3, <1>4, <1>5, <1>6

\* A process that leaves breaks no part of the invariant, whatever it does to
\* the disk, if the ledger is unchanged or it held the lock.
LEMMA LeaveRest ==
    ASSUME IInv, NEW p \in Procs, Leave(p), ledger' = ledger \/ lock = p
    PROVE  LockOwner' /\ Fresh' /\ InMemory' /\ CurOK' /\ DisplacedOK'
<1> USE DEF IInv
<1>0. \A q \in Procs \ {p} :
          /\ pc'[q] = pc[q] /\ previous'[q] = previous[q] /\ packages'[q] = packages[q]
          /\ manifest'[q] = manifest[q] /\ todo'[q] = todo[q] /\ cur'[q] = cur[q]
          /\ displaced'[q] = displaced[q]
  BY DEF TypeOK, Leave
<1>1. pc'[p] = "idle" /\ displaced'[p] = Missing
  BY DEF TypeOK, Leave
<1>2. LockOwner'
  BY <1>0, <1>1, NoneIsNothing DEF LockOwner, Leave, Locked, LoopSteps
<1>3. \A q \in Procs \ {p} : pc'[q] \in Locked => ledger' = ledger
  BY <1>0 DEF LockOwner
<1>4. Fresh'
  BY <1>0, <1>1, <1>3 DEF Fresh, Locked, LoopSteps
<1>5. InMemory'
  BY <1>0, <1>1, <1>3 DEF InMemory, Locked, LoopSteps
<1>6. CurOK'
  BY <1>0, <1>1 DEF CurOK, LoopSteps, SeedSteps, PresentKeys
<1>7. DisplacedOK'
  BY <1>0, <1>1 DEF DisplacedOK, MovedSteps
<1> QED
  BY <1>2, <1>4, <1>5, <1>6, <1>7

-----------------------------------------------------------------------------
(* One lemma per kind of step: it preserves the inductive invariant.        *)

\* Every early return, the commit and the kill are a Leave.
LEMMA LeaveStep ==
    ASSUME IInv, NEW p \in Procs, Leave(p), ledger' = ledger \/ lock = p,
           target' \in [Packages -> Objects],
           ledger' \in [Packages -> Stores \cup {None}],
           stray' \subseteq Packages \X Objects,
           ops' \in 0..MaxOps, faults' \in 0..MaxFaults, deleted' \subseteq Packages
    PROVE  IInv'
<1>1. TypeOK'
  BY LeaveTypes DEF IInv, TypeOK
<1> QED
  BY <1>1, LeaveRest DEF IInv

LEMMA AbortStep ==
    ASSUME IInv, NEW p \in Procs, Abort(p)
    PROVE  IInv'
BY LeaveStep DEF Abort, disk, budget, IInv, TypeOK

LEMMA StartStep ==
    ASSUME IInv, NEW p \in Procs, NEW m \in Manifests, Start(p, m)
    PROVE  IInv'
<1> USE DEF IInv, Start, disk, budget
<1>1. TypeOK'
  BY ManifestsHoldEntries DEF TypeOK
<1>2. LockOwner' /\ Fresh' /\ InMemory'
  BY DEF TypeOK, LockOwner, Fresh, InMemory, Locked, LoopSteps
<1>3. CurOK' /\ DisplacedOK'
  BY DEF TypeOK, CurOK, DisplacedOK, LoopSteps, SeedSteps, MovedSteps, PresentKeys
<1> QED
  BY <1>1, <1>2, <1>3

LEMMA AcquireStep ==
    ASSUME IInv, NEW p \in Procs, AcquireLock(p)
    PROVE  IInv'
<1> USE DEF IInv, AcquireLock, LockIsFree, disk, budget
<1>1. TypeOK'
  BY DEF TypeOK, Locked
<1>2. LockOwner'
  BY NoneIsNothing DEF TypeOK, LockOwner, Locked, LoopSteps
<1>3. Fresh' /\ InMemory'
  BY DEF TypeOK, Fresh, InMemory, Locked, LoopSteps
<1>4. CurOK' /\ DisplacedOK'
  BY DEF TypeOK, CurOK, DisplacedOK, LoopSteps, SeedSteps, MovedSteps
<1> QED
  BY <1>1, <1>2, <1>3, <1>4

LEMMA ValidateStep ==
    ASSUME IInv, NEW p \in Procs, Validate(p)
    PROVE  IInv'
<1> USE DEF IInv, Validate, disk, budget
<1>1. TypeOK'
  BY DEF TypeOK, Locked, PresentKeys
<1>2. LockOwner' /\ Fresh' /\ InMemory'
  BY DEF TypeOK, LockOwner, Fresh, InMemory, Locked, LoopSteps
<1>3. CurOK' /\ DisplacedOK'
  BY DEF TypeOK, CurOK, DisplacedOK, LoopSteps, SeedSteps, MovedSteps
<1> QED
  BY <1>1, <1>2, <1>3

LEMMA PreflightStep ==
    ASSUME IInv, NEW p \in Procs, NEW k \in Packages, Preflight(p, k)
    PROVE  IInv'
<1> USE DEF IInv, Preflight, disk, budget
<1>1. TypeOK'
  BY DEF TypeOK
<1>2. LockOwner' /\ Fresh' /\ InMemory'
  BY DEF LockOwner, Fresh, InMemory
<1>3. CurOK' /\ DisplacedOK'
  BY DEF TypeOK, CurOK, DisplacedOK, LoopSteps, SeedSteps, PresentKeys
<1> QED
  BY <1>1, <1>2, <1>3

LEMMA PreflightDoneStep ==
    ASSUME IInv, NEW p \in Procs, PreflightDone(p)
    PROVE  IInv'
<1> USE DEF IInv, PreflightDone, disk, budget
<1>1. TypeOK'
  BY DEF TypeOK, Locked, PresentKeys
<1>2. LockOwner' /\ Fresh' /\ InMemory'
  BY DEF TypeOK, LockOwner, Fresh, InMemory, Locked, LoopSteps
<1>3. CurOK' /\ DisplacedOK'
  BY DEF TypeOK, CurOK, DisplacedOK, LoopSteps, SeedSteps, MovedSteps
<1> QED
  BY <1>1, <1>2, <1>3

LEMMA BeginPackageStep ==
    ASSUME IInv, NEW p \in Procs, NEW k \in Packages, BeginPackage(p, k)
    PROVE  IInv'
<1> USE DEF IInv, BeginPackage, Recorded, disk, budget
<1>1. TypeOK'
  BY DEF TypeOK, Locked, LoopSteps
<1>2. LockOwner' /\ Fresh' /\ InMemory'
  BY DEF TypeOK, LockOwner, Fresh, InMemory, Locked, LoopSteps
<1>3. CurOK' /\ DisplacedOK'
  BY DEF TypeOK, CurOK, DisplacedOK, LoopSteps, SeedSteps, MovedSteps, PresentKeys
<1> QED
  BY <1>1, <1>2, <1>3

\* A step inside a package that moves to a place the same facts hold at.
LEMMA GotoStep ==
    ASSUME IInv, NEW p \in Procs, NEW l \in LoopSteps, pc[p] \in LoopSteps, Goto(p, l),
           l \in SeedSteps => pc[p] \in SeedSteps,
           l \in MovedSteps <=> pc[p] \in MovedSteps
    PROVE  IInv'
<1> USE DEF IInv, Goto, disk, budget
<1>1. TypeOK'
  BY DEF TypeOK, Locked
<1>2. LockOwner' /\ Fresh' /\ InMemory'
  BY DEF TypeOK, LockOwner, Fresh, InMemory, Locked
<1>3. CurOK' /\ DisplacedOK'
  BY DEF TypeOK, CurOK, DisplacedOK, PresentKeys
<1> QED
  BY <1>1, <1>2, <1>3

LEMMA EndPackageStep ==
    ASSUME IInv, NEW p \in Procs, pc[p] \in LoopSteps, EndPackage(p),
           target' \in [Packages -> Objects], ledger' = ledger, stray' = stray,
           deleted' \subseteq Packages
    PROVE  IInv'
<1> USE DEF IInv, EndPackage, budget
<1>1. cur[p] \in PresentKeys(manifest[p])
  BY DEF CurOK
<1>2. cur[p] \in Packages /\ Source(p, cur[p]) \in Stores
  BY <1>1, SourceIsAStore
<1>3. TypeOK'
  BY <1>2, ObjectFacts DEF TypeOK, Locked
<1>4. LockOwner' /\ Fresh'
  BY DEF TypeOK, LockOwner, Fresh, Locked
<1>5. ledger[cur[p]] # None => Source(p, cur[p]) = ledger[cur[p]]
  BY DEF Fresh, Locked, Source
<1>6. InMemory'
  BY <1>2, <1>5 DEF TypeOK, InMemory
<1>7. CurOK' /\ DisplacedOK'
  BY DEF TypeOK, CurOK, DisplacedOK, LoopSteps, SeedSteps, MovedSteps, PresentKeys
<1> QED
  BY <1>3, <1>4, <1>6, <1>7

LEMMA SkipStep ==
    ASSUME IInv, NEW p \in Procs, pc[p] \in LoopSteps, Skip(p)
    PROVE  IInv'
BY EndPackageStep DEF Skip, disk, IInv, TypeOK

\* The steps of seed_if_missing.
LEMMA SeedStep ==
    ASSUME IInv, NEW p \in Procs,
           SeedCheck(p) \/ CopySeed(p) \/ SeedRecheck(p) \/ RenameSeed(p)
    PROVE  IInv'
<1> USE DEF LoopSteps, SeedSteps, MovedSteps
<1>1. CASE SeedCheck(p)
  BY <1>1, GotoStep, SkipStep DEF SeedCheck
<1>2. CASE CopySeed(p)
  BY <1>2, GotoStep DEF CopySeed
<1>3. CASE SeedRecheck(p)
  BY <1>3, GotoStep, SkipStep DEF SeedRecheck
<1>4. CASE RenameSeed(p)
  <2>1. cur[p] \in PresentKeys(manifest[p])
    BY <1>4 DEF RenameSeed, IInv, CurOK
  <2>2. Copy(Source(p, cur[p])) \in Objects
    BY <2>1, SourceIsAStore, ObjectFacts DEF IInv
  <2>3. target' \in [Packages -> Objects]
    BY <1>4, <2>2 DEF RenameSeed, IInv, TypeOK
  <2> QED
    BY <1>4, <2>3, EndPackageStep DEF RenameSeed, IInv, TypeOK
<1> QED
  BY <1>1, <1>2, <1>3, <1>4

\* The steps of materialize_legacy_link that stay in the run.
LEMMA MaterializeStep ==
    ASSUME IInv, NEW p \in Procs,
           MaterializeCheck(p) \/ CopyLink(p) \/ Displace(p) \/ Install(p) \/ Cleanup(p)
    PROVE  IInv'
<1> USE DEF LoopSteps, SeedSteps, MovedSteps
<1>1. CASE MaterializeCheck(p)
  BY <1>1, GotoStep, SkipStep DEF MaterializeCheck
<1>2. CASE CopyLink(p)
  BY <1>2, GotoStep DEF CopyLink
<1>3. CASE Displace(p)
  <2> USE <1>3 DEF IInv, Displace, budget
  <2>1. cur[p] \in Packages
    BY DEF CurOK, PresentKeys
  <2>2. TypeOK'
    BY <2>1, ObjectFacts DEF TypeOK, Locked
  <2>3. LockOwner' /\ Fresh' /\ InMemory'
    BY DEF TypeOK, LockOwner, Fresh, InMemory, Locked
  <2>4. CurOK' /\ DisplacedOK'
    BY DEF TypeOK, CurOK, DisplacedOK, PresentKeys
  <2> QED
    BY <2>2, <2>3, <2>4
<1>4. CASE Install(p)
  <2> USE <1>4 DEF IInv, Install, budget
  <2>1. cur[p] \in PresentKeys(manifest[p])
    BY DEF CurOK
  <2>2. Copy(Source(p, cur[p])) \in Objects
    BY <2>1, SourceIsAStore, ObjectFacts
  <2>3. TypeOK'
    BY <2>2 DEF TypeOK, Locked
  <2>4. LockOwner' /\ Fresh' /\ InMemory'
    BY DEF TypeOK, LockOwner, Fresh, InMemory, Locked
  <2>5. CurOK' /\ DisplacedOK'
    BY DEF TypeOK, CurOK, DisplacedOK, PresentKeys
  <2> QED
    BY <2>3, <2>4, <2>5
<1>5. CASE Cleanup(p)
  BY <1>5, SkipStep DEF Cleanup
<1> QED
  BY <1>1, <1>2, <1>3, <1>4, <1>5

\* What Discard keeps is an object of a package.
LEMMA DiscardTypes ==
    ASSUME IInv, NEW p \in Procs, pc[p] \in LoopSteps, Discard(cur[p], displaced[p])
    PROVE  stray' \subseteq Packages \X Objects
<1>1. cur[p] \in Packages /\ displaced[p] \in Objects /\ stray \subseteq Packages \X Objects
  BY DEF IInv, TypeOK, CurOK, PresentKeys
<1> QED
  BY <1>1 DEF Discard

\* The steps that end a run half-way: failures of the renames and a kill.
LEMMA FailStep ==
    ASSUME IInv, NEW p \in Procs, InstallFails(p) \/ CleanupFails(p) \/ Kill(p)
    PROVE  IInv'
<1> USE DEF LoopSteps, IInv
<1>0. pc[p] \in LoopSteps => cur[p] \in Packages
  BY DEF CurOK, PresentKeys
<1>1. CASE InstallFails(p)
  <2>1. stray' \subseteq Packages \X Objects
    BY <1>1, DiscardTypes DEF InstallFails, RollBack, TypeOK
  <2>2. target' \in [Packages -> Objects]
    BY <1>1, <1>0 DEF InstallFails, RollBack, TypeOK
  <2>3. faults' \in 0..MaxFaults
    BY <1>1, BoundsAreNaturals DEF InstallFails, RollBack, TypeOK
  <2> QED
    BY <1>1, <2>1, <2>2, <2>3, LeaveStep DEF InstallFails, TypeOK
<1>2. CASE CleanupFails(p)
  <2>1. stray' \subseteq Packages \X Objects
    BY <1>2, DiscardTypes DEF CleanupFails
  <2> QED
    BY <1>2, <2>1, LeaveStep DEF CleanupFails, TypeOK, budget
<1>3. CASE Kill(p)
  <2>1. stray' \subseteq Packages \X Objects
    BY <1>3, <1>0 DEF Kill, TypeOK, DisplacedOK, MovedSteps
  <2>2. faults' \in 0..MaxFaults
    BY <1>3, BoundsAreNaturals DEF Kill, TypeOK
  <2> QED
    BY <1>3, <2>1, <2>2, LeaveStep DEF Kill, TypeOK
<1> QED
  BY <1>1, <1>2, <1>3

LEMMA CommitStep ==
    ASSUME IInv, NEW p \in Procs, Commit(p)
    PROVE  IInv'
<1>1. lock = p
  BY DEF Commit, IInv, LockOwner, Locked
<1>2. ledger' \in [Packages -> Stores \cup {None}]
  BY DEF Commit, NewLedger, IInv, TypeOK
<1> QED
  BY <1>1, <1>2, LeaveStep DEF Commit, IInv, TypeOK, budget

\* Foundry and the administrator only touch targets.
LEMMA OperatorStep ==
    ASSUME IInv, Operator
    PROVE  IInv'
<1>1. PICK k \in Packages, o \in Objects : Touch(k, o) /\ deleted' \subseteq Packages
  BY ObjectFacts DEF Operator, Put, Delete, Edit, IInv, TypeOK
<1> USE <1>1 DEF IInv, Touch, local
<1>2. TypeOK'
  BY BoundsAreNaturals DEF TypeOK
<1>3. LockOwner' /\ Fresh' /\ InMemory' /\ CurOK' /\ DisplacedOK'
  BY DEF LockOwner, Fresh, InMemory, CurOK, DisplacedOK, PresentKeys
<1> QED
  BY <1>2, <1>3

\* The next-state relation preserves the inductive invariant.
LEMMA NextIInv == IInv /\ [Next]_vars => IInv'
<1> SUFFICES ASSUME IInv, [Next]_vars PROVE IInv'
  OBVIOUS
<1>1. ASSUME NEW p \in Procs, NEW m \in Manifests, Start(p, m) PROVE IInv'
  BY <1>1, StartStep
<1>2. ASSUME NEW p \in Procs, Step(p) PROVE IInv'
  <2>1. CASE AcquireLock(p)
    BY <2>1, AcquireStep
  <2>2. CASE \/ ReadStateFails(p) \/ Reject(p) \/ PackageFails(p) \/ CommitFails(p)
             \/ \E k \in Packages : PreflightFails(p, k)
    BY <2>2, AbortStep DEF ReadStateFails, Reject, PackageFails, CommitFails, PreflightFails
  <2>3. CASE Validate(p)
    BY <2>3, ValidateStep
  <2>4. CASE \E k \in Packages : Preflight(p, k) \/ BeginPackage(p, k)
    BY <2>4, PreflightStep, BeginPackageStep
  <2>5. CASE PreflightDone(p)
    BY <2>5, PreflightDoneStep
  <2>6. CASE SeedCheck(p) \/ CopySeed(p) \/ SeedRecheck(p) \/ RenameSeed(p)
    BY <2>6, SeedStep
  <2>7. CASE MaterializeCheck(p) \/ CopyLink(p) \/ Displace(p) \/ Install(p) \/ Cleanup(p)
    BY <2>7, MaterializeStep
  <2>8. CASE InstallFails(p) \/ CleanupFails(p)
    BY <2>8, FailStep
  <2>9. CASE Commit(p)
    BY <2>9, CommitStep
  <2> QED
    BY <1>2, <2>1, <2>2, <2>3, <2>4, <2>5, <2>6, <2>7, <2>8, <2>9 DEF Step
<1>3. ASSUME NEW p \in Procs, Kill(p) PROVE IInv'
  BY <1>3, FailStep
<1>4. CASE Operator
  BY <1>4, OperatorStep
<1>5. CASE UNCHANGED vars
  BY <1>5 DEF vars, disk, local, budget, IInv, TypeOK, LockOwner, Fresh, InMemory, CurOK,
              DisplacedOK, PresentKeys
<1> QED
  BY <1>1, <1>2, <1>3, <1>4, <1>5 DEF Next

\* The invariant holds in every reachable state.
THEOREM Invariance == Spec => []IInv
<1>1. Init => IInv
  BY InitIInv
<1>2. IInv /\ [Next]_vars => IInv'
  BY NextIInv
<1> QED
  BY <1>1, <1>2, PTL DEF Spec

\* Type correctness of the reconciler, for every instance.
THEOREM TypeCorrect == Spec => []TypeOK
<1>1. IInv => TypeOK
  BY DEF IInv
<1> QED
  BY <1>1, Invariance, PTL

-----------------------------------------------------------------------------
(* Action properties, from the inductive invariant.                         *)

\* The steps that can change a target, with the process that takes them.
LEMMA TargetSteps ==
    ASSUME TypeOK, Next, ops' = ops
    PROVE  \/ UNCHANGED target
           \/ \E p \in Procs : RenameSeed(p) \/ Displace(p) \/ Install(p) \/ InstallFails(p)
<1>1. ASSUME Operator PROVE FALSE
  BY <1>1, BoundsAreNaturals DEF Operator, Put, Delete, Edit, Touch, TypeOK
<1>2. ASSUME NEW p \in Procs, Step(p)
      PROVE  UNCHANGED target \/ RenameSeed(p) \/ Displace(p) \/ Install(p) \/ InstallFails(p)
  BY <1>2 DEF Step, AcquireLock, ReadStateFails, Validate, Reject, Preflight,
     PreflightFails, BeginPackage, PreflightDone, SeedCheck, CopySeed, SeedRecheck,
     MaterializeCheck, CopyLink, Cleanup, CleanupFails, PackageFails, Commit, CommitFails,
     Abort, Goto, Skip, disk
<1> QED
  BY <1>1, <1>2 DEF Next, Start, Kill, disk

\* Initialised packages are not seeded again: the seed path runs only for a
\* package without a record, and the record cannot appear under the lock.
THEOREM SeededOnce == Spec => SeedOnce
<1>1. ASSUME IInv, [Next]_vars, ops' = ops, NEW k \in Packages,
             ledger[k] # None, target[k] = Missing, target'[k] # Missing
      PROVE  lock # None /\ cur[lock] = k /\ displaced[lock] # Missing
  <2>1. Next
    BY <1>1 DEF vars, disk
  <2>2. PICK p \in Procs : RenameSeed(p) \/ Displace(p) \/ Install(p) \/ InstallFails(p)
    BY <1>1, <2>1, TargetSteps DEF IInv
  <2>3. /\ lock = p /\ p # None /\ previous[p] = ledger
        /\ pc[p] \in SeedSteps => ledger[cur[p]] = None
        /\ pc[p] \in MovedSteps => displaced[p] # Missing
    BY <1>1, <2>2, NoneIsNothing DEF IInv, LockOwner, Fresh, CurOK, DisplacedOK, Locked,
       LoopSteps, SeedSteps, RenameSeed, Displace, Install, InstallFails
  <2>4. cur[p] = k
    BY <1>1, <2>2 DEF IInv, TypeOK, RenameSeed, Displace, Install, InstallFails, RollBack
  <2>5. ~RenameSeed(p)
    BY <1>1, <2>3, <2>4 DEF RenameSeed, SeedSteps
  <2>6. ~Displace(p)
    BY <1>1, <2>4 DEF Displace
  <2> QED
    BY <2>2, <2>3, <2>4, <2>5, <2>6 DEF Install, InstallFails, MovedSteps
<1>2. IInv /\ [Next]_vars => SeedOnceStep
  BY <1>1 DEF SeedOnceStep
<1> QED
  BY <1>2, Invariance, PTL DEF Spec, SeedOnce

\* Records are written once and cleared only by a manifest that says absent.
THEOREM RecordedOnce == Spec => InitializationRecordedOnce
<1>1. ASSUME IInv, Next, NEW k \in Packages, ledger[k] # None, ledger'[k] # ledger[k]
      PROVE  ledger'[k] = None /\ lock # None /\ k \in AbsentKeys(manifest[lock])
  <2>1. PICK p \in Procs : Commit(p)
    BY <1>1 DEF Next, Step, Operator, Put, Delete, Edit, Touch, Start, Kill, AcquireLock,
       ReadStateFails, Validate, Reject, Preflight, PreflightFails, BeginPackage,
       PreflightDone, SeedCheck, CopySeed, SeedRecheck, RenameSeed, MaterializeCheck,
       CopyLink, Displace, Install, InstallFails, Cleanup, CleanupFails, PackageFails,
       CommitFails, Abort, Goto, Skip, disk
  <2>2. lock = p /\ lock # None
    BY <1>1, <2>1, NoneIsNothing DEF Commit, IInv, LockOwner, Locked
  <2>3. packages[p][k] = ledger[k]
    BY <1>1, <2>1 DEF Commit, IInv, InMemory
  <2> QED
    BY <1>1, <2>1, <2>2, <2>3 DEF Commit, NewLedger
<1>2. IInv /\ [Next]_vars => [RecordedOnceStep]_vars
  BY <1>1 DEF RecordedOnceStep
<1> QED
  BY <1>2, Invariance, PTL DEF Spec, InitializationRecordedOnce

\* A directory can be replaced by no rename of the reconciler.
LEMMA DirectoriesResist ==
    ASSUME NEW from, NEW onto, CanRename(from, onto)
    PROVE  onto.kind # "dir"
BY DEF CanRename, Missing, EmptyDir

\* A displaced object is touched only by the run that displaced it.
LEMMA DisplacedSteps ==
    ASSUME IInv, Next, NEW p \in Procs, displaced[p] # Missing
    PROVE  \/ displaced'[p] = displaced[p]
           \/ InstallFails(p) \/ Cleanup(p) \/ CleanupFails(p) \/ Kill(p)
<1>1. pc[p] \in MovedSteps
  BY DEF IInv, DisplacedOK
<1>2. ASSUME NEW q \in Procs, q # p, Step(q) \/ Kill(q) PROVE displaced'[p] = displaced[p]
  BY <1>2 DEF Step, AcquireLock, ReadStateFails, Validate, Reject, Preflight,
     PreflightFails, BeginPackage, PreflightDone, SeedCheck, CopySeed, SeedRecheck,
     RenameSeed, MaterializeCheck, CopyLink, Displace, Install, InstallFails, Cleanup,
     CleanupFails, PackageFails, Commit, CommitFails, Kill, Abort, Leave, Goto, Skip,
     EndPackage, IInv, TypeOK
<1>3. ASSUME Step(p)
      PROVE  \/ displaced'[p] = displaced[p]
             \/ InstallFails(p) \/ Cleanup(p) \/ CleanupFails(p)
  BY <1>1, <1>3 DEF Step, AcquireLock, ReadStateFails, Validate, Reject, Preflight,
     PreflightFails, BeginPackage, PreflightDone, SeedCheck, CopySeed, SeedRecheck,
     RenameSeed, MaterializeCheck, CopyLink, Displace, Install, PackageFails, Commit,
     CommitFails, MovedSteps
<1> QED
  BY <1>2, <1>3 DEF Next, Start, Operator, Put, Delete, Edit, Touch, local

\* No directory is lost to the reconciler.
THEOREM NoDirectoryLost == Spec => NothingLost
<1>1. ASSUME IInv, Next, ops' = ops, NEW k \in Packages, target[k].kind = "dir"
      PROVE  target'[k] = target[k] \/ \E p \in Procs : cur'[p] = k /\ displaced'[p] = target[k]
  <2>1. CASE UNCHANGED target
    BY <2>1
  <2>2. ASSUME NEW p \in Procs, RenameSeed(p) \/ Install(p) \/ InstallFails(p)
        PROVE  target'[k] = target[k]
    <3>1. target' = target \/ CanRename(Copy(Source(p, cur[p])), target[cur[p]])
                          \/ CanRename(displaced[p], target[cur[p]])
      BY <2>2 DEF RenameSeed, Install, InstallFails, RollBack
    <3>2. target' = target \/ k # cur[p]
      BY <1>1, <3>1, DirectoriesResist
    <3> QED
      BY <1>1, <2>2, <3>2 DEF RenameSeed, Install, InstallFails, RollBack, IInv, TypeOK
  <2>3. ASSUME NEW p \in Procs, Displace(p)
        PROVE  target'[k] = target[k] \/ (cur'[p] = k /\ displaced'[p] = target[k])
    BY <1>1, <2>3 DEF Displace, IInv, TypeOK
  <2> QED
    BY <1>1, <2>1, <2>2, <2>3, TargetSteps DEF IInv
<1>2. ASSUME IInv, Next, NEW p \in Procs, displaced[p].kind = "dir"
      PROVE  \/ target'[cur[p]] = displaced[p]
             \/ displaced'[p] = displaced[p]
             \/ <<cur[p], displaced[p]>> \in stray'
  <2>1. displaced[p] # Missing
    BY <1>2 DEF Missing
  <2>2. CASE InstallFails(p)
    <3>1. cur[p] \in Packages
      BY <1>2, <2>2 DEF InstallFails, IInv, CurOK, LoopSteps, PresentKeys
    <3> QED
      BY <1>2, <2>2, <3>1 DEF InstallFails, RollBack, Discard, IInv, TypeOK
  <2>3. CASE Cleanup(p)
    BY <1>2, <2>3 DEF Cleanup
  <2>4. CASE CleanupFails(p)
    BY <1>2, <2>4 DEF CleanupFails, Discard
  <2>5. CASE Kill(p)
    BY <2>1, <2>5 DEF Kill
  <2> QED
    BY <1>2, <2>1, <2>2, <2>3, <2>4, <2>5, DisplacedSteps
<1>3. IInv /\ [Next]_vars => [NothingLostStep]_vars
  BY <1>1, <1>2 DEF NothingLostStep, Kept
<1> QED
  BY <1>3, Invariance, PTL DEF Spec, NothingLost

=============================================================================
