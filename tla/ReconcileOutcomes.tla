------------------------- MODULE ReconcileOutcomes -------------------------
(* What a run of Reconcile has achieved at each of its steps, and the theorems *)
(* about the preflight, the ledger and the targets that follow from it.      *)
EXTENDS ReconcileProofs, FiniteSetTheorems

InLoop == {"loop"} \cup LoopSteps

\* The packages a run has dealt with.
Treated(p) == PresentKeys(manifest[p]) \ todo[p]

\* The manifest was validated before anything was looked at.
ManifestOK(p) == pc[p] \in {"preflight"} \cup InLoop => ValidManifest(manifest[p])

\* The ledger in memory differs from the one on disk by the treated packages.
RecordsOK(p) ==
    pc[p] \in InLoop =>
        /\ \A k \in Treated(p) : packages[p][k] = Source(p, k)
        /\ \A k \in Packages \ Treated(p) : packages[p][k] = ledger[k]

\* Package k is where the run wants it, or was deleted after an earlier run.
Settled(p, k) ==
    /\ target[k] # Link(Source(p, k))
    /\ ResolvesToDir(target[k]) \/ (target[k] = Missing /\ previous[p][k] # None)

\* What holds of the targets as long as nobody has touched one.
CheckedOK(p) ==
    clean[p] =>
        /\ pc[p] = "preflight" => \A k \in Treated(p) : TargetOk(p, k)
        /\ pc[p] \in InLoop =>
              /\ \A k \in PresentKeys(manifest[p]) : TargetOk(p, k)
              /\ \A k \in Treated(p) : Settled(p, k)
        /\ pc[p] \in {"copySeed", "recheck", "renameSeed", "install"} => target[cur[p]] = Missing
        /\ pc[p] = "materialize" => Recorded(p, cur[p]) \/ IsLegacyLink(p)
        /\ pc[p] = "cleanup" => target[cur[p]] = Copy(Source(p, cur[p]))

RunOK(p) == ManifestOK(p) /\ RecordsOK(p) /\ CheckedOK(p)

RunInv == \A p \in Procs : RunOK(p)

\* Whoever touches the targets, one that a run is about to record is missing only
\* if it was deleted or lost before, or while the run is between its two renames.
KeptOK(p) ==
    /\ pc[p] \in InLoop =>
          \A k \in Packages : packages[p][k] # None /\ target[k] = Missing
              => k \in deleted \/ ledger[k] # None \/ (cur[p] = k /\ pc[p] = "install")
    /\ pc[p] \in {"materialize", "copyLink", "displace", "cleanup"} /\ target[cur[p]] = Missing
          => cur[p] \in deleted \/ ledger[cur[p]] # None

RunsKeep == \A p \in Procs : KeptOK(p)

LossInv == IsFiniteSet(LostTargets) /\ FaultsCostOneTargetEach

-----------------------------------------------------------------------------
LEMMA ResolvingFacts ==
    /\ \A s, t \in Stores : Copy(s) # Link(t)
    /\ \A s \in Stores : ResolvesToDir(Copy(s)) /\ Copy(s) # Missing /\ Missing # Link(s)
    /\ ~ResolvesToDir(Missing)
    /\ \A o : CanRename(o, Missing)
BY DEF Copy, Link, Missing, ResolvesToDir, CanRename

\* What a run has read is all that its sources depend on.
LEMMA SameRun ==
    ASSUME NEW p \in Procs, manifest'[p] = manifest[p], previous'[p] = previous[p]
    PROVE  /\ PresentKeys(manifest[p])' = PresentKeys(manifest[p])
           /\ ValidManifest(manifest[p])' <=> ValidManifest(manifest[p])
           /\ \A k : Source(p, k)' = Source(p, k)
           /\ \A k : Recorded(p, k)' <=> Recorded(p, k)
           /\ \A k : target'[k] = target[k] =>
                 /\ TargetOk(p, k)' <=> TargetOk(p, k)
                 /\ Settled(p, k)' <=> Settled(p, k)
<1>1. /\ PresentKeys(manifest[p])' = PresentKeys(manifest[p])
      /\ ValidManifest(manifest[p])' <=> ValidManifest(manifest[p])
  BY DEF PresentKeys, ValidManifest
<1>2. \A k : Source(p, k)' = Source(p, k)
  BY DEF Source, StoreOf
<1>3. ASSUME NEW k, target'[k] = target[k]
      PROVE  /\ TargetOk(p, k)' <=> TargetOk(p, k)
             /\ Settled(p, k)' <=> Settled(p, k)
  BY <1>2, <1>3 DEF TargetOk, Settled
<1>4. \A k : Recorded(p, k)' <=> Recorded(p, k)
  BY DEF Recorded
<1> QED
  BY <1>1, <1>2, <1>3, <1>4

\* Who is in a run got there by taking the lock, or was there and is alone.
LEMMA RunSteps ==
    ASSUME IInv, [Next]_vars, NEW p \in Procs, pc'[p] \in Locked
    PROVE  \/ AcquireLock(p)
           \/ /\ pc[p] \in Locked
              /\ Step(p) \/ Operator
           \/ /\ pc[p] \in Locked
              /\ UNCHANGED <<target, ledger, deleted>>
              /\ pc'[p] = pc[p] /\ manifest'[p] = manifest[p] /\ previous'[p] = previous[p]
              /\ packages'[p] = packages[p] /\ todo'[p] = todo[p] /\ cur'[p] = cur[p]
              /\ clean'[p] = clean[p]
<1> USE NoneIsNothing DEF IInv, LockOwner
<1>1. CASE UNCHANGED vars
  BY <1>1 DEF vars, disk, local
<1>2. CASE Operator
  BY <1>2 DEF Operator, Put, Delete, Edit, Touch, local
<1>3. ASSUME NEW q \in Procs, NEW m \in Manifests, Start(q, m)
      PROVE  /\ pc[p] \in Locked
             /\ UNCHANGED <<target, ledger, deleted>>
             /\ pc'[p] = pc[p] /\ manifest'[p] = manifest[p] /\ previous'[p] = previous[p]
             /\ packages'[p] = packages[p] /\ todo'[p] = todo[p] /\ cur'[p] = cur[p]
             /\ clean'[p] = clean[p]
  BY <1>3 DEF Start, disk, TypeOK, Locked, LoopSteps
<1>4. ASSUME NEW q \in Procs, Kill(q)
      PROVE  /\ pc[p] \in Locked
             /\ UNCHANGED <<target, ledger, deleted>>
             /\ pc'[p] = pc[p] /\ manifest'[p] = manifest[p] /\ previous'[p] = previous[p]
             /\ packages'[p] = packages[p] /\ todo'[p] = todo[p] /\ cur'[p] = cur[p]
             /\ clean'[p] = clean[p]
  BY <1>4 DEF Kill, Leave, TypeOK, Locked, LoopSteps
<1>5. ASSUME NEW q \in Procs, Step(q), pc[p] \in Locked PROVE q = p
  BY <1>5 DEF Step, AcquireLock, ReadStateFails, LockIsFree, Validate, Reject, Preflight,
     PreflightFails, BeginPackage, PreflightDone, SeedCheck, CopySeed, SeedRecheck,
     RenameSeed, MaterializeCheck, CopyLink, Displace, Install, InstallFails, Cleanup,
     CleanupFails, PackageFails, Commit, CommitFails, Locked, LoopSteps
<1>6. ASSUME NEW q \in Procs, Step(q), pc[p] \notin Locked PROVE AcquireLock(p)
  <2>1. q = p
    BY <1>6 DEF Step, AcquireLock, ReadStateFails, Validate, Reject, Preflight,
       PreflightFails, BeginPackage, PreflightDone, SeedCheck, CopySeed, SeedRecheck,
       RenameSeed, MaterializeCheck, CopyLink, Displace, Install, InstallFails, Cleanup,
       CleanupFails, PackageFails, Commit, CommitFails, Abort, Leave, Skip, EndPackage, Goto,
       TypeOK
  <2> QED
    BY <1>6, <2>1 DEF Step, ReadStateFails, Validate, Reject, Preflight,
       PreflightFails, BeginPackage, PreflightDone, SeedCheck, CopySeed, SeedRecheck,
       RenameSeed, MaterializeCheck, CopyLink, Displace, Install, InstallFails, Cleanup,
       CleanupFails, PackageFails, Commit, CommitFails, Abort, Leave, Locked, LoopSteps, TypeOK
<1> QED
  BY <1>1, <1>2, <1>3, <1>4, <1>5, <1>6 DEF Next

-----------------------------------------------------------------------------
(* One lemma per kind of step: what the run has achieved stays true.        *)

\* Up to the loop: the checks add up.
LEMMA CheckSteps ==
    ASSUME IInv, RunInv, NEW p \in Procs,
           \/ AcquireLock(p) \/ Validate(p) \/ PreflightDone(p)
           \/ \E k \in Packages : Preflight(p, k)
    PROVE  RunOK(p)'
<1> USE DEF IInv, TypeOK, RunInv, RunOK, ManifestOK, InLoop, LoopSteps, Treated
<1>1. CASE AcquireLock(p)
  BY <1>1 DEF AcquireLock, RecordsOK, CheckedOK
<1>2. CASE Validate(p)
  BY <1>2, SameRun DEF Validate, RecordsOK, CheckedOK
<1>3. CASE PreflightDone(p)
  <2> USE <1>3 DEF PreflightDone, disk, budget
  <2>1. /\ pc'[p] = "loop" /\ todo'[p] = PresentKeys(manifest[p]) /\ packages'[p] = previous[p]
        /\ manifest' = manifest /\ previous' = previous /\ target' = target /\ ledger' = ledger
        /\ clean' = clean
    OBVIOUS
  <2>2. PresentKeys(manifest[p])' = PresentKeys(manifest[p])
    BY <2>1, SameRun
  <2>3. previous[p] = ledger
    BY DEF Fresh, Locked
  <2>4. ManifestOK(p)' /\ RecordsOK(p)'
    BY <2>1, <2>2, <2>3, SameRun DEF RecordsOK
  <2>5. CheckedOK(p)'
    BY <2>1, <2>2, SameRun DEF CheckedOK, PresentKeys
  <2> QED
    BY <2>4, <2>5
<1>4. ASSUME NEW k \in Packages, Preflight(p, k) PROVE RunOK(p)'
  BY <1>4, SameRun DEF Preflight, RecordsOK, CheckedOK, PresentKeys, disk
<1> QED
  BY <1>1, <1>2, <1>3, <1>4

\* A step inside a package that leaves the targets alone.
LEMMA InsideKeeps ==
    ASSUME IInv, RunInv, NEW p \in Procs, pc[p] \in InLoop, pc'[p] \in LoopSteps,
           UNCHANGED <<target, ledger, manifest, previous, packages, todo, clean>>,
           clean[p] =>
              /\ pc'[p] \in {"copySeed", "recheck", "renameSeed", "install"}
                    => target[cur'[p]] = Missing
              /\ pc'[p] = "materialize"
                    => Recorded(p, cur'[p]) \/ target[cur'[p]] = Link(Source(p, cur'[p]))
              /\ pc'[p] = "cleanup" => target[cur'[p]] = Copy(Source(p, cur'[p]))
    PROVE  RunOK(p)'
<1> USE DEF RunInv, RunOK, InLoop, LoopSteps
<1>1. PresentKeys(manifest[p])' = PresentKeys(manifest[p]) /\ Treated(p)' = Treated(p)
  BY SameRun DEF Treated
<1>2. ManifestOK(p)' /\ RecordsOK(p)'
  BY <1>1, SameRun DEF ManifestOK, RecordsOK
<1>3. IsLegacyLink(p)' <=> target[cur'[p]] = Link(Source(p, cur'[p]))
  BY SameRun DEF IsLegacyLink
<1>4. CheckedOK(p)'
  BY <1>1, <1>3, SameRun DEF CheckedOK
<1> QED
  BY <1>2, <1>4

\* The package at hand, and what its source is.
LEMMA AtHand ==
    ASSUME IInv, NEW p \in Procs, pc[p] \in LoopSteps
    PROVE  /\ cur[p] \in PresentKeys(manifest[p]) /\ cur[p] \in Packages
           /\ Source(p, cur[p]) \in Stores
BY SourceIsAStore DEF IInv, CurOK, LoopSteps, PresentKeys

\* The package at hand is done.
LEMMA EndKeeps ==
    ASSUME IInv, RunInv, NEW p \in Procs, pc[p] \in LoopSteps, EndPackage(p), ledger' = ledger,
           NEW k, k = cur[p], \A j \in Packages \ {k} : target'[j] = target[j],
           clean[p] => TargetOk(p, k)' /\ Settled(p, k)'
    PROVE  RunOK(p)'
<1> USE DEF RunInv, RunOK, EndPackage, InLoop, LoopSteps
<1>1. /\ pc'[p] = "loop" /\ manifest' = manifest /\ previous' = previous /\ clean' = clean
      /\ todo'[p] = todo[p] \ {k}
      /\ packages'[p] = [packages[p] EXCEPT ![k] = Source(p, k)]
  BY DEF IInv, TypeOK
<1>2. /\ PresentKeys(manifest[p])' = PresentKeys(manifest[p])
      /\ PresentKeys(manifest[p]) \subseteq Packages
  BY <1>1, SameRun DEF PresentKeys
<1>3. Treated(p)' = Treated(p) \cup {k} /\ k \in Packages
  BY <1>1, <1>2, AtHand DEF Treated
<1>4. ManifestOK(p)'
  BY <1>1, SameRun DEF ManifestOK
<1>5. packages[p] \in [Packages -> Stores \cup {None}]
  BY DEF IInv, TypeOK
<1>6. RecordsOK(p)'
  BY <1>1, <1>2, <1>3, <1>5, SameRun DEF RecordsOK, Treated
<1>7. CheckedOK(p)'
  BY <1>1, <1>2, <1>3, SameRun DEF CheckedOK, Treated
<1> QED
  BY <1>4, <1>6, <1>7

LEMMA SkipKeeps ==
    ASSUME IInv, RunInv, NEW p \in Procs, pc[p] \in LoopSteps, Skip(p),
           clean[p] => Settled(p, cur[p])
    PROVE  RunOK(p)'
<1>1. PICK k : k = cur[p]
  OBVIOUS
<1>2. EndPackage(p) /\ target' = target /\ ledger' = ledger
  BY DEF Skip, disk
<1>3. manifest' = manifest /\ previous' = previous
  BY <1>2 DEF EndPackage
<1>4. clean[p] => TargetOk(p, k) /\ Settled(p, k)
  BY <1>1, AtHand DEF RunInv, RunOK, CheckedOK, InLoop
<1>5. clean[p] => TargetOk(p, k)' /\ Settled(p, k)'
  BY <1>2, <1>3, <1>4, SameRun
<1> QED
  BY <1>1, <1>2, <1>5, EndKeeps

\* A fresh copy at the target is where the run wants the package.
LEMMA CopySettles ==
    ASSUME IInv, NEW p \in Procs, NEW k, Source(p, k) \in Stores,
           manifest' = manifest, previous' = previous, target'[k] = Copy(Source(p, k))
    PROVE  TargetOk(p, k)' /\ Settled(p, k)'
BY SameRun, ResolvingFacts DEF TargetOk, Settled

LEMMA SeedKeeps ==
    ASSUME IInv, RunInv, NEW p \in Procs,
           SeedCheck(p) \/ CopySeed(p) \/ SeedRecheck(p) \/ RenameSeed(p)
    PROVE  RunOK(p)'
<1> USE DEF InLoop, LoopSteps
<1>0. pc[p] \in LoopSteps /\ CheckedOK(p) /\ pc \in [Procs -> {"idle", "waiting"} \cup Locked]
  BY DEF SeedCheck, CopySeed, SeedRecheck, RenameSeed, RunInv, RunOK, IInv, TypeOK
<1>1. CASE SeedCheck(p)
  <2>1. CASE IsLegacyLink(p) /\ Goto(p, "materialize")
    BY <1>0, <2>1, InsideKeeps DEF Goto, IsLegacyLink, disk
  <2>2. CASE target[cur[p]] = Missing /\ Goto(p, "copySeed")
    BY <1>0, <2>2, InsideKeeps DEF Goto, disk
  <2>3. CASE target[cur[p]] # Missing /\ ~IsLegacyLink(p) /\ Skip(p)
    <3>1. clean[p] => Settled(p, cur[p])
      BY <1>0, <2>3, AtHand DEF CheckedOK, TargetOk, Settled, IsLegacyLink
    <3> QED
      BY <1>0, <2>3, <3>1, SkipKeeps
  <2> QED
    BY <1>1, <2>1, <2>2, <2>3 DEF SeedCheck
<1>2. CASE CopySeed(p)
  BY <1>0, <1>2, InsideKeeps DEF CopySeed, Goto, disk, CheckedOK
<1>3. CASE SeedRecheck(p)
  <2>1. CASE target[cur[p]] = Missing /\ Goto(p, "renameSeed")
    BY <1>0, <2>1, InsideKeeps DEF Goto, disk
  <2>2. CASE target[cur[p]] # Missing /\ Skip(p)
    BY <1>0, <1>3, <2>2, SkipKeeps DEF SeedRecheck, CheckedOK
  <2> QED
    BY <1>3, <2>1, <2>2 DEF SeedRecheck
<1>4. CASE RenameSeed(p)
  <2>1. PICK k : k = cur[p]
    OBVIOUS
  <2>2. /\ EndPackage(p) /\ ledger' = ledger /\ manifest' = manifest /\ previous' = previous
        /\ target' = [target EXCEPT ![k] = Copy(Source(p, k))]
    BY <1>4, <2>1 DEF RenameSeed, EndPackage
  <2>3. k \in Packages /\ target'[k] = Copy(Source(p, k)) /\ Source(p, k) \in Stores
    BY <1>0, <2>1, <2>2, AtHand DEF IInv, TypeOK
  <2>4. TargetOk(p, k)' /\ Settled(p, k)'
    BY <2>2, <2>3, CopySettles
  <2> QED
    BY <1>0, <2>1, <2>2, <2>4, EndKeeps
<1> QED
  BY <1>1, <1>2, <1>3, <1>4

LEMMA MaterializeKeeps ==
    ASSUME IInv, RunInv, NEW p \in Procs,
           MaterializeCheck(p) \/ CopyLink(p) \/ Displace(p) \/ Install(p) \/ Cleanup(p)
    PROVE  RunOK(p)'
<1> USE DEF InLoop, LoopSteps
<1>0. /\ pc[p] \in LoopSteps /\ pc \in [Procs -> {"idle", "waiting"} \cup Locked]
      /\ ManifestOK(p) /\ RecordsOK(p) /\ CheckedOK(p)
  BY DEF MaterializeCheck, CopyLink, Displace, Install, Cleanup, RunInv, RunOK, IInv, TypeOK
<1>1. CASE MaterializeCheck(p)
  <2>1. CASE IsLegacyLink(p) /\ Goto(p, "copyLink")
    BY <1>0, <2>1, InsideKeeps DEF Goto, disk
  <2>2. CASE ~IsLegacyLink(p) /\ Skip(p)
    <3>1. clean[p] => Settled(p, cur[p])
      BY <1>0, <1>1, <2>2, AtHand DEF CheckedOK, MaterializeCheck, TargetOk, Settled, IsLegacyLink,
         Recorded
    <3> QED
      BY <1>0, <2>2, <3>1, SkipKeeps
  <2> QED
    BY <1>1, <2>1, <2>2 DEF MaterializeCheck
<1>2. CASE CopyLink(p)
  BY <1>0, <1>2, InsideKeeps DEF CopyLink, Goto, disk
<1>3. ASSUME NEW k, k = cur[p], NEW o,
             target' = [target EXCEPT ![k] = o], k \notin Treated(p), k \in Packages,
             UNCHANGED <<ledger, manifest, previous, packages, todo, cur, clean>>,
             pc'[p] \in {"install", "cleanup"},
             clean[p] => TargetOk(p, k)',
             pc'[p] = "install" => o = Missing,
             pc'[p] = "cleanup" => o = Copy(Source(p, k))
      PROVE  RunOK(p)'
  <2>1. /\ PresentKeys(manifest[p])' = PresentKeys(manifest[p]) /\ Treated(p)' = Treated(p)
        /\ PresentKeys(manifest[p]) \subseteq Packages
    BY <1>3, SameRun DEF Treated, PresentKeys
  <2>2. ManifestOK(p)' /\ RecordsOK(p)'
    BY <1>0, <1>3, <2>1, SameRun DEF ManifestOK, RecordsOK
  <2>3. target'[k] = o /\ \A j \in Packages \ {k} : target'[j] = target[j]
    BY <1>3 DEF IInv, TypeOK
  <2>4. CheckedOK(p)'
    BY <1>0, <1>3, <2>1, <2>3, SameRun DEF CheckedOK, Treated
  <2> QED
    BY <2>2, <2>4 DEF RunOK
<1>4. PICK k : k = cur[p]
  OBVIOUS
<1>5. k \in Packages /\ k \notin Treated(p) /\ Source(p, k) \in Stores
  BY <1>0, <1>4, AtHand DEF Treated, IInv, CurOK
<1>6. CASE Displace(p)
  <2>1. /\ target' = [target EXCEPT ![k] = Missing] /\ pc'[p] = "install"
        /\ UNCHANGED <<ledger, manifest, previous, packages, todo, cur, clean>>
    BY <1>0, <1>4, <1>6 DEF Displace
  <2>2. TargetOk(p, k)'
    BY <1>5, <2>1 DEF TargetOk, IInv, TypeOK
  <2> QED
    BY <1>3, <1>4, <1>5, <2>1, <2>2
<1>7. CASE Install(p)
  <2>1. /\ target' = [target EXCEPT ![k] = Copy(Source(p, k))] /\ pc'[p] = "cleanup"
        /\ UNCHANGED <<ledger, manifest, previous, packages, todo, cur, clean>>
    BY <1>0, <1>4, <1>7 DEF Install
  <2>2. target'[k] = Copy(Source(p, k))
    BY <1>5, <2>1 DEF IInv, TypeOK
  <2>3. TargetOk(p, k)'
    BY <1>5, <2>1, <2>2, CopySettles
  <2> QED
    BY <1>3, <1>4, <1>5, <2>1, <2>3
<1>8. CASE Cleanup(p)
  BY <1>0, <1>5, <1>4, <1>8, SkipKeeps, ResolvingFacts DEF Cleanup, CheckedOK, Settled
<1> QED
  BY <1>1, <1>2, <1>6, <1>7, <1>8

LEMMA BeginKeeps ==
    ASSUME IInv, RunInv, NEW p \in Procs, NEW k \in Packages, BeginPackage(p, k)
    PROVE  RunOK(p)'
<1>1. /\ cur'[p] = k /\ pc'[p] = IF Recorded(p, k) THEN "materialize" ELSE "seed"
      /\ UNCHANGED <<target, ledger, manifest, previous, packages, todo, clean>>
      /\ pc[p] \in InLoop
  BY DEF BeginPackage, IInv, TypeOK, disk, InLoop
<1> QED
  BY <1>1, InsideKeeps DEF LoopSteps

\* Foundry and the administrator end what was known of the targets, nothing else.
LEMMA OperatorKeeps ==
    ASSUME IInv, RunInv, NEW p \in Procs, Operator
    PROVE  RunOK(p)'
<1>1. UNCHANGED <<ledger, local>> /\ clean'[p] = FALSE
  BY DEF Operator, Put, Delete, Edit, Touch
<1>2. Treated(p)' = Treated(p)
  BY <1>1, SameRun DEF Treated, local
<1>3. ManifestOK(p)' /\ RecordsOK(p)' /\ CheckedOK(p)'
  BY <1>1, <1>2, SameRun DEF ManifestOK, RecordsOK, CheckedOK, local, RunInv, RunOK
<1> QED
  BY <1>3 DEF RunOK

\* Nobody else does anything while the run has the lock.
LEMMA OthersKeep ==
    ASSUME IInv, RunInv, NEW p \in Procs, UNCHANGED <<target, ledger, deleted>>,
           pc'[p] = pc[p], manifest'[p] = manifest[p], previous'[p] = previous[p],
           packages'[p] = packages[p], todo'[p] = todo[p], cur'[p] = cur[p], clean'[p] = clean[p]
    PROVE  RunOK(p)'
<1>1. Treated(p)' = Treated(p) /\ PresentKeys(manifest[p])' = PresentKeys(manifest[p])
  BY SameRun DEF Treated
<1>2. IsLegacyLink(p)' <=> IsLegacyLink(p)
  BY SameRun DEF IsLegacyLink
<1>3. ManifestOK(p)' /\ RecordsOK(p)'
  BY <1>1, SameRun DEF ManifestOK, RecordsOK, RunInv, RunOK
<1>4. CheckedOK(p)'
  BY <1>1, <1>2, SameRun DEF CheckedOK, RunInv, RunOK
<1> QED
  BY <1>3, <1>4 DEF RunOK

\* A step that leaves the run leaves the loop and the preflight.
LEMMA StepKeeps ==
    ASSUME IInv, RunInv, NEW p \in Procs, Step(p), pc'[p] \in Locked
    PROVE  RunOK(p)'
<1>1. ASSUME Leave(p) PROVE FALSE
  BY <1>1 DEF Leave, IInv, TypeOK, Locked, LoopSteps
<1> QED
  BY <1>1, CheckSteps, SeedKeeps, MaterializeKeeps, BeginKeeps DEF Step, ReadStateFails, Reject,
     PreflightFails, InstallFails, CleanupFails, PackageFails, Commit, CommitFails, Abort

LEMMA InitRunInv == Init => RunInv
BY DEF Init, RunInv, RunOK, ManifestOK, RecordsOK, CheckedOK, InLoop, LoopSteps

LEMMA NextRunInv == IInv /\ RunInv /\ [Next]_vars => RunInv'
<1> SUFFICES ASSUME IInv, RunInv, [Next]_vars, NEW p \in Procs PROVE RunOK(p)'
  BY DEF RunInv
<1>1. CASE pc'[p] \in Locked
  BY <1>1, RunSteps, CheckSteps, StepKeeps, OperatorKeeps, OthersKeep
<1>2. CASE pc'[p] \notin Locked
  BY <1>2 DEF RunOK, ManifestOK, RecordsOK, CheckedOK, InLoop, LoopSteps, Locked
<1> QED
  BY <1>1, <1>2

-----------------------------------------------------------------------------
\* What a run has achieved is what it should have, at every step.
THEOREM RunInvariance == Spec => []RunInv
BY InitRunInv, NextRunInv, Invariance, PTL DEF Spec

\* Once the loop has begun no target of the run can make it fail.
THEOREM PreflightBinds == Spec => []PreflightIsBinding
<1>1. RunInv => PreflightIsBinding
  BY DEF RunInv, RunOK, CheckedOK, PreflightIsBinding, InLoop
<1> QED BY <1>1, RunInvariance, PTL

\* What is written is what the manifest asks for, and so are the targets.
THEOREM CommitIsComplete == Spec => []CommitMeetsManifest
<1>1. ASSUME IInv, RunInv, NEW p \in Procs, clean[p], pc[p] = "loop", todo[p] = {}
      PROVE  /\ \A k \in PresentKeys(manifest[p]) :
                  /\ NewLedger(p)[k] # None
                  /\ target[k] # Link(NewLedger(p)[k])
                  /\ ResolvesToDir(target[k]) \/ (target[k] = Missing /\ ledger[k] # None)
             /\ \A k \in Packages \ PresentKeys(manifest[p]) :
                  NewLedger(p)[k] = IF k \in AbsentKeys(manifest[p]) THEN None ELSE ledger[k]
  <2>1. Treated(p) = PresentKeys(manifest[p]) /\ previous[p] = ledger
    BY <1>1 DEF Treated, IInv, Fresh, Locked
  <2>2. \A k \in PresentKeys(manifest[p]) : packages[p][k] = Source(p, k) /\ Settled(p, k)
    BY <1>1, <2>1 DEF RunInv, RunOK, RecordsOK, CheckedOK, InLoop
  <2>3. \A k \in Packages \ PresentKeys(manifest[p]) : packages[p][k] = ledger[k]
    BY <1>1, <2>1 DEF RunInv, RunOK, RecordsOK, InLoop
  <2>4. \A k \in PresentKeys(manifest[p]) : k \in Packages /\ k \notin AbsentKeys(manifest[p])
    BY <1>1 DEF RunInv, RunOK, ManifestOK, ValidManifest, PresentKeys, AbsentKeys, InLoop
  <2>5. \A k \in PresentKeys(manifest[p]) : NewLedger(p)[k] = Source(p, k)
    BY <2>2, <2>4 DEF NewLedger
  <2>6. \A k \in PresentKeys(manifest[p]) : Source(p, k) # None
    BY <1>1, SourceIsAStore, NoneIsNothing DEF IInv
  <2> QED
    BY <2>1, <2>2, <2>3, <2>5, <2>6 DEF NewLedger, Settled
<1>2. IInv /\ RunInv => CommitMeetsManifest
  BY <1>1 DEF CommitMeetsManifest
<1> QED BY <1>2, Invariance, RunInvariance, PTL

-----------------------------------------------------------------------------
(* Recorded targets that get lost.                                           *)

\* A step that leaves the disk and the history alone loses nothing, unless a run
\* leaves its two renames behind, and then the target they were about.
LEMMA QuietLoses ==
    ASSUME UNCHANGED <<target, ledger, deleted>>, NEW k,
           \A p \in Procs : pc[p] = "install" /\ cur[p] # k
               => pc'[p] = "install" /\ cur'[p] = cur[p]
    PROVE  LostTargets' \subseteq LostTargets \cup {k}
BY DEF LostTargets

LEMMA QuietKeeps ==
    ASSUME UNCHANGED <<target, ledger, deleted>>,
           \A p \in Procs : pc[p] = "install" => pc'[p] = "install" /\ cur'[p] = cur[p]
    PROVE  LostTargets' \subseteq LostTargets
BY DEF LostTargets

\* The reconciler's change of one target concerns no other.
LEMMA ChangeLoses ==
    ASSUME IInv, NEW k \in Packages, NEW p \in Procs, ledger' = ledger,
           lock = p, cur[p] = k,
           \A j \in Packages \ {k} : target'[j] = target[j] /\ (j \in deleted => j \in deleted')
    PROVE  /\ LostTargets' \subseteq LostTargets \cup {k}
           /\ target'[k] # Missing \/ (pc'[p] = "install" /\ cur'[p] = k)
                 => LostTargets' \subseteq LostTargets
<1>1. \A q \in Procs : pc[q] = "install" => q = p
  BY DEF IInv, LockOwner, Locked, LoopSteps
<1>2. ASSUME NEW j \in LostTargets', j # k PROVE j \in LostTargets
  BY <1>1, <1>2 DEF LostTargets
<1>3. target'[k] # Missing \/ (pc'[p] = "install" /\ cur'[p] = k) => k \notin LostTargets'
  BY DEF LostTargets
<1> QED
  BY <1>2, <1>3

\* The second rename fails: the roll-back puts something back or finds it there,
\* unless it fails as well.
LEMMA RollBackRestores ==
    ASSUME IInv, NEW p \in Procs, InstallFails(p), faults' = faults
    PROVE  target'[cur[p]] # Missing
<1>1. displaced[p] # Missing /\ cur[p] \in Packages
  BY AtHand DEF InstallFails, IInv, DisplacedOK, MovedSteps, LoopSteps
<1>2. faults' # faults + 1
  BY BoundsAreNaturals DEF IInv, TypeOK
<1> QED
  BY <1>1, <1>2, ResolvingFacts DEF InstallFails, RollBack, IInv, TypeOK

\* What a run commits is recorded already, was deleted, or is there.
LEMMA CommitLoses ==
    ASSUME IInv, RunsKeep, NEW p \in Procs, Commit(p)
    PROVE  LostTargets' \subseteq LostTargets
<1>1. lock = p /\ pc[p] = "loop" /\ UNCHANGED <<target, deleted>> /\ ledger' = NewLedger(p)
  BY DEF Commit, IInv, LockOwner, Locked, budget
<1>2. \A q \in Procs : pc[q] # "install"
  BY <1>1 DEF IInv, LockOwner, Locked, LoopSteps
<1>3. ASSUME NEW k \in Packages, NewLedger(p)[k] # None, target[k] = Missing
      PROVE  k \in deleted \/ ledger[k] # None
  BY <1>1, <1>3 DEF NewLedger, RunsKeep, KeptOK, InLoop
<1> QED
  BY <1>1, <1>2, <1>3 DEF LostTargets

\* A step loses one target at most, and none unless it is counted as a fault.
LosesAtMostOne ==
    /\ faults' = faults \/ faults' = faults + 1
    /\ faults' = faults => LostTargets' \subseteq LostTargets
    /\ \E k : LostTargets' \subseteq LostTargets \cup {k}

LEMMA StepLoses == ASSUME IInv, RunsKeep, [Next]_vars PROVE LosesAtMostOne
<1>0. ASSUME faults' = faults, LostTargets' \subseteq LostTargets PROVE LosesAtMostOne
  BY <1>0 DEF LosesAtMostOne
<1>1. CASE UNCHANGED vars
  BY <1>0, <1>1, QuietKeeps DEF vars, disk, local, budget
<1>2. CASE Operator
  <2>1. PICK k, o : /\ k \in Packages /\ Touch(k, o)
                    /\ o # Missing \/ deleted' = deleted \cup {k}
                    /\ \A j \in Packages \ {k} : j \in deleted => j \in deleted'
    <3>1. UserDir # Missing
      BY DEF UserDir, Missing
    <3> QED
      BY <1>2, <3>1 DEF Operator, Put, Delete, Edit
  <2>2. LostTargets' \subseteq LostTargets
    BY <2>1 DEF Touch, local, IInv, TypeOK, LostTargets
  <2> QED
    BY <1>0, <2>1, <2>2 DEF Touch
<1>3. ASSUME NEW p \in Procs, NEW m \in Manifests, Start(p, m)
      PROVE  LosesAtMostOne
  BY <1>0, <1>3, QuietKeeps DEF Start, disk, budget, IInv, TypeOK
<1>4. ASSUME NEW p \in Procs, Kill(p)
      PROVE  LosesAtMostOne
  <2>1. /\ faults' = faults + 1 /\ UNCHANGED <<target, ledger, deleted>>
        /\ \A q \in Procs : pc[q] = "install" /\ cur[q] # cur[p]
              => pc'[q] = "install" /\ cur'[q] = cur[q]
    BY <1>4 DEF Kill, Leave, IInv, TypeOK
  <2>2. faults' # faults
    BY <2>1, BoundsAreNaturals DEF IInv, TypeOK
  <2> QED
    BY <2>1, <2>2, QuietLoses DEF LosesAtMostOne
<1>5. ASSUME NEW p \in Procs, Step(p)
      PROVE  LosesAtMostOne
  <2>1. CASE RenameSeed(p) \/ Displace(p) \/ Install(p) \/ InstallFails(p)
    <3>1. PICK k : k = cur[p]
      OBVIOUS
    <3>2. lock = p /\ k \in Packages /\ Copy(Source(p, k)) # Missing
      BY <2>1, <3>1, AtHand, ResolvingFacts DEF RenameSeed, Displace, Install, InstallFails,
         IInv, LockOwner, Locked, LoopSteps
    <3>3. /\ ledger' = ledger
          /\ \A j \in Packages \ {k} : target'[j] = target[j] /\ (j \in deleted => j \in deleted')
      BY <2>1, <3>1 DEF RenameSeed, Displace, Install, InstallFails, RollBack, IInv, TypeOK
    <3>4. faults' = faults => target'[k] # Missing \/ (pc'[p] = "install" /\ cur'[p] = k)
      BY <2>1, <3>1, <3>2, RollBackRestores DEF RenameSeed, Displace, Install, IInv, TypeOK
    <3>5. faults' = faults \/ faults' = faults + 1
      BY <2>1 DEF RenameSeed, EndPackage, Displace, Install, InstallFails, RollBack, budget
    <3> QED
      BY <3>1, <3>2, <3>3, <3>4, <3>5, ChangeLoses DEF LosesAtMostOne
  <2>2. CASE Commit(p)
    BY <1>0, <2>2, CommitLoses DEF Commit, budget
  <2>3. CASE \/ AcquireLock(p) \/ ReadStateFails(p) \/ Validate(p) \/ Reject(p)
             \/ \E k \in Packages : Preflight(p, k) \/ PreflightFails(p, k) \/ BeginPackage(p, k)
             \/ PreflightDone(p) \/ SeedCheck(p) \/ CopySeed(p) \/ SeedRecheck(p)
             \/ MaterializeCheck(p) \/ CopyLink(p) \/ Cleanup(p) \/ CleanupFails(p)
             \/ PackageFails(p) \/ CommitFails(p)
    <3>1. pc[p] # "install" /\ UNCHANGED <<target, ledger, deleted>> /\ faults' = faults
      BY <2>3 DEF AcquireLock, ReadStateFails, Validate, Reject, Preflight, PreflightFails,
         BeginPackage, PreflightDone, SeedCheck, CopySeed, SeedRecheck, MaterializeCheck,
         CopyLink, Cleanup, CleanupFails, PackageFails, CommitFails, Abort, Goto, Skip, EndPackage,
         disk, budget
    <3>2. \A q \in Procs \ {p} : pc'[q] = pc[q] /\ cur'[q] = cur[q]
      BY <2>3 DEF AcquireLock, ReadStateFails, Validate, Reject, Preflight, PreflightFails,
         BeginPackage, PreflightDone, SeedCheck, CopySeed, SeedRecheck, MaterializeCheck,
         CopyLink, Cleanup, CleanupFails, PackageFails, CommitFails, Abort, Leave, Goto, Skip,
         EndPackage, IInv, TypeOK
    <3> QED
      BY <1>0, <3>1, <3>2, QuietKeeps
  <2> QED
    BY <1>5, <2>1, <2>2, <2>3 DEF Step
<1> QED
  BY <1>1, <1>2, <1>3, <1>4, <1>5 DEF Next

-----------------------------------------------------------------------------
\* A step inside a package that leaves the targets alone.
LEMMA InsideSurvives ==
    ASSUME RunsKeep, NEW p \in Procs,
           pc[p] \in InLoop \ {"install"}, pc'[p] \in InLoop \ {"install"},
           UNCHANGED <<target, ledger, deleted>>, packages'[p] = packages[p],
           pc'[p] \in {"materialize", "copyLink", "displace", "cleanup"}
               => \/ target[cur'[p]] # Missing
                  \/ cur'[p] \in deleted \/ ledger[cur'[p]] # None
    PROVE  KeptOK(p)'
BY DEF RunsKeep, KeptOK

\* A package is done: it is at its target, or has been missing from before.
LEMMA EndSurvives ==
    ASSUME IInv, RunsKeep, NEW p \in Procs, NEW k, k = cur[p],
           pc[p] \in LoopSteps, EndPackage(p), ledger' = ledger,
           \A j \in Packages \ {k} : target'[j] = target[j] /\ (j \in deleted => j \in deleted'),
           target'[k] = Missing => k \in deleted' \/ ledger[k] # None
    PROVE  KeptOK(p)'
<1>1. /\ pc'[p] = "loop" /\ k \in Packages
      /\ packages'[p] = [packages[p] EXCEPT ![k] = Source(p, k)]
  BY AtHand DEF EndPackage, IInv, TypeOK
<1> QED
  BY <1>1 DEF RunsKeep, KeptOK, IInv, TypeOK, InLoop

LEMMA StepSurvives ==
    ASSUME IInv, RunInv, RunsKeep, NEW p \in Procs, Step(p), pc[p] \in Locked, pc'[p] \in Locked
    PROVE  KeptOK(p)'
<1> USE DEF InLoop, LoopSteps
<1>0. pc \in [Procs -> {"idle", "waiting"} \cup Locked] /\ KeptOK(p)
  BY DEF RunsKeep, IInv, TypeOK
<1>1. ASSUME Leave(p) PROVE FALSE
  BY <1>0, <1>1 DEF Leave, Locked
<1>2. CASE \/ AcquireLock(p) \/ Validate(p) \/ \E k \in Packages : Preflight(p, k)
  BY <1>0, <1>2 DEF AcquireLock, Validate, Preflight, KeptOK, Locked
<1>3. CASE PreflightDone(p)
  <2>1. packages'[p] = ledger /\ pc'[p] = "loop" /\ ledger' = ledger
    BY <1>0, <1>3 DEF PreflightDone, disk, IInv, TypeOK, Fresh, Locked
  <2> QED
    BY <2>1 DEF KeptOK
<1>4. ASSUME NEW k \in Packages, BeginPackage(p, k) PROVE KeptOK(p)'
  <2>1. /\ pc[p] = "loop" /\ UNCHANGED <<target, deleted, packages, ledger>> /\ cur'[p] = k
        /\ pc'[p] = IF Recorded(p, k) THEN "materialize" ELSE "seed"
    BY <1>0, <1>4 DEF BeginPackage, disk, IInv, TypeOK
  <2>2. Recorded(p, k) => ledger[k] # None
    BY <2>1 DEF Recorded, IInv, Fresh, Locked
  <2> QED
    BY <1>0, <2>1, <2>2, InsideSurvives DEF KeptOK
<1>5. CASE SeedCheck(p) \/ CopySeed(p) \/ SeedRecheck(p)
  <2>1. ASSUME Skip(p), target[cur[p]] # Missing PROVE KeptOK(p)'
    BY <1>5, <2>1, EndSurvives DEF Skip, disk, SeedCheck, CopySeed, SeedRecheck
  <2>2. \A s \in Stores : Link(s) # Missing
    BY ResolvingFacts
  <2>3. pc[p] \in LoopSteps \ {"install"} /\ Source(p, cur[p]) \in Stores
    BY <1>5, AtHand DEF SeedCheck, CopySeed, SeedRecheck
  <2>4. ASSUME NEW l \in LoopSteps \ {"install"}, Goto(p, l),
               l \in {"copySeed", "recheck", "renameSeed"} \/ target[cur[p]] # Missing
        PROVE  KeptOK(p)'
    BY <1>0, <2>3, <2>4, InsideSurvives DEF Goto, disk
  <2> QED
    BY <1>5, <2>1, <2>2, <2>3, <2>4 DEF SeedCheck, CopySeed, SeedRecheck, IsLegacyLink
<1>6. CASE RenameSeed(p)
  <2>1. PICK k : k = cur[p]
    OBVIOUS
  <2>2. k \in Packages /\ Copy(Source(p, k)) # Missing
    BY <1>6, <2>1, AtHand, ResolvingFacts DEF RenameSeed
  <2> QED
    BY <1>6, <2>1, <2>2, EndSurvives DEF RenameSeed, IInv, TypeOK
<1>7. CASE MaterializeCheck(p) \/ CopyLink(p) \/ Cleanup(p)
  <2>1. pc[p] \in {"materialize", "copyLink", "cleanup"}
    BY <1>7 DEF MaterializeCheck, CopyLink, Cleanup
  <2>2. CASE Skip(p)
    BY <1>0, <2>1, <2>2, EndSurvives DEF Skip, disk, KeptOK
  <2>3. CASE Goto(p, "copyLink") \/ Goto(p, "displace")
    BY <1>0, <2>1, <2>3, InsideSurvives DEF Goto, disk, KeptOK
  <2> QED
    BY <1>7, <2>2, <2>3 DEF MaterializeCheck, CopyLink, Cleanup
<1>8. CASE Displace(p)
  <2>1. /\ pc'[p] = "install" /\ UNCHANGED <<ledger, deleted, packages, cur>> /\ pc[p] = "displace"
        /\ target' = [target EXCEPT ![cur[p]] = Missing]
    BY <1>0, <1>8 DEF Displace
  <2> QED
    BY <1>0, <2>1 DEF KeptOK, IInv, TypeOK
<1>9. CASE Install(p)
  <2>1. PICK k : k = cur[p]
    OBVIOUS
  <2>2. /\ pc'[p] = "cleanup" /\ deleted' = deleted \ {k} /\ UNCHANGED <<ledger, packages, cur>>
        /\ target' = [target EXCEPT ![k] = Copy(Source(p, k))] /\ pc[p] = "install"
    BY <1>0, <1>9, <2>1 DEF Install
  <2>3. k \in Packages /\ Copy(Source(p, k)) # Missing
    BY <2>1, <2>2, AtHand, ResolvingFacts
  <2> QED
    BY <1>0, <2>1, <2>2, <2>3 DEF KeptOK, IInv, TypeOK
<1> QED
  BY <1>1, <1>2, <1>3, <1>4, <1>5, <1>6, <1>7, <1>8, <1>9 DEF Step, ReadStateFails, Reject,
     PreflightFails, InstallFails, CleanupFails, PackageFails, Commit, CommitFails, Abort

\* A deletion is remembered; whatever else is done to a target, something is there.
LEMMA OperatorSurvives ==
    ASSUME IInv, RunsKeep, NEW p \in Procs, Operator
    PROVE  KeptOK(p)'
<1>1. UserDir # Missing
  BY DEF UserDir, Missing
<1>2. PICK k \in Packages, o \in Objects :
          /\ Touch(k, o)
          /\ o # Missing \/ k \in deleted'
          /\ \A j \in Packages \ {k} : j \in deleted => j \in deleted'
  BY <1>1, ObjectFacts DEF Operator, Put, Delete, Edit
<1>3. target'[k] = o /\ (\A j \in Packages \ {k} : target'[j] = target[j]) /\ UNCHANGED <<ledger, local>>
  BY <1>2 DEF Touch, IInv, TypeOK
<1>4. pc[p] \in LoopSteps => cur[p] \in Packages
  BY AtHand
<1> QED
  BY <1>2, <1>3, <1>4 DEF local, RunsKeep, KeptOK, LoopSteps

LEMMA NextRunsKeep ==
    ASSUME IInv, RunInv, RunsKeep, [Next]_vars
    PROVE  RunsKeep'
<1>1. ASSUME NEW p \in Procs PROVE KeptOK(p)'
  <2>1. CASE AcquireLock(p) \/ pc'[p] \notin Locked
    BY <2>1 DEF AcquireLock, KeptOK, InLoop, LoopSteps, Locked, IInv, TypeOK
  <2>2. CASE ~AcquireLock(p) /\ pc'[p] \in Locked
    BY <2>2, RunSteps, StepSurvives, OperatorSurvives DEF RunsKeep, KeptOK
  <2> QED
    BY <2>1, <2>2
<1> QED
  BY <1>1 DEF RunsKeep

LEMMA NextLossInv ==
    ASSUME IInv, RunsKeep, LossInv, [Next]_vars
    PROVE  LossInv'
<1>1. faults \in Nat /\ (faults' = faults \/ faults' = faults + 1)
  BY StepLoses, BoundsAreNaturals DEF LosesAtMostOne, IInv, TypeOK
<1>2. PICK k : LostTargets' \subseteq LostTargets \cup {k}
  BY StepLoses DEF LosesAtMostOne
<1>3. /\ IsFiniteSet(LostTargets) /\ Cardinality(LostTargets) \in Nat
      /\ Cardinality(LostTargets) <= faults
  BY FS_CardinalityType DEF LossInv, FaultsCostOneTargetEach
<1>4. /\ IsFiniteSet(LostTargets \cup {k})
      /\ Cardinality(LostTargets \cup {k}) \in Nat
      /\ Cardinality(LostTargets \cup {k}) <= Cardinality(LostTargets) + 1
  BY <1>3, FS_AddElement
<1>5. IsFiniteSet(LostTargets') /\ Cardinality(LostTargets') \in Nat
  BY <1>2, <1>4, FS_Subset, FS_CardinalityType
<1>6. CASE faults' = faults
  <2>1. Cardinality(LostTargets') <= Cardinality(LostTargets)
    BY <1>3, <1>6, StepLoses, FS_Subset DEF LosesAtMostOne
  <2> QED
    BY <1>1, <1>3, <1>5, <1>6, <2>1 DEF LossInv, FaultsCostOneTargetEach
<1>7. CASE faults' = faults + 1
  <2>1. Cardinality(LostTargets') <= Cardinality(LostTargets \cup {k})
    BY <1>2, <1>4, FS_Subset
  <2> QED
    BY <1>1, <1>3, <1>4, <1>5, <1>7, <2>1 DEF LossInv, FaultsCostOneTargetEach
<1> QED
  BY <1>1, <1>6, <1>7

LEMMA InitSurvives == Init => RunsKeep /\ LossInv
<1> SUFFICES ASSUME Init PROVE RunsKeep /\ LossInv
  OBVIOUS
<1>1. RunsKeep
  BY DEF Init, RunsKeep, KeptOK, InLoop, LoopSteps
<1>2. LostTargets = {}
  BY DEF Init, LostTargets
<1> QED
  BY <1>1, <1>2, FS_EmptySet DEF Init, LossInv, FaultsCostOneTargetEach

THEOREM LossInvariance == Spec => [](RunsKeep /\ LossInv)
<1>1. IInv /\ RunInv /\ (RunsKeep /\ LossInv) /\ [Next]_vars => (RunsKeep /\ LossInv)'
  BY NextRunsKeep, NextLossInv
<1> QED BY <1>1, InitSurvives, Invariance, RunInvariance, PTL DEF Spec

\* A kill or a failed roll-back costs one recorded target at most, and nothing
\* else costs any: with n of them no more than n recorded packages are without a
\* target that somebody has not deleted.
THEOREM LossIsBounded == Spec => []FaultsCostOneTargetEach
<1>1. LossInv => FaultsCostOneTargetEach
  BY DEF LossInv
<1> QED BY <1>1, LossInvariance, PTL

\* When no run is killed and no roll-back fails, a recorded package is at its
\* target unless somebody deleted it or a run is between its two renames.
THEOREM TargetsSurvive ==
    ASSUME MaxFaults = 0
    PROVE  Spec => []RecordedTargetsSurvive
<1>1. IInv /\ LossInv => RecordedTargetsSurvive
  <2> SUFFICES ASSUME IInv, LossInv PROVE LostTargets = {}
    BY DEF RecordedTargetsSurvive
  <2>1. Cardinality(LostTargets) \in Nat /\ Cardinality(LostTargets) <= 0
    BY FS_CardinalityType DEF LossInv, FaultsCostOneTargetEach, IInv, TypeOK
  <2> QED
    BY <2>1, FS_EmptySet DEF LossInv
<1> QED BY <1>1, Invariance, LossInvariance, PTL

-----------------------------------------------------------------------------
(* A run of Reconcile moves on.                                              *)

\* The sets a run counts are finite, and what it has to do is at most what its
\* manifest wants.
LEMMA Counts ==
    ASSUME TypeOK, NEW p \in Procs
    PROVE  /\ IsFiniteSet(todo[p]) /\ Cardinality(todo[p]) \in Nat
           /\ Cardinality(PresentKeys(manifest[p])) \in Nat
           /\ Cardinality(PresentKeys(manifest[p])) <= Cardinality(Packages)
           /\ \A k \in todo[p] : Cardinality(todo[p] \ {k}) = Cardinality(todo[p]) - 1
           /\ \A k \in todo[p] : Cardinality(todo[p]) >= 1
<1>1. todo[p] \subseteq Packages /\ PresentKeys(manifest[p]) \subseteq Packages
  BY DEF TypeOK, PresentKeys
<1>2. /\ IsFiniteSet(todo[p]) /\ IsFiniteSet(PresentKeys(manifest[p]))
      /\ Cardinality(PresentKeys(manifest[p])) <= Cardinality(Packages)
  BY <1>1, PackagesAreFinite, FS_Subset
<1>3. /\ Cardinality(todo[p]) \in Nat /\ Cardinality(PresentKeys(manifest[p])) \in Nat
  BY <1>2, FS_CardinalityType
<1>4. ASSUME NEW k \in todo[p]
      PROVE  /\ Cardinality(todo[p] \ {k}) = Cardinality(todo[p]) - 1
             /\ Cardinality(todo[p]) >= 1
  <2>1. IsFiniteSet(todo[p] \ {k}) /\ Cardinality(todo[p] \ {k}) = Cardinality(todo[p]) - 1
    BY <1>2, FS_RemoveElement
  <2>2. Cardinality(todo[p] \ {k}) \in Nat
    BY <2>1, FS_CardinalityType
  <2> QED
    BY <1>3, <2>1, <2>2
<1> QED
  BY <1>2, <1>3, <1>4

\* Every package costs at most seven steps: the places of the loop in order.
LEMMA Places ==
    /\ \A l : InPackage(l) \in 0..6
    /\ InPackage("loop") = 0 /\ InPackage("seed") = 1 /\ InPackage("materialize") = 2
    /\ InPackage("copySeed") = 2 /\ InPackage("recheck") = 3 /\ InPackage("renameSeed") = 4
    /\ InPackage("copyLink") = 3 /\ InPackage("displace") = 4 /\ InPackage("install") = 5
    /\ InPackage("cleanup") = 6
BY DEF InPackage

\* Whoever holds the lock has at most eight steps and a bit for each package left.
LEMMA StepsLeftBounds ==
    ASSUME IInv, NEW p \in Procs, pc[p] \in Locked
    PROVE  StepsLeft(p) \in 0 .. 8 * Cardinality(Packages) + 2
<1> USE Counts, Places DEF IInv
<1> DEFINE wanted == Cardinality(PresentKeys(manifest[p]))
           left   == Cardinality(todo[p])
           n      == Cardinality(Packages)
<1>1. wanted \in Nat /\ left \in Nat /\ wanted <= n
  OBVIOUS
<1>2. n \in Nat
  BY PackagesAreFinite, FS_CardinalityType
<1>3. pc[p] # "validate" => left <= wanted
  <2>1. ASSUME pc[p] # "validate" PROVE todo[p] \subseteq PresentKeys(manifest[p])
    BY <2>1 DEF CurOK, Locked
  <2>2. IsFiniteSet(PresentKeys(manifest[p]))
    BY PackagesAreFinite, FS_Subset DEF TypeOK, PresentKeys
  <2> QED
    BY <2>1, <2>2, FS_Subset
<1>4. pc[p] \in LoopSteps => left >= 1
  BY DEF CurOK
<1>5. pc[p] \notin {"validate", "preflight"} \cup LoopSteps => InPackage(pc[p]) = 0
  BY DEF Locked
<1>6. StepsLeft(p) = CASE pc[p] = "validate" -> 8 * wanted + 2
                       [] pc[p] = "preflight" -> 7 * wanted + left + 1
                       [] OTHER -> 7 * left - InPackage(pc[p])
  BY DEF StepsLeft
<1> DEFINE i == InPackage(pc[p])
<1>7. i \in 0..6
  BY DEF Places
<1> HIDE DEF wanted, left, n, i
<1>8. CASE pc[p] = "validate"
  <2>1. StepsLeft(p) = 8 * wanted + 2
    BY <1>6, <1>8
  <2> QED BY <1>1, <1>2, <2>1 DEF n
<1>9. CASE pc[p] = "preflight"
  <2>1. StepsLeft(p) = 7 * wanted + left + 1 /\ left <= wanted
    BY <1>3, <1>6, <1>9
  <2> QED BY <1>1, <1>2, <2>1 DEF n
<1>10. CASE pc[p] \notin {"validate", "preflight"}
  <2>1. StepsLeft(p) = 7 * left - i /\ left <= wanted
    BY <1>3, <1>6, <1>10 DEF i
  <2>2. left >= 1 \/ i = 0
    BY <1>4, <1>5, <1>10 DEF i
  <2> QED BY <1>1, <1>2, <1>7, <2>1, <2>2 DEF n
<1> QED
  BY <1>8, <1>9, <1>10

\* A step to a later place, or to the next package, leaves fewer steps.
LEMMA LaterPlace ==
    ASSUME TypeOK, NEW p \in Procs, todo'[p] = todo[p],
           pc[p] \notin {"validate", "preflight"}, pc'[p] \notin {"validate", "preflight"},
           InPackage(pc[p]) < InPackage(pc'[p])
    PROVE  StepsLeft(p)' < StepsLeft(p)
<1>1. /\ StepsLeft(p) = 7 * Cardinality(todo[p]) - InPackage(pc[p])
      /\ StepsLeft(p)' = 7 * Cardinality(todo[p]) - InPackage(pc'[p])
  BY DEF StepsLeft
<1>2. /\ InPackage(pc[p]) \in 0..6 /\ InPackage(pc'[p]) \in 0..6
      /\ Cardinality(todo[p]) \in Nat
  BY Places, Counts
<1> QED
  BY <1>1, <1>2

LEMMA NextPackage ==
    ASSUME TypeOK, NEW p \in Procs, NEW k \in todo[p], todo'[p] = todo[p] \ {k},
           pc[p] \notin {"validate", "preflight"}, pc'[p] = "loop"
    PROVE  StepsLeft(p)' < StepsLeft(p)
<1>1. /\ StepsLeft(p) = 7 * Cardinality(todo[p]) - InPackage(pc[p])
      /\ StepsLeft(p)' = 7 * Cardinality(todo[p] \ {k}) - InPackage("loop")
  BY DEF StepsLeft
<1>2. /\ InPackage(pc[p]) \in 0..6 /\ InPackage("loop") = 0
      /\ Cardinality(todo[p]) \in Nat
      /\ Cardinality(todo[p] \ {k}) = Cardinality(todo[p]) - 1
  BY Places, Counts
<1> QED
  BY <1>1, <1>2

\* A package that is done is taken off the list.
LEMMA EndMovesOn ==
    ASSUME IInv, NEW p \in Procs, pc[p] \in LoopSteps, EndPackage(p)
    PROVE  StepsLeft(p)' < StepsLeft(p)
<1>1. /\ cur[p] \in todo[p] /\ todo'[p] = todo[p] \ {cur[p]} /\ pc'[p] = "loop"
      /\ pc[p] \notin {"validate", "preflight"}
  BY DEF IInv, TypeOK, CurOK, EndPackage, LoopSteps
<1> QED
  BY <1>1, NextPackage DEF IInv

\* A step inside a package advances.
LEMMA GotoMovesOn ==
    ASSUME TypeOK, NEW p \in Procs, NEW l, Goto(p, l), pc[p] \in LoopSteps, l \in LoopSteps,
           InPackage(pc[p]) < InPackage(l)
    PROVE  StepsLeft(p)' < StepsLeft(p)
<1>1. pc'[p] = l /\ todo'[p] = todo[p]
  BY DEF Goto, TypeOK
<1> QED
  BY <1>1, LaterPlace DEF LoopSteps

LEMMA StepMovesOn ==
    ASSUME IInv, NEW p \in Procs, pc[p] \in Locked, pc'[p] \in Locked, Step(p)
    PROVE  StepsLeft(p)' < StepsLeft(p)
<1> USE DEF IInv
<1>1. CASE Validate(p)
  <2>1. /\ pc[p] = "validate" /\ pc'[p] = "preflight"
        /\ todo'[p] = PresentKeys(manifest[p]) /\ manifest'[p] = manifest[p]
    BY <1>1 DEF Validate, TypeOK
  <2>2. Cardinality(PresentKeys(manifest[p])) \in Nat
    BY Counts
  <2> QED
    BY <2>1, <2>2 DEF StepsLeft, PresentKeys
<1>2. ASSUME NEW k \in Packages, Preflight(p, k) PROVE StepsLeft(p)' < StepsLeft(p)
  <2>1. /\ pc[p] = "preflight" /\ pc'[p] = "preflight" /\ k \in todo[p]
        /\ todo'[p] = todo[p] \ {k} /\ manifest'[p] = manifest[p]
    BY <1>2 DEF Preflight, TypeOK
  <2>2. /\ Cardinality(PresentKeys(manifest[p])) \in Nat /\ Cardinality(todo[p]) \in Nat
        /\ Cardinality(todo[p] \ {k}) = Cardinality(todo[p]) - 1
    BY <2>1, Counts
  <2> QED
    BY <2>1, <2>2 DEF StepsLeft, PresentKeys
<1>3. CASE PreflightDone(p)
  <2>1. /\ pc[p] = "preflight" /\ pc'[p] = "loop"
        /\ todo'[p] = PresentKeys(manifest[p]) /\ manifest'[p] = manifest[p]
    BY <1>3 DEF PreflightDone, TypeOK
  <2>2. Cardinality(PresentKeys(manifest[p])) \in Nat /\ Cardinality(todo[p]) \in Nat
    BY Counts
  <2> QED
    BY <2>1, <2>2, Places DEF StepsLeft
<1>4. ASSUME NEW k \in Packages, BeginPackage(p, k) PROVE StepsLeft(p)' < StepsLeft(p)
  <2>1. pc[p] = "loop" /\ pc'[p] \in {"materialize", "seed"} /\ todo'[p] = todo[p]
    BY <1>4 DEF BeginPackage, TypeOK
  <2> QED
    BY <2>1, Places, LaterPlace
<1>5. CASE SeedCheck(p) \/ CopySeed(p) \/ SeedRecheck(p) \/ RenameSeed(p)
  BY <1>5, Places, GotoMovesOn, EndMovesOn
     DEF SeedCheck, CopySeed, SeedRecheck, RenameSeed, Skip, LoopSteps
<1>6. CASE MaterializeCheck(p) \/ CopyLink(p) \/ Cleanup(p)
  BY <1>6, Places, GotoMovesOn, EndMovesOn DEF MaterializeCheck, CopyLink, Cleanup, Skip, LoopSteps
<1>7. CASE Displace(p) \/ Install(p)
  <2>1. /\ \/ pc[p] = "displace" /\ pc'[p] = "install"
           \/ pc[p] = "install" /\ pc'[p] = "cleanup"
        /\ todo'[p] = todo[p]
    BY <1>7 DEF Displace, Install, TypeOK
  <2> QED
    BY <2>1, Places, LaterPlace
<1>8. ~AcquireLock(p)
  BY DEF AcquireLock, Locked, LoopSteps
<1>9. Leave(p) => FALSE
  BY DEF Leave, Locked, LoopSteps, TypeOK
<1> QED
  BY <1>1, <1>2, <1>3, <1>4, <1>5, <1>6, <1>7, <1>8, <1>9
     DEF Step, ReadStateFails, Reject, PreflightFails, InstallFails, CleanupFails, PackageFails,
         Commit, CommitFails, Abort

\* Whatever happens to its targets, a run that holds the lock has fewer steps left
\* after each step it takes: it never goes back or round in a circle.
THEOREM RunsAlwaysMoveOn == Spec => RunsMoveOn
<1>1. IInv /\ IInv' /\ [Next]_vars => MovesOnStep
  <2> SUFFICES ASSUME IInv, IInv', [Next]_vars, NEW p \in Procs, lock = p, lock' = p,
                      pc'[p] # pc[p] \/ todo'[p] # todo[p]
               PROVE  StepsLeft(p)' < StepsLeft(p)
    BY DEF MovesOnStep
  <2>1. pc[p] \in Locked /\ pc'[p] \in Locked
    BY DEF IInv, LockOwner
  <2>2. ~AcquireLock(p) /\ ~Operator
    BY <2>1 DEF AcquireLock, Locked, LoopSteps, Operator, Put, Delete, Edit, Touch, local
  <2> QED
    BY <2>1, <2>2, RunSteps, StepMovesOn
<1>2. IInv /\ IInv' /\ [Next]_vars => [MovesOnStep]_vars
  BY <1>1
<1> QED BY <1>2, Invariance, PTL DEF Spec, RunsMoveOn

\* A run that has the lock has at most eight steps for each package, and two, left.
THEOREM RunsAreBounded ==
    Spec => [](\A p \in Procs : lock = p => StepsLeft(p) \in 0 .. 8 * Cardinality(Packages) + 2)
<1>1. IInv => \A p \in Procs : lock = p => StepsLeft(p) \in 0 .. 8 * Cardinality(Packages) + 2
  BY StepsLeftBounds DEF IInv, LockOwner
<1> QED BY <1>1, Invariance, PTL

=============================================================================
