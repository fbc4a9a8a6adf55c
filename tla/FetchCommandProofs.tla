------------------------- MODULE FetchCommandProofs -------------------------
(* Safety theorems about FetchCommand, for every number of processes,         *)
(* releases, archives, faults and every retry policy.                        *)
EXTENDS FetchCommand, TLAPS

\* A process that has begun has a release.
Asked == \A p \in Procs : at[p] # "idle" => release[p] \in Releases

\* A put has something to put, and has hashed it from its first pass on.
Given == \A p \in Procs :
    /\ at[p] \in {"put", "look", "install"} => input[p] \in Archives
    /\ at[p] \in {"look", "install", "record", "publish", "stored"} => hash[p] \in Archives

\* What is looked into, and then copied, is what was hashed, unless it has changed;
\* so what has been looked into has the hash.
Unchanged == \A p \in Procs : release[p] \notin changed =>
    /\ at[p] \in {"look", "install"} => input[p] = hash[p]
    /\ at[p] \in {"install", "record", "publish", "stored"} => Valid(hash[p], release[p])

\* A record that nobody else has written has both hashes of one content.
OwnRecords ==
    /\ \A k \in Releases \ tampered :
          sidecar[k] # None => \E a \in Archives : sidecar[k] = Of(a)
    /\ \A p \in Procs : at[p] = "hash" =>
          /\ record[p] \in Records
          /\ release[p] \notin tampered => \E a \in Archives : record[p] = Of(a)

\* What is about to be printed.
Recorded == \A p \in Procs :
    /\ at[p] \in {"publish", "stored"} => record[p] = Of(hash[p])
    /\ at[p] = "found" =>
          /\ Valid(hash[p], release[p]) /\ record[p].sha = hash[p]
          /\ release[p] \notin tampered => record[p].sri = hash[p]

IInv == TypeOK /\ InstalledIsValid /\ Asked /\ Given /\ Unchanged /\ OwnRecords /\ Recorded

LEMMA Constants ==
    /\ ReleaseOf \in [Archives -> Releases \cup {None}]
    /\ None \notin Archives /\ None \notin Releases /\ None \notin Procs
    /\ Blank \notin Archives /\ Blank # None /\ None # Damaged
    /\ None \notin Records /\ Damaged \notin Records
    /\ Attempts \in Nat \ {0} /\ MaxFaults \in Nat
BY ReleaseOfArchives, NoneIsNothing, SpecialSidecars, AttemptsAreNatural, FaultsAreNatural
   DEF Attempts

LEMMA InitIInv == Init => IInv
BY Constants DEF Init, CacheInit, IInv, TypeOK, CacheTypeOK, FlowTypeOK, InstalledIsValid,
   Asked, Given, Unchanged, OwnRecords, Recorded, Steps, Requests, Sidecars

\* A command begins.
LEMMA BeginIInv ==
    ASSUME IInv, NEW p \in Procs, NEW k \in Releases,
           \/ \E a \in Archives : ArchiveCommand(p, k, a)
           \/ AccountCommand(p, k)
           \/ \E s \in Plans : AcquireCommand(p, k, s)
    PROVE  IInv'
<1> USE Constants DEF IInv, TypeOK, CacheTypeOK, FlowTypeOK, InstalledIsValid, Asked, Given,
        Unchanged, OwnRecords, Recorded, Steps, Requests, Sidecars, Valid, Goto, store, modes, call, command,
        history, OpenCache, Begin
<1>1. ASSUME NEW a \in Archives, ArchiveCommand(p, k, a) PROVE IInv'
  BY <1>1 DEF ArchiveCommand
<1>2. CASE AccountCommand(p, k)
  BY <1>2 DEF AccountCommand
<1>3. ASSUME NEW s \in Plans, AcquireCommand(p, k, s) PROVE IInv'
  <2>1. \A t \in Plans : t \in SUBSET {"url", "account", "half", "cache"}
    <3> DEFINE sources == SUBSET {"url", "account", "half"}
    <3>1. \A u \in sources : u \cup {"cache"} \in SUBSET {"url", "account", "half", "cache"}
      BY SMT
    <3>2. Plans \subseteq {u \cup {"cache"} : u \in sources}
      BY Zenon DEF Plans
    <3> HIDE DEF sources
    <3> QED
      BY <3>1, <3>2
  <2> QED
    BY <1>3, <2>1 DEF AcquireCommand
<1> QED BY <1>1, <1>2, <1>3

\* The sources of acquire.
LEMMA UseIInv ==
    ASSUME IInv, NEW p \in Procs, UseUrl(p) \/ UseAccount(p) \/ UseCache(p)
    PROVE  IInv'
<1>1. ASSUME NEW src \in {"url", "account", "cache"},
             NEW l \in {"download", "failed", "login", "get"}, Use(p, src, l)
      PROVE  IInv'
  BY <1>1, Constants DEF IInv, TypeOK, CacheTypeOK, FlowTypeOK, InstalledIsValid, Asked,
     Given, Unchanged, OwnRecords, Recorded, Steps, Requests, Valid, Goto, store, modes, history, Use
<1> QED
  BY <1>1 DEF UseUrl, UseAccount, UseCache

\* A process ends, or is killed.
LEMMA LeaveIInv ==
    ASSUME IInv, NEW p \in Procs, Leave(p), faults' \in 0..MaxFaults
    PROVE  IInv'
BY Constants DEF IInv, TypeOK, CacheTypeOK, FlowTypeOK, InstalledIsValid, Asked, Given,
   Unchanged, OwnRecords, Recorded, Steps, Requests, Valid, Goto, store, modes, Leave

LEMMA FaultType ==
    ASSUME TypeOK, Fault \/ UNCHANGED faults
    PROVE  faults' \in 0..MaxFaults
BY Constants DEF TypeOK, Fault

\* A request to the site; a download may bring any content.
LEMMA FlowIInv ==
    ASSUME IInv, NEW p \in Procs, FlowStep(p), UNCHANGED <<command, history>>
    PROVE  IInv'
<1> USE Constants DEF IInv, TypeOK, CacheTypeOK, FlowTypeOK, InstalledIsValid, Asked, Given,
        Unchanged, OwnRecords, Recorded, Steps, Requests, Valid, Goto, store, modes, call, command, history
<1>1. CASE Answered(p)
  BY <1>1 DEF Answered, Following
<1>2. CASE TryAgain(p)
  BY <1>2 DEF TryAgain, Retries
<1>3. CASE Refused(p)
  BY <1>3 DEF Refused
<1>4. ASSUME NEW a \in Archives, Downloaded(p, a) PROVE IInv'
  BY <1>4 DEF Downloaded
<1> QED BY <1>1, <1>2, <1>3, <1>4 DEF FlowStep

\* A get or a put: what is installed and recorded was validated first, and of
\* the store a process trusts nothing that others may have changed.
LEMMA CacheIInv ==
    ASSUME IInv, NEW p \in Procs, CacheStep(p) \/ RecordFails(p), faults' \in 0..MaxFaults,
           UNCHANGED <<tries, command, tampered, changed>>
    PROVE  IInv'
<1> USE Constants DEF IInv, TypeOK, CacheTypeOK, FlowTypeOK, InstalledIsValid, Asked, Given,
        Unchanged, OwnRecords, Recorded, Steps, Requests, Sidecars, Valid, Goto, store, modes, command
<1>1. CASE GetSidecar(p)
  BY <1>1 DEF GetSidecar, Fails
<1>2. CASE GetHash(p)
  <2>1. CASE at'[p] = "failed"
    BY <1>2, <2>1 DEF GetHash, Fails
  <2>2. CASE at'[p] # "failed"
    <3> DEFINE a == archive[release[p]]
    <3>1. /\ at[p] = "hash" /\ Valid(a, release[p]) /\ Matches(a, record[p])
          /\ at' = [at EXCEPT ![p] = "found"]
          /\ hash' = [hash EXCEPT ![p] = a]
          /\ record' = [record EXCEPT ![p] = Completed(record[p], a)]
          /\ UNCHANGED <<store, modes, release, input>>
      BY <1>2, <2>2 DEF GetHash, Fails
    <3>2. a \in Archives /\ record[p] \in Records
      BY <3>1
    <3>3. /\ Completed(record[p], a) \in Records
          /\ Completed(record[p], a).sha = a
      BY <3>1, <3>2 DEF Completed, Matches, Records, Hashes
    <3>4. ASSUME release[p] \notin tampered
          PROVE  Completed(record[p], a).sri = a
      <4>1. PICK b \in Archives : record[p] = Of(b)
        BY <3>1, <3>4
      <4> QED BY <3>1, <3>2, <4>1 DEF Completed, Matches, Of
    <3> HIDE DEF a
    <3> QED BY <3>1, <3>2, <3>3, <3>4
  <2> QED BY <2>1, <2>2
<1>3. CASE PutHash(p) \/ PutLook(p)
  BY <1>3 DEF PutHash, PutLook, Fails
<1>4. CASE PutInstall(p)
  BY <1>4 DEF PutInstall
<1>5. CASE PutRecord(p)
  <2>1. hash[p] \in Archives /\ Of(hash[p]) \in Records
    BY <1>5 DEF PutRecord, Of, Records, Hashes
  <2> QED BY <1>5, <2>1 DEF PutRecord
<1>6. CASE PutPublish(p)
  BY <1>6 DEF PutPublish
<1>7. CASE CallFails(p) \/ RecordFails(p)
  BY <1>7 DEF CallFails, RecordFails, Fails
<1> QED BY <1>1, <1>2, <1>3, <1>4, <1>5, <1>6, <1>7 DEF CacheStep

\* Somebody replaces a file.
LEMMA TamperIInv ==
    ASSUME IInv,
           \/ \E p \in Procs, a \in Archives : InputChanges(p, a)
           \/ \E k \in Releases : Damage(k)
    PROVE  IInv'
<1> USE DEF IInv, TypeOK, CacheTypeOK, FlowTypeOK, InstalledIsValid, Asked, Given,
        Unchanged, OwnRecords, Recorded, Steps, Requests, Sidecars, Valid, store, modes, call, command
<1>1. faults' \in 0..MaxFaults
  BY FaultType DEF InputChanges, Damage
<1>2. ASSUME NEW p \in Procs, NEW a \in Archives, InputChanges(p, a) PROVE IInv'
  BY <1>1, <1>2, Constants DEF InputChanges
<1>3. ASSUME NEW k \in Releases, Damage(k) PROVE IInv'
  BY <1>1, <1>3, Constants DEF Damage
<1> QED BY <1>2, <1>3

LEMMA NextIInv == IInv /\ [Next]_vars => IInv'
<1> SUFFICES ASSUME IInv, [Next]_vars PROVE IInv'
  OBVIOUS
<1>1. CASE UNCHANGED vars
  BY <1>1 DEF vars, store, modes, call, command, history, IInv, TypeOK, CacheTypeOK,
     FlowTypeOK, InstalledIsValid, Asked, Given, Unchanged, OwnRecords, Recorded, Valid
<1>2. TypeOK
  BY DEF IInv
<1>3. ASSUME NEW p \in Procs, Run(p) PROVE IInv'
  <2>1. CASE GivesUp(p) \/ Exit(p)
    BY <1>2, <2>1, FaultType, LeaveIInv DEF GivesUp, Exit
  <2>2. CASE CacheStep(p) /\ UNCHANGED <<tries, command, history>>
    BY <1>2, <2>2, FaultType, CacheIInv DEF history
  <2>3. CASE RecordFails(p) /\ Fault /\ UNCHANGED <<tries, command, tampered, changed>>
    BY <1>2, <2>3, FaultType, CacheIInv
  <2> QED
    BY <1>3, <2>1, <2>2, <2>3, UseIInv, FlowIInv DEF Run
<1>4. ASSUME NEW p \in Procs, Kill(p) PROVE IInv'
  BY <1>2, <1>4, FaultType, LeaveIInv DEF Kill
<1> QED
  BY <1>1, <1>3, <1>4, BeginIInv, TamperIInv DEF Next

\* The invariant holds of every state that any number of commands can reach.
THEOREM Invariance == Spec => []IInv
BY InitIInv, NextIInv, PTL DEF Spec

-----------------------------------------------------------------------------
\* Type correctness; in particular no request exceeds its attempts.
THEOREM TypeCorrect == Spec => []TypeOK
<1>1. IInv => TypeOK
  BY DEF IInv
<1> QED BY <1>1, Invariance, PTL

\* Commands without a lock, killed at any step, put only archives of the
\* release into the cache.
THEOREM OnlyValidIsInstalled == Spec => []InstalledIsValid
<1>1. IInv => InstalledIsValid
  BY DEF IInv
<1> QED BY <1>1, Invariance, PTL

\* A command prints the SHA-256 of what it has read itself and found to be of the
\* release, and the SRI of the same content unless somebody replaced its files.
THEOREM OnlyWhatWasReadIsPrinted == Spec => []PrintedWasRead
<1>1. IInv => PrintedWasRead
  <2>1. \A a : Of(a).sha = a /\ Of(a).sri = a
    BY DEF Of
  <2> QED BY <2>1 DEF IInv, Unchanged, Recorded, PrintedWasRead
<1> QED BY <1>1, Invariance, PTL

-----------------------------------------------------------------------------
(* One process at a time.                                                    *)

\* What the store holds of the release while the only process works on it.
InStep == \A p \in Procs : release[p] \notin tampered =>
    /\ at[p] \in {"hash", "publish", "stored", "found"} => record[p] = sidecar[release[p]]
    /\ at[p] = "found" => record[p] = Of(archive[release[p]])
    /\ at[p] \in {"record", "publish", "stored"} /\ release[p] \notin changed =>
          hash[p] = archive[release[p]]

LEMMA InStepStep ==
    ASSUME \A p, q \in Procs : p = q, IInv, InStep, [Next]_vars
    PROVE  InStep'
<1> USE Constants DEF IInv, TypeOK, CacheTypeOK, Asked, Given, Unchanged, OwnRecords,
        Recorded, InStep, Requests, Sidecars, Valid, Goto, store, modes, call, command, history
<1>1. CASE UNCHANGED vars
  BY <1>1 DEF vars
<1>2. ASSUME NEW p \in Procs, NEW k \in Releases,
             \/ \E a \in Archives : ArchiveCommand(p, k, a)
             \/ AccountCommand(p, k)
             \/ \E s \in Plans : AcquireCommand(p, k, s)
      PROVE  InStep'
  BY <1>2 DEF ArchiveCommand, AccountCommand, AcquireCommand, Begin
<1>3. ASSUME NEW p \in Procs, UseUrl(p) \/ UseAccount(p) \/ UseCache(p) PROVE InStep'
  BY <1>3 DEF UseUrl, UseAccount, UseCache, Use
<1>4. ASSUME NEW p \in Procs, GivesUp(p) \/ Exit(p) \/ Kill(p) PROVE InStep'
  BY <1>4 DEF GivesUp, Exit, Kill, Leave
<1>5. ASSUME NEW p \in Procs, FlowStep(p), UNCHANGED <<command, history>> PROVE InStep'
  BY <1>5 DEF FlowStep, Answered, TryAgain, Refused, Downloaded, Following
<1>6. ASSUME NEW p \in Procs, CacheStep(p) \/ RecordFails(p), UNCHANGED <<tampered, changed>> PROVE InStep'
  <2>1. CASE GetSidecar(p)
    BY <1>6, <2>1 DEF GetSidecar, Fails
  <2>2. CASE GetHash(p)
    BY <1>6, <2>2 DEF GetHash, Matches, Completed, Fails, Of, Records
  <2>3. CASE PutHash(p) \/ PutLook(p) \/ PutInstall(p)
    BY <1>6, <2>3 DEF PutHash, PutLook, PutInstall, Fails
  <2>4. CASE PutRecord(p) \/ PutPublish(p)
    BY <1>6, <2>4 DEF PutRecord, PutPublish
  <2>5. CASE CallFails(p) \/ RecordFails(p)
    BY <1>6, <2>5 DEF CallFails, RecordFails, Fails
  <2> QED BY <1>6, <2>1, <2>2, <2>3, <2>4, <2>5 DEF CacheStep
<1>7. ASSUME NEW p \in Procs, NEW a \in Archives, InputChanges(p, a) PROVE InStep'
  BY <1>7 DEF InputChanges
<1>8. ASSUME NEW k \in Releases, Damage(k) PROVE InStep'
  BY <1>8 DEF Damage
<1> QED
  BY <1>1, <1>2, <1>3, <1>4, <1>5, <1>6, <1>7, <1>8 DEF Next, Run

\* A command that has the directory to itself prints what the cache and its
\* record hold, whatever earlier ones left behind.
THEOREM OnePrintsWhatIsCached ==
    ASSUME \A p, q \in Procs : p = q
    PROVE  Spec => []PrintedIsCached
<1>1. Init => InStep
  BY DEF Init, CacheInit, InStep
<1>2. IInv /\ InStep /\ [Next]_vars => InStep'
  BY InStepStep
<1>3. IInv /\ InStep => PrintedIsCached
  BY DEF IInv, Recorded, InStep, PrintedIsCached
<1> QED BY <1>1, <1>2, <1>3, Invariance, PTL DEF Spec

-----------------------------------------------------------------------------
(* Commands move on.                                                         *)

\* A request is being retried only while it is being sent.
Idling == \A p \in Procs : at[p] \notin Requests => tries[p] = 0

LEMMA IdlingStep == ASSUME IInv, Idling, [Next]_vars PROVE Idling'
<1> USE DEF IInv, TypeOK, FlowTypeOK, Idling, Requests, Goto, call
<1>1. ASSUME NEW p \in Procs, Run(p) PROVE Idling'
  <2>1. CASE UseUrl(p) \/ UseAccount(p) \/ UseCache(p) \/ GivesUp(p) \/ Exit(p)
    BY <2>1 DEF UseUrl, UseAccount, UseCache, GivesUp, Exit, Use, Leave
  <2>2. CASE FlowStep(p)
    BY <2>2 DEF FlowStep, Answered, TryAgain, Refused, Downloaded, Following
  <2>3. CASE (CacheStep(p) \/ RecordFails(p)) /\ UNCHANGED tries
    BY <2>3 DEF CacheStep, GetSidecar, GetHash, PutHash, PutLook, PutInstall, PutRecord,
       PutPublish, CallFails, RecordFails, Fails
  <2> QED BY <1>1, <2>1, <2>2, <2>3 DEF Run
<1>2. ASSUME NEW p \in Procs, NEW k \in Releases,
             \/ \E a \in Archives : ArchiveCommand(p, k, a)
             \/ AccountCommand(p, k)
             \/ \E s \in Plans : AcquireCommand(p, k, s)
      PROVE  Idling'
  BY <1>2 DEF ArchiveCommand, AccountCommand, AcquireCommand, Begin
<1>3. ASSUME NEW p \in Procs, Kill(p) PROVE Idling'
  BY <1>3 DEF Kill, Leave
<1>4. CASE \/ \E p \in Procs, a \in Archives : InputChanges(p, a)
           \/ \E k \in Releases : Damage(k)
  BY <1>4 DEF InputChanges, Damage
<1>5. CASE UNCHANGED vars
  BY <1>5 DEF vars
<1> QED BY <1>1, <1>2, <1>3, <1>4, <1>5 DEF Next

\* A request that is answered, retried or refused has fewer attempts left.
LEMMA RequestMovesOn ==
    ASSUME IInv, NEW p \in Procs, FlowStep(p), UNCHANGED plan
    PROVE  WorkLeft(p)' < WorkLeft(p)
<1> USE DEF IInv, TypeOK, FlowTypeOK, CacheTypeOK, Requests, Goto, call
<1>1. tries[p] \in Nat /\ tries[p] < Attempts /\ Attempts \in Nat /\ tries'[p] \in Int
  BY Constants DEF FlowStep, Answered, TryAgain, Refused, Downloaded
<1>2. Planned(p)' = Planned(p) /\ Planned(p) \in Nat
  BY <1>1 DEF Planned
<1>3. AtHand(p) \in Int /\ AtHand(p)' \in Int
  BY <1>1 DEF AtHand
<1>4. AtHand(p)' < AtHand(p)
  <2>1. CASE Answered(p)
    <3>1. /\ \/ at[p] = "login" /\ at'[p] = "submit"
             \/ at[p] = "submit" /\ at'[p] = "release"
             \/ at[p] = "release" /\ at'[p] = "download"
          /\ tries'[p] = 0
      BY <2>1 DEF Answered, Following
    <3> QED BY <1>1, <3>1 DEF AtHand
  <2>2. CASE TryAgain(p)
    <3>1. at[p] \in Requests /\ at'[p] = at[p] /\ tries'[p] = tries[p] + 1
      BY <2>2 DEF TryAgain
    <3> QED BY <1>1, <3>1 DEF AtHand
  <2>3. CASE Refused(p) \/ \E a \in Archives : Downloaded(p, a)
    <3>1. /\ at[p] \in Requests /\ at'[p] \in {"failed", "put"}
          /\ at'[p] = "put" => at[p] = "download"
      BY <2>3 DEF Refused, Downloaded
    <3> QED BY <1>1, <3>1 DEF AtHand
  <2> QED BY <2>1, <2>2, <2>3 DEF FlowStep
<1> QED BY <1>2, <1>3, <1>4 DEF WorkLeft

\* A put or a get goes on to its next system call.
LEMMA CacheMovesOn ==
    ASSUME IInv, NEW p \in Procs, CacheStep(p) \/ RecordFails(p), UNCHANGED <<tries, plan>>
    PROVE  WorkLeft(p)' < WorkLeft(p)
<1> USE DEF IInv, TypeOK, CacheTypeOK, Goto
<1>1. \/ at[p] = "get" /\ at'[p] \in {"hash", "absent", "failed"}
      \/ at[p] = "hash" /\ at'[p] \in {"found", "failed"}
      \/ at[p] = "put" /\ at'[p] \in {"look", "failed"}
      \/ at[p] = "look" /\ at'[p] \in {"install", "failed"}
      \/ at[p] = "install" /\ at'[p] \in {"record", "failed"}
      \/ at[p] = "record" /\ at'[p] \in {"publish", "failed"}
      \/ at[p] = "publish" /\ at'[p] \in {"stored", "failed"}
  <2>1. CASE GetSidecar(p) \/ GetHash(p)
    BY <2>1 DEF GetSidecar, GetHash, Fails
  <2>2. CASE PutHash(p) \/ PutLook(p) \/ PutInstall(p) \/ PutRecord(p) \/ PutPublish(p)
    BY <2>2 DEF PutHash, PutLook, PutInstall, PutRecord, PutPublish, Fails
  <2>3. at[p] \notin {"shareRoot", "shareFiles"}
    BY DEF Steps, Requests
  <2>4. CASE CallFails(p) \/ RecordFails(p)
    BY <2>3, <2>4 DEF CallFails, RecordFails, Fails
  <2> QED BY <2>1, <2>2, <2>4 DEF CacheStep
<1>2. AtHand(p) \in Nat /\ AtHand(p)' \in Nat /\ AtHand(p)' < AtHand(p)
  BY <1>1 DEF AtHand
<1>3. Planned(p)' = Planned(p) /\ Planned(p) \in Nat
  BY Constants DEF Planned
<1> QED BY <1>2, <1>3 DEF WorkLeft

\* A source is used once, and costs no more than was planned for it.
LEMMA SourceMovesOn ==
    ASSUME IInv, Idling, NEW p \in Procs, UseUrl(p) \/ UseAccount(p) \/ UseCache(p)
    PROVE  WorkLeft(p)' < WorkLeft(p)
<1> USE Constants DEF IInv, TypeOK, CacheTypeOK, FlowTypeOK, Goto, Idling, Requests
<1>1. ASSUME NEW src \in {"url", "account", "cache"}, NEW l, Use(p, src, l)
      PROVE  /\ at[p] \in {"choose", "failed"} /\ at'[p] = l /\ tries'[p] = 0
             /\ src \in plan[p] /\ plan'[p] = plan[p] \ {src}
  BY <1>1 DEF Use
<1>2. at[p] \in {"choose", "failed"} => AtHand(p) = 0
  BY DEF AtHand
<1>3. CASE UseUrl(p)
  <2>1. AtHand(p)' <= Attempts + 5 /\ AtHand(p)' \in Nat
    BY <1>1, <1>3 DEF UseUrl, AtHand
  <2>2. Planned(p)' = Planned(p) - (Attempts + 6)
    BY <1>1, <1>3 DEF UseUrl, Planned
  <2>3. Planned(p) \in Nat /\ AtHand(p) = 0
    BY <1>1, <1>2, <1>3 DEF UseUrl, Planned
  <2> QED BY <2>1, <2>2, <2>3 DEF WorkLeft
<1>4. CASE UseAccount(p)
  <2>1. AtHand(p)' = 4 * Attempts + 5
    BY <1>1, <1>4 DEF UseAccount, AtHand
  <2>2. Planned(p)' = Planned(p) - (4 * Attempts + 6)
    BY <1>1, <1>4 DEF UseAccount, Planned
  <2>3. Planned(p) \in Nat /\ AtHand(p) = 0
    BY <1>1, <1>2, <1>4 DEF UseAccount, Planned
  <2> QED BY <2>1, <2>2, <2>3 DEF WorkLeft
<1>5. CASE UseCache(p)
  <2>1. AtHand(p)' = 2
    BY <1>1, <1>5 DEF UseCache, AtHand
  <2>2. Planned(p)' = Planned(p) - 3
    BY <1>1, <1>5 DEF UseCache, Planned
  <2>3. Planned(p) \in Nat /\ AtHand(p) = 0
    BY <1>1, <1>2, <1>5 DEF UseCache, Planned
  <2> QED BY <2>1, <2>2, <2>3 DEF WorkLeft
<1> QED BY <1>3, <1>4, <1>5

LEMMA CommandStep ==
    ASSUME IInv, Idling, [Next]_vars
    PROVE  MovesOnStep
<1> SUFFICES ASSUME NEW p \in Procs, at[p] # "idle", at'[p] # "idle",
                    at'[p] # at[p] \/ tries'[p] # tries[p] \/ plan'[p] # plan[p]
             PROVE  WorkLeft(p)' < WorkLeft(p)
  BY DEF MovesOnStep
<1> USE DEF IInv, TypeOK, CacheTypeOK, FlowTypeOK, Goto
<1>1. CASE Run(p)
  <2>1. ~GivesUp(p) /\ ~Exit(p)
    BY DEF GivesUp, Exit, Leave
  <2> QED
    BY <1>1, <2>1, RequestMovesOn, CacheMovesOn, SourceMovesOn DEF Run, command
<1>2. ASSUME NEW q \in Procs \ {p}, Run(q) PROVE FALSE
  <2>1. at'[p] = at[p] /\ tries'[p] = tries[p] /\ plan'[p] = plan[p]
    <3>1. CASE UseUrl(q) \/ UseAccount(q) \/ UseCache(q) \/ GivesUp(q) \/ Exit(q)
      BY <3>1 DEF UseUrl, UseAccount, UseCache, GivesUp, Exit, Use, Leave
    <3>2. CASE FlowStep(q) /\ UNCHANGED <<command, history>>
      BY <3>2 DEF FlowStep, Answered, TryAgain, Refused, Downloaded, command, call
    <3>3. CASE (CacheStep(q) \/ RecordFails(q)) /\ UNCHANGED <<tries, command>>
      BY <3>3 DEF CacheStep, GetSidecar, GetHash, PutHash, PutLook, PutInstall,
         PutRecord, PutPublish, CallFails, RecordFails, Fails, command
    <3> QED BY <1>2, <3>1, <3>2, <3>3 DEF Run
  <2> QED BY <2>1
<1>3. ASSUME NEW q \in Procs,
             \/ Kill(q) \/ \E a \in Archives : InputChanges(q, a)
             \/ \E k \in Releases :
                   \/ \E a \in Archives : ArchiveCommand(q, k, a)
                   \/ AccountCommand(q, k) \/ \E s \in Plans : AcquireCommand(q, k, s)
      PROVE  FALSE
  BY <1>3 DEF Kill, Leave, InputChanges, command, ArchiveCommand, AccountCommand,
     AcquireCommand, Begin
<1>4. ~(\E k \in Releases : Damage(k)) /\ ~UNCHANGED vars
  BY DEF Damage, call, command, vars
<1> QED
  BY <1>1, <1>2, <1>3, <1>4 DEF Next

\* No command goes round in a circle: its attempts and its sources run out,
\* whatever the site answers and however many commands share the cache.
THEOREM CommandsAlwaysMoveOn == Spec => CommandsMoveOn
<1>1. Init => Idling
  BY DEF Init, Idling
<1>2. IInv /\ Idling /\ [Next]_vars => Idling'
  BY IdlingStep
<1>3. IInv /\ Idling /\ [Next]_vars => [MovesOnStep]_vars
  BY CommandStep
<1> QED
  BY <1>1, <1>2, <1>3, Invariance, PTL DEF Spec, CommandsMoveOn

\* A command begins with its first request, with its put, or with its plan.
LEMMA BeginsSomewhere ==
    ASSUME IInv, [Next]_vars, NEW p \in Procs, at[p] = "idle", at'[p] # "idle"
    PROVE  \/ at'[p] \in {"put", "login"} /\ plan'[p] = {}
           \/ at'[p] = "choose"
<1> USE DEF IInv, TypeOK, CacheTypeOK, FlowTypeOK, Goto
<1>1. ASSUME NEW q \in Procs, Run(q) PROVE FALSE
  <2>1. CASE UseUrl(q) \/ UseAccount(q) \/ UseCache(q) \/ GivesUp(q) \/ Exit(q)
    BY <2>1 DEF UseUrl, UseAccount, UseCache, GivesUp, Exit, Use, Leave
  <2>2. CASE FlowStep(q)
    BY <2>2 DEF FlowStep, Answered, TryAgain, Refused, Downloaded, call, Requests
  <2>3. CASE CacheStep(q) \/ RecordFails(q)
    BY <2>3 DEF CacheStep, GetSidecar, GetHash, PutHash, PutLook, PutInstall, PutRecord,
       PutPublish, CallFails, RecordFails, Fails
  <2> QED BY <1>1, <2>1, <2>2, <2>3 DEF Run
<1>2. ASSUME NEW q \in Procs, Kill(q) \/ \E a \in Archives : InputChanges(q, a)
      PROVE  FALSE
  BY <1>2 DEF Kill, Leave, InputChanges
<1>3. ~(\E k \in Releases : Damage(k)) /\ ~UNCHANGED vars
  BY DEF Damage, call, vars
<1>4. ASSUME NEW q \in Procs, NEW k \in Releases,
             \/ \E a \in Archives : ArchiveCommand(q, k, a)
             \/ AccountCommand(q, k)
             \/ \E s \in Plans : AcquireCommand(q, k, s)
      PROVE  \/ at'[p] \in {"put", "login"} /\ plan'[p] = {}
             \/ at'[p] = "choose"
  BY <1>4 DEF ArchiveCommand, AccountCommand, AcquireCommand, Begin
<1> QED BY <1>1, <1>2, <1>3, <1>4 DEF Next

\* What a command may do from now on, its end aside.
Bounded == \A p \in Procs : WorkLeft(p) \in 0 .. 5 * Attempts + 15

LEMMA BoundedStep ==
    ASSUME IInv, IInv', Idling, Bounded, [Next]_vars
    PROVE  Bounded'
<1> SUFFICES ASSUME NEW p \in Procs
             PROVE  WorkLeft(p)' <= 5 * Attempts + 15 /\ WorkLeft(p)' \in Nat
  BY DEF Bounded
<1>1. AtHand(p)' \in Nat /\ Planned(p)' \in 0 .. 5 * Attempts + 15 /\ Attempts \in Nat \ {0}
  <2>1. Attempts \in Nat \ {0}
    BY Constants
  <2>2. tries'[p] \in Nat /\ tries'[p] < Attempts
    BY <2>1 DEF IInv, TypeOK, FlowTypeOK
  <2>3. AtHand(p)' \in Nat
    BY <2>1, <2>2 DEF AtHand
  <2>4. Planned(p)' \in 0 .. 5 * Attempts + 15
    BY <2>1 DEF Planned
  <2> QED BY <2>1, <2>3, <2>4
<1>2. WorkLeft(p)' \in Nat
  BY <1>1 DEF WorkLeft
<1>3. WorkLeft(p) \in 0 .. 5 * Attempts + 15
  BY DEF Bounded
<1>4. CASE at'[p] = "idle"
  BY <1>1, <1>4 DEF WorkLeft, AtHand
<1>5. CASE at[p] # "idle" /\ at'[p] # "idle"
  <2>1. CASE at'[p] = at[p] /\ tries'[p] = tries[p] /\ plan'[p] = plan[p]
    <3>1. WorkLeft(p)' = WorkLeft(p)
      BY <2>1 DEF WorkLeft, AtHand, Planned
    <3> QED BY <1>2, <1>3, <3>1
  <2>2. CASE ~(at'[p] = at[p] /\ tries'[p] = tries[p] /\ plan'[p] = plan[p])
    <3>1. WorkLeft(p)' < WorkLeft(p)
      BY <1>5, <2>2, CommandStep DEF MovesOnStep
    <3> QED BY <1>1, <1>2, <1>3, <3>1
  <2> QED BY <2>1, <2>2
<1>6. CASE at[p] = "idle" /\ at'[p] # "idle"
  <2>1. \/ at'[p] \in {"put", "login"} /\ plan'[p] = {}
        \/ at'[p] = "choose"
    BY <1>6, BeginsSomewhere
  <2>2. CASE at'[p] = "choose"
    BY <1>1, <2>2 DEF WorkLeft, AtHand
  <2>3. CASE at'[p] \in {"put", "login"} /\ plan'[p] = {}
    <3>1. Planned(p)' = 0
      BY <2>3 DEF Planned
    <3>2. tries'[p] \in Nat
      BY DEF IInv, TypeOK, FlowTypeOK
    <3>3. AtHand(p)' = 5 \/ AtHand(p)' = 4 * Attempts + 5 - tries'[p]
      BY <2>3 DEF AtHand
    <3> QED BY <1>1, <1>2, <3>1, <3>2, <3>3 DEF WorkLeft
  <2> QED BY <2>1, <2>2, <2>3
<1> QED BY <1>2, <1>4, <1>5, <1>6

\* A command that has begun takes at most 5 * Attempts + 15 steps and its end: those
\* of acquire with a URL, an account and the cache, each refused in its turn.
THEOREM CommandsAreBounded == Spec => []Bounded
<1>1. Init => Idling
  BY DEF Init, Idling
<1>2. IInv /\ Idling /\ [Next]_vars => Idling'
  BY IdlingStep
<1>3. Init => Bounded
  <2>1. ASSUME Init, NEW p \in Procs PROVE at[p] = "idle" /\ plan[p] = {}
    BY <2>1 DEF Init, CacheInit
  <2>2. ASSUME Init, NEW p \in Procs PROVE WorkLeft(p) = 0
    BY <2>1, <2>2 DEF WorkLeft, AtHand, Planned
  <2>3. 0 \in 0 .. 5 * Attempts + 15
    BY Constants
  <2> QED BY <2>2, <2>3 DEF Bounded
<1>4. IInv /\ IInv' /\ Idling /\ Bounded /\ [Next]_vars => Bounded'
  BY BoundedStep
<1> QED BY <1>1, <1>2, <1>3, <1>4, Invariance, PTL DEF Spec
=============================================================================
