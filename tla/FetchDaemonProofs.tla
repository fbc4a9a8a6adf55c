------------------------- MODULE FetchDaemonProofs -------------------------
(* Theorems about FetchDaemon, for every number of builds, releases, archives *)
(* and derivations and every retry policy.                                   *)
EXTENDS FetchDaemon, TLAPS

\* Whoever does what the mutex is for holds it, so there is one of them.
OneAtATime == \A p \in Procs : at[p] \in Critical => lock = p

\* A handler lives as long as its daemon, and has a release and a hash to look for.
Connected ==
    \A p \in Procs : at[p] # "idle" =>
        daemon = "up" /\ release[p] \in Releases /\ want[p] \in Archives

\* Where a handler is tells what the sidecar of its release records: nothing from
\* the moment the cache was found empty until the new sidecar is in place, and
\* the record in the handler's hands from then on.
Recording ==
    \A p \in Procs :
        /\ at[p] \in Requests \cup {"absent", "put", "look", "install", "record"} =>
              sidecar[release[p]] = None
        /\ at[p] \in {"hash", "publish", "stored", "found", "shareRoot", "shareFiles", "shared"} =>
              sidecar[release[p]] # None /\ record[p] = sidecar[release[p]]

\* What is being installed was validated, and the archive is in place before the sidecar.
Installing ==
    \A p \in Procs :
        /\ at[p] \in {"put", "look", "install", "record"} => input[p] \in Archives
        /\ at[p] \in {"look", "install", "record"} => hash[p] = input[p]
        /\ at[p] \in {"install", "record"} => Valid(input[p], release[p])
        /\ at[p] = "record" => archive[release[p]] = input[p]

\* Only the declared archive gets as far as being shared.
Accepted == \A p \in Procs :
    at[p] \in {"shareRoot", "shareFiles", "shared"} =>
    record[p].sri = want[p]

\* What was promised is recorded, and nobody is about to close its file.
PromisedIsRecorded ==
    /\ \A d \in promised : sidecar[d[1]] = Of(d[2])
    /\ \A p \in Procs : at[p] = "publish" => \A d \in promised : d[1] # release[p]

\* The directory of a running daemon is open to the builds.
Readable ==
    /\ daemon = "up" => rootMode = "shared" /\ \A d \in promised : d[1] \in shared
    /\ \A p \in Procs : at[p] = "shared" => release[p] \in shared

IInv ==
    /\ TypeOK /\ CacheAgrees
    /\ OneAtATime /\ Connected /\ Recording /\ Installing /\ Accepted
    /\ PromisedIsRecorded /\ Readable

LEMMA Constants ==
    /\ ReleaseOf \in [Archives -> Releases \cup {None}]
    /\ None \notin Archives /\ None \notin Releases /\ None \notin Procs
    /\ Blank \notin Archives /\ Blank # None /\ None # Damaged
    /\ None \notin Records /\ Damaged \notin Records
    /\ \A a \in Archives : Of(a) \in Records
    /\ \A a : Of(a).sha = a /\ Of(a).sri = a
    /\ Attempts \in Nat \ {0}
    /\ Derivations \subseteq Releases \X Archives
BY ReleaseOfArchives, NoneIsNothing, SpecialSidecars, AttemptsAreNatural,
   DerivationsDeclare DEF Attempts, Of, Records, Hashes

LEMMA InitIInv == Init => IInv
BY Constants DEF Init, CacheInit, IInv, TypeOK, CacheTypeOK, FlowTypeOK, CacheAgrees,
   OneAtATime, Connected, Recording, Installing, Accepted, PromisedIsRecorded, Readable,
   Requests, Critical, Sidecars

-----------------------------------------------------------------------------
(* Every step keeps the invariant.  What the steps have in common is that    *)
(* only the holder of the mutex touches the store, and the invariant says    *)
(* at each of its places what it has found there.                            *)

LEMMA DaemonIInv ==
    ASSUME IInv, StartDaemon \/ Listen \/ Crash
    PROVE  IInv'
<1> USE Constants DEF IInv, TypeOK, CacheTypeOK, FlowTypeOK, CacheAgrees, OneAtATime,
        Connected, Recording, Installing, Accepted, PromisedIsRecorded, Readable,
        Requests, Critical, Sidecars, Valid, store, modes, call
<1>1. CASE StartDaemon
  BY <1>1 DEF StartDaemon, OpenCache
<1>2. CASE Listen
  BY <1>2 DEF Listen
<1>3. CASE Crash
  BY <1>3 DEF Crash
<1> QED BY <1>1, <1>2, <1>3

LEMMA ConnectionIInv ==
    ASSUME IInv, NEW p \in Procs,
           \/ \E d \in Derivations : Connect(p, d[1], d[2])
           \/ ReadRequest(p) \/ Reject(p) \/ TakeLock(p) \/ LogIn(p) \/ Accept(p)
           \/ Fail(p) \/ Ready(p) \/ Leave(p)
    PROVE  IInv'
<1> USE Constants DEF IInv, TypeOK, CacheTypeOK, FlowTypeOK, CacheAgrees, OneAtATime,
        Connected, Recording, Installing, Accepted, PromisedIsRecorded, Readable,
        Requests, Critical, Sidecars, Valid, Goto, store, modes, call, service
<1>1. CASE \E d \in Derivations : Connect(p, d[1], d[2])
  <2>1. PICK d \in Derivations : Connect(p, d[1], d[2])
    BY <1>1
  <2>2. d[1] \in Releases /\ d[2] \in Archives
    OBVIOUS
  <2> QED BY <2>1, <2>2 DEF Connect
<1>2. CASE ReadRequest(p)
  BY <1>2 DEF ReadRequest
<1>3. CASE Reject(p)
  BY <1>3 DEF Reject
<1>4. CASE TakeLock(p)
  BY <1>4 DEF TakeLock
<1>5. CASE LogIn(p)
  BY <1>5 DEF LogIn
<1>6. CASE Accept(p)
  BY <1>6 DEF Accept
<1>7. CASE Fail(p)
  BY <1>7 DEF Fail
<1>8. CASE Ready(p)
  BY <1>8 DEF Ready
<1>9. CASE Leave(p)
  BY <1>9 DEF Leave
<1> QED BY <1>1, <1>2, <1>3, <1>4, <1>5, <1>6, <1>7, <1>8, <1>9

LEMMA FlowIInv ==
    ASSUME IInv, NEW p \in Procs, FlowStep(p), UNCHANGED service
    PROVE  IInv'
<1> USE Constants DEF IInv, TypeOK, CacheTypeOK, FlowTypeOK, CacheAgrees, OneAtATime,
        Connected, Recording, Installing, Accepted, PromisedIsRecorded, Readable,
        Requests, Critical, Sidecars, Valid, Goto, store, modes, call, service
<1>1. CASE Answered(p)
  BY <1>1 DEF Answered, Following
<1>2. CASE TryAgain(p)
  BY <1>2 DEF TryAgain, Retries
<1>3. CASE Refused(p)
  BY <1>3 DEF Refused
<1>4. ASSUME NEW a \in Archives, Downloaded(p, a) PROVE IInv'
  BY <1>4 DEF Downloaded
<1> QED BY <1>1, <1>2, <1>3, <1>4 DEF FlowStep

LEMMA CacheIInv ==
    ASSUME IInv, NEW p \in Procs, UNCHANGED <<tries, service>>,
           CacheStep(p) \/ RecordFails(p) \/ ShareRoot(p) \/ ShareFiles(p)
    PROVE  IInv'
<1> USE Constants DEF IInv, TypeOK, CacheTypeOK, FlowTypeOK, CacheAgrees, OneAtATime,
        Connected, Recording, Installing, Accepted, PromisedIsRecorded, Readable,
        Requests, Critical, Sidecars, Valid, Goto, store, modes, call, service
<1>1. CASE GetSidecar(p)
  BY <1>1 DEF GetSidecar, Fails
<1>2. CASE GetHash(p)
  <2>1. CASE at'[p] = "failed"
    BY <1>2, <2>1 DEF GetHash, Fails
  <2>2. CASE at'[p] # "failed"
    <3>1. /\ at[p] = "hash" /\ at' = [at EXCEPT ![p] = "found"]
          /\ hash' = [hash EXCEPT ![p] = archive[release[p]]]
          /\ record' = [record EXCEPT ![p] = Completed(record[p], archive[release[p]])]
          /\ UNCHANGED <<store, modes, release, input>>
      BY <1>2, <2>2 DEF GetHash, Fails
    <3>2. record[p] = Of(archive[release[p]]) /\ archive[release[p]] \in Archives
      BY <3>1
    <3>3. Completed(record[p], archive[release[p]]) = record[p]
      BY <3>2 DEF Completed, Of
    <3> QED BY <3>1, <3>2, <3>3
  <2> QED BY <2>1, <2>2
<1>3. CASE PutHash(p) \/ PutLook(p)
  BY <1>3 DEF PutHash, PutLook, Fails
<1>4. CASE PutInstall(p)
  BY <1>4 DEF PutInstall
<1>5. CASE PutRecord(p)
  BY <1>5 DEF PutRecord
<1>6. CASE PutPublish(p)
  BY <1>6 DEF PutPublish
<1>7. CASE CallFails(p) \/ RecordFails(p)
  BY <1>7 DEF CallFails, RecordFails, Fails
<1>8. CASE ShareRoot(p)
  BY <1>8 DEF ShareRoot
<1>9. CASE ShareFiles(p)
  BY <1>9 DEF ShareFiles
<1> QED BY <1>1, <1>2, <1>3, <1>4, <1>5, <1>6, <1>7, <1>8, <1>9 DEF CacheStep

LEMMA NextIInv == IInv /\ [Next]_vars => IInv'
<1> SUFFICES ASSUME IInv, [Next]_vars PROVE IInv'
  OBVIOUS
<1>1. CASE UNCHANGED vars
  BY <1>1 DEF vars, service, store, modes, call, IInv, TypeOK, CacheTypeOK, FlowTypeOK,
     CacheAgrees, OneAtATime, Connected, Recording, Installing, Accepted,
     PromisedIsRecorded, Readable
<1>2. CASE StartDaemon \/ Listen \/ Crash
  BY <1>2, DaemonIInv
<1>3. ASSUME NEW p \in Procs,
             \/ ReadRequest(p) \/ Reject(p) \/ TakeLock(p) \/ Handle(p)
             \/ \E d \in Derivations : Connect(p, d[1], d[2])
      PROVE  IInv'
  BY <1>3, ConnectionIInv, FlowIInv, CacheIInv DEF Handle
<1> QED BY <1>1, <1>2, <1>3 DEF Next

\* The invariant holds of every state the daemon can reach.
THEOREM Invariance == Spec => []IInv
BY InitIInv, NextIInv, PTL DEF Spec

-----------------------------------------------------------------------------
(* The invariants of the runs.                                               *)

\* Type correctness of the daemon, the account flow and the cache.
THEOREM TypeCorrect == Spec => []TypeOK
<1>1. IInv => TypeOK
  BY DEF IInv
<1> QED BY <1>1, Invariance, PTL

\* The archive and the sidecar of a release never disagree, however often the
\* daemon dies between the two renames of put_at.
THEOREM ArchivesAgree == Spec => []CacheAgrees
<1>1. IInv => CacheAgrees
  BY DEF IInv
<1> QED BY <1>1, Invariance, PTL

\* A path that was answered as ready keeps the archive with the declared hash.
THEOREM PromisesKept == Spec => []PromisesAreKept
<1>1. IInv => PromisesAreKept
  BY Constants DEF IInv, TypeOK, CacheTypeOK, CacheAgrees, PromisedIsRecorded,
     PromisesAreKept, Valid
<1> QED BY <1>1, Invariance, PTL

\* The build group can read every such archive while the daemon is up.
THEOREM PromisesReadable == Spec => []PromisesAreReadable
<1>1. IInv => PromisesAreReadable
  BY DEF IInv, Readable, PromisesAreReadable
<1> QED BY <1>1, Invariance, PTL

\* The mutex admits one login at a time, for a release that is not cached.
THEOREM LoginsAreExclusive == Spec => []OneLoginAtATime
<1>1. IInv => OneLoginAtATime
  BY DEF IInv, OneAtATime, Recording, OneLoginAtATime, Critical
<1> QED BY <1>1, Invariance, PTL

-----------------------------------------------------------------------------
(* The daemon implements FetchService.                                       *)

LEMMA ServiceInit == Init => Service!Init
BY DEF Init, CacheInit, Service!Init, served, phase

LEMMA StoreStep ==
    ASSUME IInv, IInv', NEW p \in Procs, UNCHANGED <<tries, service>>,
           CacheStep(p) \/ RecordFails(p) \/ ShareRoot(p) \/ ShareFiles(p)
    PROVE  [Service!Next]_(Service!vars)
<1> USE Constants DEF IInv, TypeOK, CacheTypeOK, CacheAgrees, Connected, Recording,
        Installing, Valid, Goto, store, modes, call, service, Requests, Sidecars, phase
<1>1. UNCHANGED <<phase, release, want>>
  BY DEF CacheStep, GetSidecar, GetHash, PutHash, PutLook, PutInstall, PutRecord,
     PutPublish, CallFails, RecordFails, Fails, ShareRoot, ShareFiles
<1>2. CASE PutRecord(p)
  <2> DEFINE k == release[p]
             a == hash[p]
  <2>1. k \in Releases /\ a \in Archives /\ archive[k] = a /\ Valid(a, k) /\ sidecar[k] = None
    BY <1>2 DEF PutRecord
  <2>2. archive' = archive /\ sidecar' = [sidecar EXCEPT ![k] = Of(a)] /\ Of(a) # None
    BY <1>2, <2>1 DEF PutRecord
  <2>3. served[k] = None /\ served' = [served EXCEPT ![k] = a]
    <3> HIDE DEF k, a
    <3>1. \A j \in Releases \ {k} : sidecar'[j] = sidecar[j]
      BY <2>1, <2>2
    <3>2. sidecar'[k] # None
      BY <2>1, <2>2
    <3> QED BY ONLY <2>1, <2>2, <3>1, <3>2 DEF served
  <2>4. Service!Fetch(k, a)
    BY <1>1, <2>1, <2>3 DEF Service!Fetch
  <2> QED BY <2>1, <2>4 DEF Service!Next
<1>3. CASE PutInstall(p)
  <2>1. UNCHANGED served
    BY <1>3 DEF PutInstall, served
  <2> QED BY <1>1, <2>1 DEF Service!vars
<1>4. CASE ~PutRecord(p) /\ ~PutInstall(p)
  <2>1. UNCHANGED served
    BY <1>4 DEF CacheStep, GetSidecar, GetHash, PutHash, PutLook, PutPublish, CallFails,
       RecordFails, Fails, ShareRoot, ShareFiles, served
  <2> QED BY <1>1, <2>1 DEF Service!vars
<1> QED BY <1>2, <1>3, <1>4

LEMMA ConnectionStep ==
    ASSUME IInv, NEW p \in Procs,
           \/ \E d \in Derivations : Connect(p, d[1], d[2])
           \/ ReadRequest(p) \/ Reject(p) \/ TakeLock(p) \/ LogIn(p) \/ Accept(p)
           \/ Fail(p) \/ Ready(p) \/ Leave(p)
    PROVE  [Service!Next]_(Service!vars)
<1> USE Constants DEF IInv, TypeOK, CacheTypeOK, CacheAgrees, Connected, Recording, Accepted,
        Valid, Goto, store, modes, call, service, Requests, Sidecars, phase
<1>1. UNCHANGED served
  BY DEF served, Connect, ReadRequest, Reject, TakeLock, LogIn, Accept, Fail, Ready, Leave
<1>2. CASE \E d \in Derivations : Connect(p, d[1], d[2])
  <2>1. PICK d \in Derivations : Connect(p, d[1], d[2])
    BY <1>2
  <2>2. d[1] \in Releases /\ d[2] \in Archives
    OBVIOUS
  <2>3. Service!Ask(p, d[1], d[2])
    BY <1>1, <2>1, <2>2 DEF Connect, Service!Ask
  <2> QED BY <2>2, <2>3 DEF Service!Next
<1>3. CASE ReadRequest(p) \/ TakeLock(p) \/ LogIn(p) \/ Accept(p)
  <2>1. UNCHANGED <<phase, release, want>>
    BY <1>3 DEF ReadRequest, TakeLock, LogIn, Accept
  <2> QED BY <1>1, <2>1 DEF Service!vars
<1>4. CASE Reject(p) \/ Fail(p)
  <2>1. at[p] \notin {"idle", "ready", "error"} /\ at' = [at EXCEPT ![p] = "error"]
    BY <1>4 DEF Reject, Fail
  <2>2. UNCHANGED <<release, want>>
    BY <1>4 DEF Reject, Fail
  <2>3. Service!Answer(p, "error")
    BY <1>1, <2>1, <2>2 DEF Service!Answer
  <2> QED BY <2>3 DEF Service!Next
<1>5. CASE Ready(p)
  <2>1. served[release[p]] = want[p]
    <3> DEFINE k == release[p]
    <3>1. k \in Releases /\ sidecar[k] # None /\ record[p] = sidecar[k] /\ record[p].sri = want[p]
      BY <1>5 DEF Ready
    <3>2. sidecar[k] = Of(archive[k])
      BY <3>1
    <3>3. served[k] = want[p]
      BY ONLY <3>1, <3>2 DEF served, Of
    <3> QED BY <3>3
  <2>2. phase[p] = "waiting" /\ phase' = [phase EXCEPT ![p] = "ready"]
    <3>1. at[p] = "shared" /\ at' = [at EXCEPT ![p] = "ready"]
      BY <1>5 DEF Ready
    <3>2. DOMAIN at = Procs
      OBVIOUS
    <3> QED BY ONLY <3>1, <3>2, p \in Procs DEF phase
  <2>3. UNCHANGED <<release, want>>
    BY <1>5 DEF Ready
  <2>4. Service!Answer(p, "ready")
    BY ONLY <1>1, <2>1, <2>2, <2>3 DEF Service!Answer
  <2> QED BY ONLY <2>4, p \in Procs DEF Service!Next
<1>6. CASE Leave(p)
  <2>1. /\ at' = [at EXCEPT ![p] = "idle"] /\ DOMAIN at = Procs
        /\ release' = [release EXCEPT ![p] = None] /\ DOMAIN release = Procs
        /\ want' = [want EXCEPT ![p] = None] /\ DOMAIN want = Procs
    BY <1>6 DEF Leave
  <2>2. /\ phase' = [q \in Procs |-> IF q \in {p} THEN "away" ELSE phase[q]]
        /\ release' = [q \in Procs |-> IF q \in {p} THEN None ELSE release[q]]
        /\ want' = [q \in Procs |-> IF q \in {p} THEN None ELSE want[q]]
    BY ONLY <2>1, p \in Procs DEF phase
  <2>3. Service!Gone({p})
    BY ONLY <1>1, <2>2 DEF Service!Gone
  <2> QED BY ONLY <2>3, p \in Procs DEF Service!Next
<1> QED BY <1>2, <1>3, <1>4, <1>5, <1>6

LEMMA ServiceStep == IInv /\ IInv' /\ [Next]_vars => [Service!Next]_(Service!vars)
<1> SUFFICES ASSUME IInv, IInv', [Next]_vars PROVE [Service!Next]_(Service!vars)
  OBVIOUS
<1>1. CASE UNCHANGED vars \/ StartDaemon \/ Listen
  BY <1>1 DEF vars, service, store, modes, call, StartDaemon, OpenCache, Listen,
     Service!vars, served, phase
<1>2. CASE Crash
  <2>1. Service!Gone(Procs)
    BY <1>2 DEF Crash, store, Service!Gone, served, phase
  <2> QED BY <2>1 DEF Service!Next
<1>3. ASSUME NEW p \in Procs,
             \/ ReadRequest(p) \/ Reject(p) \/ TakeLock(p) \/ Handle(p)
             \/ \E d \in Derivations : Connect(p, d[1], d[2])
      PROVE  [Service!Next]_(Service!vars)
  <2>1. CASE FlowStep(p) /\ UNCHANGED service
    BY <2>1 DEF FlowStep, Answered, TryAgain, Refused, Downloaded, Goto, Following, Requests,
       IInv, TypeOK, service, store, call, modes, Service!vars, served, phase
  <2> QED BY <1>3, <2>1, ConnectionStep, StoreStep DEF Handle
<1> QED BY <1>1, <1>2, <1>3 DEF Next

\* Every behaviour of the daemon is one of the abstract service: archives are
\* fetched once, never replaced, and "ready" is said of the wanted one only.
THEOREM Implementation == Spec => ImplementsService
BY Invariance, ServiceInit, ServiceStep, PTL DEF Spec, ImplementsService, Service!Spec

-----------------------------------------------------------------------------
(* Handlers move on, and the mutex is never left behind.                     *)

\* A request is being retried only while it is being sent.
Idling == \A p \in Procs : at[p] \notin Requests => tries[p] = 0

\* The mutex is held by a handler that has something to do with it.
NeverOrphaned == lock # None => lock \in Procs /\ at[lock] \in Critical

Progressing == Idling /\ NeverOrphaned

LEMMA ConnectionMovesOn ==
    ASSUME IInv, Progressing, NEW p \in Procs,
           \/ \E d \in Derivations : Connect(p, d[1], d[2])
           \/ ReadRequest(p) \/ Reject(p) \/ TakeLock(p) \/ LogIn(p) \/ Accept(p)
           \/ Fail(p) \/ Ready(p) \/ Leave(p)
    PROVE  Progressing' /\ MovesOnStep
<1> USE Constants DEF IInv, TypeOK, CacheTypeOK, FlowTypeOK, OneAtATime, Progressing, Idling,
        NeverOrphaned, Goto, Critical, Requests, service
<1>1. tries' = tries /\ \A q \in Procs \ {p} : at'[q] = at[q]
  BY DEF Connect, ReadRequest, Reject, TakeLock, LogIn, Accept, Fail, Ready, Leave
<1>2. \/ at[p] = "idle" /\ at'[p] = "reading" /\ lock' = lock
      \/ at[p] = "reading" /\ at'[p] \in {"waiting", "error"} /\ lock' = lock
      \/ at[p] = "waiting" /\ at'[p] = "get" /\ lock' = p
      \/ at[p] = "absent" /\ at'[p] = "login" /\ lock' = lock
      \/ at[p] \in {"found", "stored"} /\ at'[p] = "shareRoot" /\ lock' = lock
      \/ at[p] \in {"found", "stored", "failed", "shared"} /\ at'[p] \in {"ready", "error"}
            /\ lock' = None
      \/ at[p] \in {"ready", "error"} /\ at'[p] = "idle" /\ lock' = lock
  BY DEF Connect, ReadRequest, Reject, TakeLock, LogIn, Accept, Fail, Ready, Leave
<1>3. Progressing'
  BY <1>1, <1>2
<1>4. tries[p] \in Nat /\ Attempts \in Nat
  OBVIOUS
<1>5. at[p] # "idle" /\ at'[p] # "idle" => WorkLeft(p)' < WorkLeft(p)
  <2>1. at[p] \notin Requests => tries[p] = 0
    OBVIOUS
  <2> QED BY ONLY <1>1, <1>2, <1>4, <2>1, p \in Procs DEF WorkLeft, Requests
<1> QED BY <1>1, <1>3, <1>5 DEF MovesOnStep

LEMMA FlowMovesOn ==
    ASSUME IInv, Progressing, NEW p \in Procs, FlowStep(p), UNCHANGED service
    PROVE  Progressing' /\ MovesOnStep
<1> USE Constants DEF IInv, TypeOK, CacheTypeOK, FlowTypeOK, OneAtATime, Progressing, Idling,
        NeverOrphaned, Goto, Critical, Requests, service, call
<1>1. \A q \in Procs \ {p} : at'[q] = at[q] /\ tries'[q] = tries[q]
  BY DEF FlowStep, Answered, TryAgain, Refused, Downloaded
<1>2. /\ tries[p] \in Nat /\ tries[p] < Attempts /\ Attempts \in Nat
      /\ lock' = lock
  OBVIOUS
<1>3. \/ at[p] = "login" /\ at'[p] = "submit" /\ tries'[p] = 0
      \/ at[p] = "submit" /\ at'[p] = "release" /\ tries'[p] = 0
      \/ at[p] = "release" /\ at'[p] = "download" /\ tries'[p] = 0
      \/ at[p] = "download" /\ at'[p] = "put" /\ tries'[p] = 0
      \/ at[p] \in Requests /\ at'[p] = "failed" /\ tries'[p] = 0
      \/ at[p] \in Requests /\ at'[p] = at[p] /\ tries'[p] = tries[p] + 1
  BY DEF FlowStep, Answered, Following, TryAgain, Refused, Downloaded
<1>4. Progressing'
  BY <1>1, <1>2, <1>3
<1>5. WorkLeft(p)' < WorkLeft(p)
  BY ONLY <1>2, <1>3 DEF WorkLeft, Requests
<1> QED BY <1>1, <1>4, <1>5 DEF MovesOnStep

LEMMA CacheMovesOn ==
    ASSUME IInv, Progressing, NEW p \in Procs, UNCHANGED <<tries, service>>,
           CacheStep(p) \/ RecordFails(p) \/ ShareRoot(p) \/ ShareFiles(p)
    PROVE  Progressing' /\ MovesOnStep
<1> USE Constants DEF IInv, TypeOK, CacheTypeOK, FlowTypeOK, OneAtATime, Progressing, Idling,
        NeverOrphaned, Goto, Critical, Requests, service
<1>1. tries' = tries /\ lock' = lock /\ \A q \in Procs \ {p} : at'[q] = at[q]
  BY DEF CacheStep, GetSidecar, GetHash, PutHash, PutLook, PutInstall, PutRecord,
     PutPublish, CallFails, RecordFails, Fails, ShareRoot, ShareFiles
<1>2. \/ at[p] = "get" /\ at'[p] \in {"hash", "absent", "failed"}
      \/ at[p] = "hash" /\ at'[p] \in {"found", "failed"}
      \/ at[p] = "put" /\ at'[p] \in {"look", "failed"}
      \/ at[p] = "look" /\ at'[p] \in {"install", "failed"}
      \/ at[p] = "install" /\ at'[p] \in {"record", "failed"}
      \/ at[p] = "record" /\ at'[p] \in {"publish", "failed"}
      \/ at[p] = "publish" /\ at'[p] \in {"stored", "failed"}
      \/ at[p] = "shareRoot" /\ at'[p] \in {"shareFiles", "failed"}
      \/ at[p] = "shareFiles" /\ at'[p] \in {"shared", "failed"}
  <2>1. CASE GetSidecar(p) \/ GetHash(p)
    BY <2>1 DEF GetSidecar, GetHash, Fails
  <2>2. CASE PutHash(p) \/ PutLook(p) \/ PutInstall(p) \/ PutRecord(p) \/ PutPublish(p)
    BY <2>2 DEF PutHash, PutLook, PutInstall, PutRecord, PutPublish, Fails
  <2>3. CASE CallFails(p) \/ RecordFails(p)
    BY <2>3 DEF CallFails, RecordFails, Fails
  <2>4. CASE ShareRoot(p) \/ ShareFiles(p)
    BY <2>4 DEF ShareRoot, ShareFiles
  <2> QED BY <2>1, <2>2, <2>3, <2>4 DEF CacheStep
<1>3. Progressing'
  BY <1>1, <1>2
<1>4. WorkLeft(p)' < WorkLeft(p)
  <2>1. Attempts \in Nat
    OBVIOUS
  <2> QED BY ONLY <1>2, <2>1 DEF WorkLeft
<1> QED BY <1>1, <1>3, <1>4 DEF MovesOnStep

LEMMA ProgressStep == IInv /\ Progressing /\ [Next]_vars => Progressing' /\ MovesOnStep
<1> SUFFICES ASSUME IInv, Progressing, [Next]_vars PROVE Progressing' /\ MovesOnStep
  OBVIOUS
<1>1. CASE UNCHANGED vars \/ StartDaemon \/ Listen
  BY <1>1 DEF vars, service, call, StartDaemon, Listen, Progressing, Idling, NeverOrphaned,
     MovesOnStep
<1>2. CASE Crash
  BY <1>2 DEF Crash, Progressing, Idling, NeverOrphaned, MovesOnStep
<1>3. ASSUME NEW p \in Procs,
             \/ ReadRequest(p) \/ Reject(p) \/ TakeLock(p) \/ Handle(p)
             \/ \E d \in Derivations : Connect(p, d[1], d[2])
      PROVE  Progressing' /\ MovesOnStep
  BY <1>3, ConnectionMovesOn, FlowMovesOn, CacheMovesOn DEF Handle
<1> QED BY <1>1, <1>2, <1>3 DEF Next

LEMMA Progress == Spec => []Progressing
<1>1. Init => Progressing
  BY DEF Init, CacheInit, Progressing, Idling, NeverOrphaned
<1> QED BY <1>1, ProgressStep, Invariance, PTL DEF Spec

\* No handler goes round in a circle, with the mutex or without: what is left of
\* its work shrinks with its every step, whatever the site answers.
THEOREM HandlersAlwaysMoveOn == Spec => HandlersMoveOn
<1>1. IInv /\ Progressing /\ [Next]_vars => [MovesOnStep]_vars
  BY ProgressStep
<1> QED BY <1>1, Invariance, Progress, PTL DEF Spec, HandlersMoveOn

\* The work left under the mutex.
LEMMA WorkLeftBounds ==
    ASSUME IInv, NEW p \in Procs, at[p] \in Critical
    PROVE  WorkLeft(p) \in 1 .. 4 * Attempts + 11
<1>1. tries[p] \in Nat /\ tries[p] < Attempts /\ Attempts \in Nat
  BY Constants DEF IInv, TypeOK, FlowTypeOK
<1>2. CASE at[p] \in Requests
  <2>1. \/ WorkLeft(p) = 4 * Attempts + 9 - tries[p]
        \/ WorkLeft(p) = 3 * Attempts + 9 - tries[p]
        \/ WorkLeft(p) = 2 * Attempts + 9 - tries[p]
        \/ WorkLeft(p) = Attempts + 9 - tries[p]
    BY <1>2 DEF WorkLeft, Requests
  <2> QED BY <1>1, <2>1
<1>3. CASE at[p] \in {"get", "absent"}
  <2>1. WorkLeft(p) = 4 * Attempts + 11 \/ WorkLeft(p) = 4 * Attempts + 10
    BY <1>3 DEF WorkLeft
  <2> QED BY <1>1, <2>1
<1>4. CASE at[p] \notin Requests \cup {"get", "absent"}
  <2>1. WorkLeft(p) \in 1 .. 9
    BY <1>4 DEF WorkLeft, Critical, Requests
  <2> QED BY <1>1, <2>1
<1> QED BY <1>2, <1>3, <1>4

\* The mutex is never left behind: whoever holds it is the one handler at work,
\* and has at most 4 * Attempts + 11 steps of its own left until its answer.
THEOREM MutexIsFreed ==
    Spec => [](lock # None => /\ lock \in Procs /\ at[lock] \in Critical
                              /\ WorkLeft(lock) \in 1 .. 4 * Attempts + 11
                              /\ \A p \in Procs \ {lock} : at[p] \notin Critical)
<1> DEFINE Held == lock # None => /\ lock \in Procs /\ at[lock] \in Critical
                                  /\ WorkLeft(lock) \in 1 .. 4 * Attempts + 11
                                  /\ \A p \in Procs \ {lock} : at[p] \notin Critical
<1>1. IInv /\ Progressing => Held
  <2> SUFFICES ASSUME IInv, Progressing, lock # None
               PROVE  /\ lock \in Procs /\ at[lock] \in Critical
                      /\ WorkLeft(lock) \in 1 .. 4 * Attempts + 11
                      /\ \A p \in Procs \ {lock} : at[p] \notin Critical
    OBVIOUS
  <2>1. lock \in Procs /\ at[lock] \in Critical
    BY DEF Progressing, NeverOrphaned
  <2>2. WorkLeft(lock) \in 1 .. 4 * Attempts + 11
    BY <2>1, WorkLeftBounds
  <2> QED BY <2>1, <2>2 DEF IInv, OneAtATime
<1> QED BY <1>1, Invariance, Progress, PTL
=============================================================================
