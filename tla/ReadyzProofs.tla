---------------------------- MODULE ReadyzProofs ----------------------------
(* Theorems about DatabaseSupervisor and Readyz, for every number of handlers, *)
(* pools, probes and connections.                                            *)
EXTENDS Readyz, FiniteSetTheorems, TLAPS

Between == {"loop", "connect", "asleep"}

\* The pool in the supervisor's hands, the published one and the open ones are
\* the same pool or none, according to where the supervisor is.
OnePool ==
    /\ pc \in Between => mine = None /\ open = {published} \ {None}
    /\ pc \notin Between => mine \in Pools
    /\ pc \in {"probe", "clearError"} => published = mine
    /\ pc \notin {"probe", "clearError", "loop", "asleep"} => published = None
    /\ pc \notin Between \cup {"closing"} => open = {mine}
    /\ pc = "closing" => open = {}

\* What is published, or about to be, has been migrated.
Migrated ==
    /\ published # None => published \in migrated
    /\ pc = "publish" => mine \in migrated

\* A connection belongs to a pool that is open, or for whose close the supervisor waits.
InHands ==
    \A r \in Requests : handler[r].at = "connected" =>
        handler[r].pool \in open \/ (pc = "closing" /\ handler[r].pool = mine)

\* No pool gives out more connections than it has.
WithinLimits ==
    \A p \in Pools : IsFiniteSet(InUse(p)) /\ Cardinality(InUse(p)) <= MaxConnections

\* The error agrees with what is published, but for the step in between.
ErrorAgrees ==
    /\ published # None /\ lastError => pc = "clearError"
    /\ failed /\ ~lastError => published # None \/ pc = "recordLoss"

IInv ==
    /\ ReadyzTypeOK
    /\ OnePool /\ Migrated /\ InHands /\ WithinLimits /\ ErrorAgrees

LEMMA InitIInv == ReadyzInit => IInv
<1> SUFFICES ASSUME ReadyzInit PROVE IInv
  OBVIOUS
<1> USE NoneIsNoPool DEF ReadyzInit, Init
<1>1. ReadyzTypeOK
  BY DEF ReadyzTypeOK, TypeOK, NoRequest, NoProbe
<1>2. OnePool /\ Migrated /\ InHands /\ ErrorAgrees
  BY DEF OnePool, Migrated, InHands, ErrorAgrees, Between, NoRequest
<1>3. \A p \in Pools : InUse(p) = {}
  BY DEF InUse, NoRequest
<1>4. WithinLimits
  BY <1>3, FS_EmptySet, SomeConnections DEF WithinLimits
<1> QED
  BY <1>1, <1>2, <1>4 DEF IInv

\* The supervisor: the handlers stay, and with them the connections in use.
LEMMA SuperviseIInv ==
    ASSUME IInv, Supervise, failed' = (failed \/ lastError'), UNCHANGED probe
    PROVE  IInv'
<1> USE NoneIsNoPool DEF IInv, ReadyzTypeOK, TypeOK, OnePool, Migrated, InHands, ErrorAgrees,
        Between, others
<1>1. UNCHANGED others
  BY DEF Supervise, LoopStart, ProbeOk, ProbeFails, RecordLoss, CloseBegins, CloseEnds,
     ConnectOk, ConnectFails, MigrateOk, MigrateFails, Publish, ClearError, Wake
<1>2. WithinLimits'
  BY <1>1 DEF WithinLimits, InUse
<1>3. CASE LoopStart
  BY <1>2, <1>3 DEF LoopStart
<1>4. CASE ProbeOk
  BY <1>2, <1>4 DEF ProbeOk
<1>5. CASE ProbeFails
  BY <1>2, <1>5 DEF ProbeFails
<1>6. CASE RecordLoss
  BY <1>2, <1>6 DEF RecordLoss
<1>7. CASE CloseBegins
  BY <1>2, <1>7 DEF CloseBegins
<1>8. CASE CloseEnds
  BY <1>2, <1>8 DEF CloseEnds, InUse
<1>9. ASSUME NEW p \in Pools, ConnectOk(p) PROVE IInv'
  BY <1>2, <1>9 DEF ConnectOk
<1>10. CASE ConnectFails
  BY <1>2, <1>10 DEF ConnectFails
<1>11. CASE MigrateOk
  BY <1>2, <1>11 DEF MigrateOk
<1>12. CASE MigrateFails
  BY <1>2, <1>12 DEF MigrateFails
<1>13. CASE Publish
  BY <1>2, <1>13 DEF Publish
<1>14. CASE ClearError
  BY <1>2, <1>14 DEF ClearError
<1>15. CASE Wake
  BY <1>2, <1>15 DEF Wake
<1> QED
  BY <1>3, <1>4, <1>5, <1>6, <1>7, <1>8, <1>9, <1>10, <1>11, <1>12, <1>13, <1>14, <1>15
  DEF Supervise

\* A handler takes a connection only of an open pool that has one left, and
\* what it drops can only make room.
LEMMA HandlerIInv ==
    ASSUME IInv, NEW r \in Requests, ClonePool(r) \/ Acquire(r) \/ Drop(r),
           failed' = (failed \/ lastError'), UNCHANGED probe
    PROVE  IInv'
<1> USE DEF IInv, ReadyzTypeOK
<1>1. UNCHANGED <<db, url, supervisor>>
  BY DEF ClonePool, Acquire, Drop, handlerOnly
<1>2. ReadyzTypeOK'
  BY <1>1 DEF TypeOK, ClonePool, Acquire, Drop, NoRequest, supervisor
<1>3. OnePool' /\ Migrated' /\ ErrorAgrees'
  BY <1>1 DEF OnePool, Migrated, ErrorAgrees, supervisor
<1>4. InHands'
  BY <1>1 DEF InHands, TypeOK, ClonePool, Acquire, Drop, CanAcquire, NoRequest, supervisor
<1>5. ASSUME NEW p \in Pools
      PROVE  IsFiniteSet(InUse(p))' /\ (Cardinality(InUse(p)) <= MaxConnections)'
  <2>1. IsFiniteSet(InUse(p)) /\ Cardinality(InUse(p)) <= MaxConnections
    BY DEF WithinLimits
  <2>2. Cardinality(InUse(p)) \in Nat
    BY <2>1, FS_CardinalityType
  <2>3. CASE Acquire(r) /\ handler[r].pool = p
    <3>1. InUse(p)' = InUse(p) \cup {r}
      BY <2>3 DEF Acquire, InUse, TypeOK
    <3>2. Cardinality(InUse(p)) < MaxConnections
      BY <2>3 DEF Acquire, CanAcquire
    <3>3. IsFiniteSet(InUse(p) \cup {r})
      BY <2>1, FS_AddElement
    <3>4. \/ Cardinality(InUse(p) \cup {r}) = Cardinality(InUse(p))
          \/ Cardinality(InUse(p) \cup {r}) = Cardinality(InUse(p)) + 1
      BY <2>1, FS_AddElement
    <3>5. Cardinality(InUse(p) \cup {r}) <= MaxConnections
      BY <2>2, <3>2, <3>3, <3>4, FS_CardinalityType, SomeConnections
    <3> QED
      BY <3>1, <3>3, <3>5
  <2>4. CASE ~(Acquire(r) /\ handler[r].pool = p)
    <3>1. InUse(p)' \subseteq InUse(p)
      BY <2>4 DEF ClonePool, Acquire, Drop, InUse, TypeOK, NoRequest
    <3>2. IsFiniteSet(InUse(p)') /\ Cardinality(InUse(p)') <= Cardinality(InUse(p))
      BY <2>1, <3>1, FS_Subset
    <3> QED
      BY <2>1, <2>2, <3>2, FS_CardinalityType, SomeConnections
  <2> QED
    BY <2>3, <2>4
<1>6. WithinLimits'
  BY <1>5 DEF WithinLimits
<1> QED
  BY <1>2, <1>3, <1>4, <1>6

LEMMA NextIInv == IInv /\ [ReadyzNext]_readyzVars => IInv'
<1> SUFFICES ASSUME IInv, [ReadyzNext]_readyzVars PROVE IInv'
  OBVIOUS
<1>1. CASE UNCHANGED readyzVars \/ \E r \in Probes : Read(r) \/ Reply(r)
  <2>1. UNCHANGED <<vars, failed>>
    BY <1>1 DEF readyzVars, Read, ReadPool, ReadError, Reply
  <2>2. ReadyzTypeOK'
    <3>1. TypeOK' /\ failed' \in BOOLEAN
      BY <2>1 DEF IInv, ReadyzTypeOK, TypeOK, vars, supervisor
    <3>2. CASE UNCHANGED probe
      BY <3>1, <3>2 DEF IInv, ReadyzTypeOK
    <3>3. ASSUME NEW r \in Probes, Read(r) \/ Reply(r) PROVE ReadyzTypeOK'
      <4>1. lastError \in BOOLEAN /\ (published # None) \in BOOLEAN
        BY DEF IInv, ReadyzTypeOK, TypeOK
      <4>2. PICK x \in [at : {"idle", "error", "reply"}, ready : BOOLEAN, error : BOOLEAN] :
              probe' = [probe EXCEPT ![r] = x]
        <5>1. probe[r] \in [at : {"idle", "error", "reply"}, ready : BOOLEAN, error : BOOLEAN]
          BY DEF IInv, ReadyzTypeOK
        <5>2. CASE ReadPool(r)
          BY <4>1, <5>1, <5>2 DEF ReadPool
        <5>3. CASE ReadError(r)
          BY <4>1, <5>1, <5>3 DEF ReadError
        <5>4. CASE Reply(r)
          BY <5>4 DEF Reply, NoProbe
        <5> QED
          BY <3>3, <5>2, <5>3, <5>4 DEF Read
      <4> QED
        BY <3>1, <4>2 DEF IInv, ReadyzTypeOK
    <3> QED
      BY <1>1, <3>2, <3>3 DEF readyzVars
  <2>3. OnePool' /\ Migrated' /\ InHands' /\ WithinLimits' /\ ErrorAgrees'
    BY <2>1 DEF IInv, vars, supervisor, OnePool, Migrated, InHands, WithinLimits, InUse,
       ErrorAgrees
  <2> QED
    BY <2>2, <2>3 DEF IInv
<1>2. CASE (DatabaseChanges \/ UrlChanges) /\ failed' = (failed \/ lastError') /\ UNCHANGED probe
  <2>1. UNCHANGED <<supervisor, handler, probe>>
    BY <1>2 DEF DatabaseChanges, UrlChanges
  <2>2. db' \in {"down", "up", "unmigratable"} /\ url' \in BOOLEAN
    BY <1>2 DEF DatabaseChanges, UrlChanges, IInv, ReadyzTypeOK, TypeOK
  <2>3. failed' \in BOOLEAN
    BY <1>2
  <2>4. TypeOK'
    BY <2>1, <2>2 DEF supervisor, IInv, ReadyzTypeOK, TypeOK
  <2>5. OnePool' /\ Migrated' /\ InHands' /\ WithinLimits'
    BY <2>1 DEF supervisor, IInv, OnePool, Migrated, InHands, WithinLimits, InUse
  <2>6. ErrorAgrees'
    BY <1>2, <2>1 DEF supervisor, IInv, ErrorAgrees
  <2> QED
    BY <2>1, <2>3, <2>4, <2>5, <2>6 DEF IInv, ReadyzTypeOK
<1> QED
  BY <1>1, <1>2, SuperviseIInv, HandlerIInv DEF ReadyzNext, Next

\* The invariant holds of every state of the supervisor and its readers.
THEOREM Invariance == ReadyzSpec => []IInv
BY InitIInv, NextIInv, PTL DEF ReadyzSpec

-----------------------------------------------------------------------------
\* Type correctness of the supervisor, the handlers and readyz.
THEOREM TypeCorrect == ReadyzSpec => []ReadyzTypeOK
<1>1. IInv => ReadyzTypeOK
  BY DEF IInv
<1> QED BY <1>1, Invariance, PTL

\* What a handler can clone is open and migrated.
THEOREM PublishedIsUsable == ReadyzSpec => []PublishedPoolIsUsable
<1>1. IInv => PublishedPoolIsUsable
  BY DEF IInv, OnePool, Migrated, Between, PublishedPoolIsUsable
<1> QED BY <1>1, Invariance, PTL

\* There is one pool at a time, and never more connections than one pool has.
THEOREM SinglePool == ReadyzSpec => []OnePoolAtATime
<1> DEFINE connected == {r \in Requests : handler[r].at = "connected"}
<1>1. ASSUME IInv PROVE OnePoolAtATime
  <2>1. PICK p : open \subseteq {p} /\ \A r \in connected : handler[r].pool = p
    <3>1. CASE pc \in Between
      BY <1>1, <3>1 DEF IInv, OnePool, InHands, Between
    <3>2. CASE pc \notin Between
      BY <1>1, <3>2 DEF IInv, OnePool, InHands, Between
    <3> QED
      BY <3>1, <3>2
  <2>2. Cardinality(open) <= 1
    <3>1. IsFiniteSet({p}) /\ Cardinality({p}) = 1
      BY FS_Singleton
    <3> QED
      BY <2>1, <3>1, FS_Subset
  <2>3. Cardinality(connected) <= MaxConnections
    <3>1. CASE connected = {}
      BY <3>1, FS_EmptySet, SomeConnections
    <3>2. CASE connected # {}
      <4>1. p \in Pools
        BY <1>1, <2>1, <3>2, NoneIsNoPool DEF IInv, ReadyzTypeOK, TypeOK, InHands, OnePool, Between
      <4>2. connected = InUse(p)
        BY <2>1 DEF InUse
      <4> QED
        BY <1>1, <4>1, <4>2 DEF IInv, WithinLimits
    <3> QED
      BY <3>1, <3>2
  <2> QED
    BY <2>2, <2>3 DEF OnePoolAtATime
<1> QED BY <1>1, Invariance, PTL

\* What readyz answers agrees with the supervisor, although its two reads may
\* have any steps between them.
THEOREM ReadyzAgrees == ReadyzSpec => AnswersAgree
<1>1. ASSUME IInv, [ReadyzNext]_readyzVars, NEW r \in Probes,
             probe[r].at # "reply", probe[r].at' = "reply"
      PROVE  probe[r].error' = lastError
  <2>1. CASE UNCHANGED probe
    BY <1>1, <2>1
  <2>2. ASSUME NEW q \in Probes, ReadPool(q) \/ Reply(q) PROVE FALSE
    BY <1>1, <2>2 DEF IInv, ReadyzTypeOK, ReadPool, Reply, NoProbe
  <2>3. ASSUME NEW q \in Probes, ReadError(q) PROVE probe[r].error' = lastError
    BY <1>1, <2>3 DEF IInv, ReadyzTypeOK, ReadError
  <2> QED
    BY <1>1, <2>1, <2>2, <2>3 DEF ReadyzNext, readyzVars, Read
<1>2. IInv /\ [ReadyzNext]_readyzVars =>
        [\A r \in Probes :
            /\ Decided(r, FALSE, FALSE) => ~failed \/ pc = "recordLoss" \/ published # None
            /\ Decided(r, TRUE, TRUE) => pc = "clearError" \/ published = None]_readyzVars
  BY <1>1 DEF Decided, IInv, ErrorAgrees, ReadyzTypeOK, TypeOK
<1> QED
  BY <1>2, Invariance, PTL DEF ReadyzSpec, AnswersAgree
=============================================================================
