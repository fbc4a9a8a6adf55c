------------------------- MODULE WorldDriverProofs -------------------------
(* Safety theorems about WorldDriver, for every length of the deadlines, of   *)
(* the delays and every number of faults.  Liveness is left to TLC.          *)
EXTENDS WorldDriver, TLAPS

\* The snapshot says "starting" until the world has passed the contract, and
\* "ready" from then on until the browser is closed, for which there is a reason.
SnapshotFollows ==
    /\ pc \in {"launch", "join", "login", "await"} => snapshot = "starting"
    /\ pc = "monitor" => snapshot = "ready"
    /\ pc = "closing" => snapshot \in {"starting", "ready"} /\ result # "none"
    /\ pc = "asleep" => snapshot \in {"stopped", "error"}

IInv == TypeOK /\ SnapshotFollows

LEMMA Delays ==
    /\ MaxPolls \in Nat /\ MaxFaults \in Nat
    /\ FirstDelay \in Nat /\ StoppedDelay \in Nat /\ MaxDelay \in Nat
    /\ 0 < FirstDelay /\ FirstDelay < StoppedDelay /\ StoppedDelay < MaxDelay
BY BoundsAreNaturals, DelaysAreOrdered

\* The delay grows towards its cap.
LEMMA NextDelayGrows ==
    ASSUME backoff \in FirstDelay..MaxDelay
    PROVE  NextDelay \in FirstDelay..MaxDelay /\ NextDelay >= backoff
BY Delays DEF NextDelay

LEMMA InitIInv == Init => IInv
<1> SUFFICES ASSUME Init PROVE IInv
  OBVIOUS
<1>1. polls \in 0..MaxPolls /\ backoff \in FirstDelay..MaxDelay /\ faults \in 0..MaxFaults
  BY Delays DEF Init
<1>2. loggedIn \in BOOLEAN /\ noCanvas \in BOOLEAN /\ reloaded \in BOOLEAN
  BY DEF Init
<1> QED
  BY <1>1, <1>2 DEF Init, IInv, TypeOK, SnapshotFollows

LEMMA ViewType == TypeOK => View \in {"noWorld", "blank", "form", "match", "other"}
BY DEF TypeOK, View, Worlds

\* Whatever ends a session leaves a reason and the snapshot as it was.
LEMMA EndIInv ==
    ASSUME IInv, NEW r \in {"stopped", "failed"}, End(r), faults' \in 0..MaxFaults,
           pc \in {"join", "login", "await", "monitor"}
    PROVE  IInv'
BY DEF IInv, TypeOK, SnapshotFollows, End, browser

LEMMA FaultType ==
    ASSUME TypeOK, Fault \/ NoFault
    PROVE  faults' \in 0..MaxFaults
BY Delays DEF TypeOK, Fault, NoFault

LEMMA PollFaults == Poll => Fault \/ NoFault
BY DEF Poll

LEMMA TaskIInv == ASSUME IInv, Task PROVE IInv'
<1> USE Delays DEF IInv, browser, session
<1>1. CASE OpenPage
  <2>1. polls' \in 0..MaxPolls
    BY <1>1 DEF OpenPage
  <2>2. loggedIn' \in BOOLEAN /\ noCanvas' \in BOOLEAN /\ reloaded' \in BOOLEAN
    BY <1>1 DEF OpenPage
  <2> QED BY <1>1, <2>1, <2>2 DEF OpenPage, NoFault, TypeOK, SnapshotFollows
<1>2. CASE JoinPoll
  <2>1. faults' \in 0..MaxFaults
    BY <1>2, PollFaults, FaultType DEF JoinPoll
  <2>2. CASE End("failed") \/ End("stopped")
    BY <1>2, <2>1, <2>2, EndIInv DEF JoinPoll
  <2>3. CASE ~(End("failed") \/ End("stopped"))
    BY <1>2, <2>1, <2>3 DEF JoinPoll, PollAgain, TypeOK, SnapshotFollows
  <2> QED BY <2>2, <2>3
<1>3. CASE LogIn
  <2>1. faults' \in 0..MaxFaults
    BY <1>3, FaultType DEF LogIn
  <2>2. polls' \in 0..MaxPolls
    BY <1>3 DEF LogIn
  <2>3. loggedIn' \in BOOLEAN
    BY <1>3 DEF LogIn, TypeOK
  <2> QED BY <1>3, <2>1, <2>2, <2>3 DEF LogIn, TypeOK, SnapshotFollows
<1>4. CASE LogInFails
  <2>1. faults' \in 0..MaxFaults
    BY <1>4, FaultType DEF LogInFails
  <2> QED BY <1>4, <2>1, EndIInv DEF LogInFails
<1>5. CASE AwaitPoll
  <2>1. faults' \in 0..MaxFaults
    BY <1>5, PollFaults, FaultType DEF AwaitPoll
  <2>2. CASE End("failed") \/ End("stopped")
    BY <1>5, <2>1, <2>2, EndIInv DEF AwaitPoll
  <2>3. CASE ReloadForNoCanvas
    <3>1. noCanvas' \in BOOLEAN /\ reloaded' \in BOOLEAN
      BY <2>3 DEF ReloadForNoCanvas
    <3> QED BY <1>5, <2>1, <2>3, <3>1 DEF AwaitPoll, ReloadForNoCanvas, TypeOK, SnapshotFollows
  <2>4. CASE PollAgain
    <3>1. polls > 0
      BY <1>5, <2>4 DEF AwaitPoll, PollAgain, End, ReloadForNoCanvas
    <3>2. polls' \in 0..MaxPolls
      BY <2>4, <3>1 DEF PollAgain, TypeOK
    <3> QED BY <1>5, <2>1, <2>4, <3>2 DEF AwaitPoll, PollAgain, TypeOK, SnapshotFollows
  <2>5. CASE snapshot' = "ready" /\ pc' = "monitor" /\ UNCHANGED <<world, browser, session, backoff>>
    BY <2>1, <2>5 DEF TypeOK, SnapshotFollows
  <2> QED BY <1>5, <2>2, <2>3, <2>4, <2>5 DEF AwaitPoll
<1>6. CASE MonitorPoll
  <2>1. faults' \in 0..MaxFaults
    BY <1>6, PollFaults, FaultType DEF MonitorPoll
  <2>2. CASE End("failed") \/ End("stopped")
    BY <1>6, <2>1, <2>2, EndIInv DEF MonitorPoll
  <2>3. CASE ~(End("failed") \/ End("stopped"))
    BY <1>6, <2>1, <2>3 DEF MonitorPoll, TypeOK, SnapshotFollows
  <2> QED BY <2>2, <2>3
<1>7. CASE Close
  <2>1. loggedIn' \in BOOLEAN
    BY <1>7 DEF Close
  <2>2. StoppedDelay \in FirstDelay..MaxDelay
    OBVIOUS
  <2> QED BY <1>7, <2>1, <2>2 DEF Close, Publish, NoFault, TypeOK, SnapshotFollows
<1>8. CASE Wake
  BY <1>8, NextDelayGrows DEF Wake, NoFault, TypeOK, SnapshotFollows
<1> QED
  BY <1>1, <1>2, <1>3, <1>4, <1>5, <1>6, <1>7, <1>8 DEF Task

LEMMA NextIInv == IInv /\ [Next]_vars => IInv'
<1> SUFFICES ASSUME IInv, [Next]_vars PROVE IInv'
  OBVIOUS
<1> USE DEF IInv, browser, session
<1>1. CASE UNCHANGED vars
  BY <1>1 DEF vars, TypeOK, SnapshotFollows
<1>2. CASE LaunchFails
  <2>1. faults' \in 0..MaxFaults
    BY <1>2, FaultType DEF LaunchFails
  <2> QED BY <1>2, <2>1 DEF LaunchFails, Publish, TypeOK, SnapshotFollows
<1>3. CASE PageFails
  BY <1>3, FaultType, EndIInv DEF PageFails
<1>4. CASE WorldChanges
  BY <1>4 DEF WorldChanges, TypeOK, SnapshotFollows
<1>5. CASE PageCatchesUp
  BY <1>5, ViewType DEF PageCatchesUp, TypeOK, SnapshotFollows
<1> QED
  BY <1>1, <1>2, <1>3, <1>4, <1>5, TaskIInv DEF Next

\* The invariant holds of every state of the driver.
THEOREM Invariance == Spec => []IInv
BY InitIInv, NextIInv, PTL DEF Spec

-----------------------------------------------------------------------------
\* Type correctness; in particular the delay never leaves its bounds.
THEOREM TypeCorrect == Spec => []TypeOK
<1>1. IInv => TypeOK
  BY DEF IInv
<1> QED BY <1>1, Invariance, PTL

\* No failure, reload or restart leaves an old Ready behind.
THEOREM ReadyIsCurrent == Spec => []ReadyBelongsToASession
<1>1. IInv => ReadyBelongsToASession
  BY DEF IInv, TypeOK, SnapshotFollows, ReadyBelongsToASession
<1> QED BY <1>1, Invariance, PTL

\* A world becomes ready only from starting, with the contract and the canvas settled.
THEOREM ReadyHasBeenEarned == Spec => ReadyIsEarned
<1>1. ASSUME IInv, Next, snapshot # "ready", snapshot' = "ready"
      PROVE  snapshot = "starting" /\ page = "match" /\ (noCanvas \/ reloaded)
  <2>1. AwaitPoll
    BY <1>1 DEF IInv, SnapshotFollows, Next, Task, OpenPage, JoinPoll, PollAgain, LogIn,
       LogInFails, MonitorPoll, Close, Wake, LaunchFails, Publish, PageFails, End,
       WorldChanges, PageCatchesUp
  <2>2. page = "match" /\ ~NeedsReload
    BY <1>1, <2>1 DEF AwaitPoll, End, PollAgain, ReloadForNoCanvas
  <2> QED
    BY <1>1, <2>1, <2>2 DEF AwaitPoll, IInv, TypeOK, SnapshotFollows, NeedsReload
<1>2. IInv /\ [Next]_vars =>
        [snapshot # "ready" /\ snapshot' = "ready"
           => snapshot = "starting" /\ page = "match" /\ (noCanvas \/ reloaded)]_vars
  BY <1>1
<1> QED BY <1>2, Invariance, PTL DEF Spec, ReadyIsEarned

-----------------------------------------------------------------------------
(* Sessions run out.                                                        *)

\* What is left is never more than two deadlines and three steps.
LEMMA PatienceBounds == TypeOK => Patience \in 0 .. 2 * MaxPolls + 3
BY Delays DEF TypeOK, Patience

\* Another poll or the reload leaves less, the login begins the second deadline.
LEMMA ConnectingStep ==
    ASSUME TypeOK, Task, pc \in Connecting, pc' \in Connecting
    PROVE  Patience' < Patience
<1> USE Delays DEF Connecting, session
<1>0. polls \in Nat /\ polls <= MaxPolls /\ reloaded \in BOOLEAN
  BY DEF TypeOK
<1>1. CASE JoinPoll
  <2>1. /\ pc = "join"
        /\ \/ pc' = "login"
           \/ pc' = pc /\ polls' = polls - 1
    BY <1>1 DEF JoinPoll, End, PollAgain
  <2> QED BY <1>0, <2>1 DEF Patience
<1>2. CASE LogIn
  <2>1. pc = "login" /\ pc' = "await" /\ polls' = MaxPolls
    BY <1>2 DEF LogIn
  <2> QED BY <2>1 DEF Patience
<1>3. CASE AwaitPoll
  <2>1. /\ pc = "await" /\ pc' = "await"
        /\ \/ polls' = polls - 1 /\ reloaded' = reloaded
           \/ polls' = polls /\ ~reloaded /\ reloaded'
    BY <1>3 DEF AwaitPoll, End, PollAgain, NeedsReload, ReloadForNoCanvas
  <2> QED BY <1>0, <2>1 DEF Patience
<1> QED
  BY <1>1, <1>2, <1>3 DEF Task, OpenPage, LogInFails, MonitorPoll, End, Close, Publish, Wake

\* No session connects for ever: with its polls and its one reload used up it is
\* ready or it ends.
THEOREM SessionsAlwaysRunOut == Spec => SessionsRunOut
<1>1. IInv /\ [Next]_vars =>
        [Task /\ pc \in Connecting /\ pc' \in Connecting => Patience' < Patience]_vars
  BY ConnectingStep DEF IInv
<1> QED BY <1>1, Invariance, PTL DEF Spec, SessionsRunOut

\* A session takes at most twice its deadline and three steps to connect.
THEOREM SessionsAreBounded == Spec => [](Patience \in 0 .. 2 * MaxPolls + 3)
<1>1. IInv => Patience \in 0 .. 2 * MaxPolls + 3
  BY PatienceBounds DEF IInv
<1> QED BY <1>1, Invariance, PTL
=============================================================================
