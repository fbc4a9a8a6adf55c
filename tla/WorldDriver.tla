---------------------------- MODULE WorldDriver ----------------------------
(***************************************************************************)
(* The supervised browser session that observes the Foundry world, the     *)
(* module driver::live of foundry-circle/src/lib.rs.                       *)
(*                                                                         *)
(* One task loops for ever: it launches a browser, joins the world with    *)
(* the API user, waits for the game, publishes the world as ready and      *)
(* polls it; when the session ends it closes the browser, publishes why,   *)
(* sleeps and starts again.  The world and the page are external: the      *)
(* world starts, stops and changes at any moment and the page, which is    *)
(* all that the scripts of the driver see, follows it late.                *)
(***************************************************************************)
EXTENDS Naturals

CONSTANTS
    MaxPolls,   \* polls before SESSION_TIMEOUT (thirty in the code)
    MaxFaults,  \* bound on faults: failed browser calls, refused logins, late pages
    FirstDelay, StoppedDelay, MaxDelay  \* seconds: 5, 15 and 60 in the code

ASSUME BoundsAreNaturals == {MaxPolls, MaxFaults, FirstDelay, StoppedDelay, MaxDelay} \subseteq Nat
ASSUME DelaysAreOrdered ==
    0 < FirstDelay /\ FirstDelay < StoppedDelay /\ StoppedDelay < MaxDelay

\* The world: not running, starting up, running as configured for an API user
\* who is game master, running with another id, version, system or role.
Worlds == {"stopped", "loading", "match", "other"}

VARIABLES
    world,     \* what Foundry runs
    page,      \* what the page shows
    loggedIn,  \* whether the page's user is the API user
    noCanvas,  \* the client setting of the browser profile
    pc,        \* where the task is
    polls,     \* polls left before the deadline
    reloaded,  \* reloaded_for_no_canvas
    result,    \* why the session ended, while the browser closes
    snapshot,  \* the shared WorldSnapshot, which is its state
    backoff,   \* seconds
    faults     \* faults so far

browser == <<page, loggedIn, noCanvas>>
session == <<polls, reloaded, result>>
vars    == <<world, browser, pc, session, snapshot, backoff, faults>>

\* What the page shows once it has caught up with the world.
View == CASE world = "stopped" -> "noWorld"
          [] world = "loading" -> "blank"
          [] OTHER -> IF loggedIn THEN world ELSE "form"

Init ==
    /\ world \in Worlds
    /\ page = "none"
    /\ loggedIn = FALSE
    /\ noCanvas = FALSE
    /\ pc = "launch"
    /\ polls = 0
    /\ reloaded = FALSE
    /\ result = "none"
    /\ snapshot = "starting"
    /\ backoff = FirstDelay
    /\ faults = 0

Fault   == faults < MaxFaults /\ faults' = faults + 1
NoFault == UNCHANGED faults

\* session() returns an error: WorldStopped or any other Failure.  The snapshot
\* is not touched before the browser is closed.
End(r) ==
    /\ pc' = "closing"
    /\ result' = r
    /\ UNCHANGED <<world, browser, polls, reloaded, snapshot, backoff>>

\* The operators that a comment calls a mutant are not the code: each is a
\* plausible mistake in the definition below it, which a property must notice.

\* (mutants of Publish: the snapshot survives a failure; a stopped world is an error.)
PublishStoppedOnly(r) ==
    /\ snapshot' = IF r = "stopped" THEN "stopped" ELSE snapshot
    /\ backoff' = IF r = "stopped" THEN StoppedDelay ELSE backoff
    /\ pc' = "asleep"
PublishError(r) == snapshot' = "error" /\ pc' = "asleep" /\ UNCHANGED backoff

\* supervise() publishes how the session ended and goes to sleep.
Publish(r) ==
    /\ snapshot' = IF r = "stopped" THEN "stopped" ELSE "error"
    /\ backoff' = IF r = "stopped" THEN StoppedDelay ELSE backoff
    /\ pc' = "asleep"

\* The password file, the profile directory or the browser itself fails.
LaunchFails ==
    /\ pc = "launch"
    /\ Fault
    /\ Publish("failed")
    /\ UNCHANGED <<world, browser, session>>

\* A browser with a new profile opens /join.
OpenPage ==
    /\ pc = "launch"
    /\ pc' = "join"
    /\ page' = "blank"
    /\ loggedIn' = FALSE
    /\ noCanvas' = FALSE
    /\ polls' = MaxPolls
    /\ reloaded' = FALSE
    /\ NoFault
    /\ UNCHANGED <<world, result, snapshot, backoff>>

\* Some call on the page fails, the opening of the page included.
PageFails == pc \in {"join", "login", "await", "monitor"} /\ Fault /\ End("failed")

\* A poll of a page that has not caught up with the world is a fault.
Poll == IF page = View THEN NoFault ELSE Fault

\* Not yet: sleep POLL_INTERVAL.
PollAgain ==
    /\ polls' = polls - 1
    /\ UNCHANGED <<world, browser, pc, reloaded, result, snapshot, backoff>>

\* wait_for_join: a form, or a game that is ready, ends the wait.
JoinPoll ==
    /\ pc = "join"
    /\ Poll
    /\ \/ polls = 0 /\ End("failed")
       \/ polls > 0 /\ page = "noWorld" /\ End("stopped")
       \/ /\ polls > 0 /\ page \notin {"noWorld", "blank"}
          /\ pc' = "login"
          /\ UNCHANGED <<world, browser, session, snapshot, backoff>>
       \/ polls > 0 /\ page = "blank" /\ PollAgain

\* select_user, the password and Enter: the page leaves the form, or stays at it
\* because the login is refused.
LogIn ==
    /\ pc = "login"
    /\ page = "form"
    /\ pc' = "await"
    /\ polls' = MaxPolls
    /\ \/ page' = "blank" /\ loggedIn' = TRUE /\ NoFault
       \/ UNCHANGED <<page, loggedIn>> /\ Fault
    /\ UNCHANGED <<world, noCanvas, reloaded, result, snapshot, backoff>>

\* No such user, or no form any more.
LogInFails ==
    /\ pc = "login"
    /\ \/ page = "form" /\ Fault
       \/ page # "form" /\ NoFault
    /\ End("failed")

\* The game is ready but draws its canvas: set noCanvas, which may have no
\* effect, and reload, once.
ReloadForNoCanvas ==
    /\ noCanvas' \in BOOLEAN
    /\ reloaded' = TRUE
    /\ page' = "blank"
    /\ UNCHANGED <<world, loggedIn, pc, polls, result, snapshot, backoff>>

\* (mutants: never reload; reload until the setting sticks.)
NeverReload     == FALSE
ReloadUntilSet  == ~noCanvas
NeedsReload     == ~noCanvas /\ ~reloaded

\* The loop of session() before the deadline.
AwaitPoll ==
    /\ pc = "await"
    /\ Poll
    /\ \/ polls = 0 /\ End("failed")
       \/ polls > 0 /\ page = "noWorld" /\ End("stopped")
       \/ polls > 0 /\ page = "other" /\ End("failed")
       \/ polls > 0 /\ page = "match" /\ NeedsReload /\ ReloadForNoCanvas
       \/ /\ polls > 0 /\ page = "match" /\ ~NeedsReload
          /\ snapshot' = "ready"
          /\ pc' = "monitor"
          /\ UNCHANGED <<world, browser, session, backoff>>
       \/ polls > 0 /\ page \in {"blank", "form"} /\ PollAgain

\* (mutant: the contract is not checked again.)
MonitorWithoutContract ==
    /\ pc = "monitor"
    /\ Poll
    /\ \/ page = "noWorld" /\ End("stopped")
       \/ page \in {"blank", "form"} /\ End("failed")
       \/ /\ page \in {"match", "other"}
          /\ snapshot' = "ready"
          /\ UNCHANGED <<world, browser, pc, session, backoff>>

\* The inner loop, every ten seconds, without a deadline.
MonitorPoll ==
    /\ pc = "monitor"
    /\ Poll
    /\ \/ page = "noWorld" /\ End("stopped")
       \/ page \in {"blank", "form", "other"} /\ End("failed")
       \/ /\ page = "match"
          /\ snapshot' = "ready"
          /\ UNCHANGED <<world, browser, pc, session, backoff>>

\* browser.close() and the profile's removal, then back in supervise().
Close ==
    /\ pc = "closing"
    /\ page' = "none"
    /\ result' = "none"
    /\ Publish(result)
    /\ NoFault
    /\ loggedIn' = FALSE
    /\ UNCHANGED <<world, noCanvas, polls, reloaded>>

\* The delay is over, the next one is twice as long.
NextDelay     == IF 2 * backoff < MaxDelay THEN 2 * backoff ELSE MaxDelay
Wake ==
    /\ pc = "asleep"
    /\ backoff' = NextDelay
    /\ snapshot' = "starting"
    /\ pc' = "launch"
    /\ NoFault
    /\ UNCHANGED <<world, browser, session>>

-----------------------------------------------------------------------------
(* Foundry and the page (external).                                         *)

WorldChanges ==
    /\ world' \in Worlds \ {world}
    /\ UNCHANGED <<browser, pc, session, snapshot, backoff, faults>>

PageCatchesUp ==
    /\ page \notin {"none", View}
    /\ page' = View
    /\ UNCHANGED <<world, loggedIn, noCanvas, pc, session, snapshot, backoff, faults>>

Task == OpenPage \/ JoinPoll \/ LogIn \/ LogInFails \/ AwaitPoll \/ MonitorPoll \/ Close \/ Wake

Next == Task \/ LaunchFails \/ PageFails \/ WorldChanges \/ PageCatchesUp

\* The task is always scheduled and its browser calls answer; a page catches up
\* with its world; no fault has to happen.
Fairness ==
    /\ WF_vars(OpenPage) /\ WF_vars(JoinPoll) /\ WF_vars(LogIn) /\ WF_vars(LogInFails)
    /\ WF_vars(AwaitPoll) /\ WF_vars(MonitorPoll) /\ WF_vars(Close) /\ WF_vars(Wake)
    /\ WF_vars(PageCatchesUp)

Spec == Init /\ [][Next]_vars /\ Fairness

-----------------------------------------------------------------------------
(* Properties.                                                              *)

\* The type invariant: every variable holds what its declaration says.
TypeOK ==
    /\ world \in Worlds
    /\ page \in {"none", "blank", "form", "noWorld", "match", "other"}
    /\ loggedIn \in BOOLEAN
    /\ noCanvas \in BOOLEAN
    /\ pc \in {"launch", "join", "login", "await", "monitor", "closing", "asleep"}
    /\ polls \in 0..MaxPolls
    /\ reloaded \in BOOLEAN
    /\ result \in {"none", "stopped", "failed"}
    /\ snapshot \in {"starting", "stopped", "ready", "error"}
    /\ backoff \in FirstDelay..MaxDelay
    /\ faults \in 0..MaxFaults

\* Commands are let through only while a session is logged in to a world that
\* has passed the contract, or while that session's browser is being closed:
\* no failure, reload or restart leaves an old Ready behind.
ReadyBelongsToASession ==
    snapshot = "ready" => pc = "monitor" \/ (pc = "closing" /\ result # "none")

\* A world becomes ready only from starting, never straight from stopped or
\* error, and only with the rendering of its canvas settled: switched off, or
\* tried once.
ReadyIsEarned ==
    [][snapshot # "ready" /\ snapshot' = "ready"
         => snapshot = "starting" /\ page = "match" /\ (noCanvas \/ reloaded)]_vars

\* What a session that is not ready yet has left of its deadlines: the polls of
\* the join, the login, the polls of the game and the one reload, which has the
\* deadline of the polls before it.
Connecting == {"join", "login", "await"}
Patience ==
    CASE pc = "join"  -> MaxPolls + 3 + polls
      [] pc = "login" -> MaxPolls + 2
      [] OTHER        -> polls + (IF reloaded THEN 0 ELSE 1)

\* A session becomes ready or gives up: whatever the world and the page do
\* meanwhile, each step it takes uses up some of its patience, also a reload.
SessionsRunOut ==
    [][Task /\ pc \in Connecting /\ pc' \in Connecting => Patience' < Patience]_vars

\* A world that stays up as configured ends up ready for good: the retries get
\* there, and the monitor never gives a healthy session up.
HealthyWorldBecomesReady == <>[](world = "match") => <>[](snapshot = "ready")

\* A world that stays down, or runs but breaks the contract, is not reported ready
\* for ever.
LostWorldIsNotReady ==
    \A w \in {"stopped", "other"} : <>[](world = w) => <>[](snapshot # "ready")

\* A world that stays down is reported as stopped, again and again.
StoppedWorldIsReported == <>[](world = "stopped") => []<>(snapshot = "stopped")
=============================================================================
