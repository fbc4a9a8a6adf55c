# A verification of Foundry Circle

Foundry Circle runs beside a Foundry VTT server: a *broker* (crate
`foundry-circle`) with a console, an API and OIDC logins, and a *fetcher* (crate
`foundryvtt-fetch`) that acquires Foundry archives and initialises modules and
systems. This directory models the stateful parts of both in TLA+, checks them
with TLC and proves the most important invariants with TLAPS.

## The system

| Component | State it keeps | Operations | Hard behaviour |
|---|---|---|---|
| Package reconciler (`reconcile.rs`) | target directories, the ledger, the lock file | one run per start of the service or command line | competing runs, an operator who takes no lock, failure at each system call, kills |
| OIDC logins and sessions (`auth.rs`) | tables `oidc_transactions`, `principals`, `sessions`; cookies | login start, callback, logout, session lookup | replayed and concurrent callbacks, failure at each await, lost acknowledgements, clock |
| World driver (`lib.rs`, `live`) | the shared `WorldSnapshot`, a browser session | a task that joins, awaits, monitors, closes and retries | a world that stops, changes or loads while it is looked at; deadlines; retries |
| Database supervisor (`http.rs`) | published pool, last error | a task that connects, migrates, publishes, probes, closes | outages, pools still in use by handlers, an exhausted pool |
| Broker HTTP API (`http.rs`) | none of its own | `readyz`, `world`, documents, the command gate, console view | a session looked up once and used after an await; pool and error read under two locks |
| Archive cache (`foundryvtt-fetch/lib.rs`) | archive and sidecar of each release, their modes | put, get, share with the build group | two renames per put, no lock, an input read three times, an SRI that no get verifies |
| Fetch command line (`main.rs`) | none of its own | `archive`, `account`, `acquire`, `reconcile` | competing processes on one cache directory, kills, sources tried in turn |
| Acquisition (`lib.rs`) | the state of one request | login, submit, release URL, download | lost and refused requests, bounded retries |
| Daemon and hook (`daemon.rs`, `hook.rs`) | the daemon's cache, a mutex, connections | start, accept, answer from the cache or fetch | concurrent and silent clients, wrong hashes, crashes, modes that a put or a start resets |
| Pure functions (`lib.rs`) | none | release names, archive paths, retry delays | boundaries |
| Console UI, migrations (DDL), NixOS modules | none that changes at run time | | |

They meet in four places. The supervisor *publishes* a pool which every handler
of the login component *clones*; `PoolChanges` in `OidcSessions` is the publication
and withdrawal that `DatabaseSupervisor` models in detail. The driver publishes a
snapshot that the API reads (`world_state`; `worldReady` in `Broker`). The daemon and
the command line run the same cache and account code, each on a directory of its own.
The fetcher's reconciler runs before Foundry starts, in the directory Foundry owns
while it runs.

What makes each correct:

* the reconciler never destroys a directory that a user put into a target, seeds a package
  once, checks everything before it copies anything, writes the ledger the manifest
  asks for and always frees its lock;
* a login opens at most one session, a session ends in time and for good, a cookie
  names a stored session, and stored claims belong to people with access;
* the snapshot says `Ready` only while a checked session stands behind it, and it
  follows the world in the end;
* a published pool is usable, there is one at a time, and the reported error agrees
  with readiness; outages are noticed and ended;
* nobody is served as somebody whose session was over when the call arrived;
* a cache holds archives of the release they are filed under, and a command prints the
  hash of an archive that it has read; a path the daemon has
  answered keeps its bytes and stays readable; one login at a time, and only for what
  is missing; every request that was sent is answered and every command ends.

## Modules

`Reconcile` — `reconcile_files`, `reconcile` and everything below. `target` is what
each package's path holds (nothing, an empty directory, a file, a link to an output,
a directory that is an untouched copy, a directory with somebody's own work),
`ledger` is the state file, `lock` the file lock. Each process has its program
counter and the local variables of the code under their names (`previous`,
`packages`; `cur`, `todo` are the loop; `displaced` the object moved aside). Actions
follow the system calls: first look, copy, second look, rename; displace, install,
roll back, remove. Two calls with a check and no write in between are one step
only where no other process can tell. `Operator` is Foundry and the administrator:
they create, edit and delete targets at any moment. The ledger starts arbitrary, also
inconsistent with the targets. A package key, its kind and its path are one model
value; a manifest is a set of entries, so a duplicate key can only be two different
entries; versions and schema numbers are read as valid. `deleted` and `clean` are
history variables used only by properties.

`OidcSessions` — `login_start`, `oidc_callback`, `logout`. `request[h]` is the local
state of handler `h`, `at` the await it is at. `SelectForUpdate` and `ConsumeLogin`
are `take_transaction`, with the row lock between them; `CheckExpiry` comes after the
commit, as in the code; `Complete` is the external code exchange;
`SaveSession` is `save_principal_and_session`. `...Unacknowledged` is a commit whose
acknowledgement is lost; `Fail` is an error, a dropped connection or a restarted
broker at any await. `Live` and `Admits` are `session_principal` and
`require_session`, which write nothing. `login` and `idExpires` of a session row are
history.

`Broker` — EXTENDS `OidcSessions` and puts the API beside it: `Arrive`, `AskPool`,
`LookUp` and `Handle` are `require_session` or `optional_session` and the handler, each
await a step, so that logins, logouts, expiries and the loss of the pool come between.
A call is a record of what it remembers (`known`, `groups`); `live` is history.

`WorldDriver` — `supervise`, `run_session`, `session`, `wait_for_join`. `world` is the
truth, `page` what the scripts see of it; `View` is what a page that has caught up
shows. `polls` counts down to `SESSION_TIMEOUT`; `backoff` holds the delays of
the code in seconds. `session` never returns `Ok`, so that arm of `supervise` has no
action.

`DatabaseSupervisor` — the task started by `DatabaseState::supervise` statement by
statement, with handlers that clone the published pool, take one of its connections
and drop both. `open` and `migrated` are the pools that accept requests and that have
been migrated. `Readyz` EXTENDS it with the readiness endpoint, which reads the pool
and then the error under two locks; `failed` is history.

`ArchiveCache` — `Cache::new`, `get_with_max`, `put_at`, `prepare_shared_read_cache` as
the steps of a call. A get reads the sidecar into `record` and then, through one open
file, hashes the archive into `hash` and looks into it; a put reads its input for the hash
(`PutHash`), again as a ZIP (`PutLook`) and again to copy it (`PutInstall`), and renames the
sidecar (`PutRecord`) before it sets modes. A content stands for its own SHA-256 and size;
`ReleaseOf` is what its `package.json` names. A sidecar has a SHA-256 and an SRI of its own,
which may be empty or belong to different contents: `Matches` compares the SHA-256, the SRI
is taken as it is, as in the code, and `record` is what is printed. `AccountFlow` EXTENDS it with the account and URL downloads and
`send_with_retry`: `at` goes through login, submit, release and download, `tries` counts
failed attempts of the current request. These two have no `Next`; they are composed by

* `FetchCommand` — `archive`, `account` and `acquire` as processes on one directory
  without a lock, `plan` being the sources `acquire` has left; kills, a failing second
  rename, an input that is written or replaced between the three reads of a put and
  replaced files of the cache (with any SHA-256 and SRI in the sidecar) are faults.
  `changed` and `tampered` are history: the releases which the last two have touched.
* `FetchDaemon` — `fetchd` and its hooks. A connection is a process; `lock` is the tokio
  mutex; `Crash` ends the daemon with every connection, and systemd may start it
  again. `promised` is history: what was answered as ready.

`FetchService` is what the daemon promises, without cache, mutex or modes: an archive is
fetched at most once for a release, a ready answer is the wanted archive. `FetchDaemon`
implements it with `served`, the archive of each release that has a sidecar, and `phase`.

`LoginService` is what the logins promise, without tables, row locks, requests or a clock: a
login is offered, taken and over; it opens one session at most, for a person who was
identified in it and had access then; a session keeps its owner and ends for good.
`OidcSessions` implements it: `stage` reads a login's stage from its row and from the
requests that have consumed it, `admitted` from what those requests know, `owner` from
the sessions and the clock.

`MC*` modules give model values, manifests and symmetry; the `.cfg` files are the runs.
`*Proofs` and `ReconcileOutcomes` hold theorems.

Definitions that a comment calls a *mutant* are plausible mistakes in the definition
they precede; with the mistake in place the property named for it in `PROJECT.json`
fails. They are not used by any specification.

## Runs

| Run | Question | Bounds |
|---|---|---|
| `reconcile_one` | Does a run lose anything, or seed twice? (`NothingLost`, `SeedOnce`) | one package, two runs at a time, any number of runs, two good outputs and one collected, three operator actions, one kill or failed roll-back |
| `reconcile_two` | Do preflight, loop and ledger agree over several packages, and what does a fault cost? (`PreflightIsBinding`, `CommitMeetsManifest`, `InitializationRecordedOnce`, `FaultsCostOneTargetEach`) | two packages, five manifests, one operator action, one kill |
| `reconcile_survive` | Do recorded targets survive without kills and failed roll-backs, does every run move on, and is the lock always freed? (`RecordedTargetsSurvive`, `RunsMoveOn`, `LockIsReleased`) | as `reconcile_one`, no kill, no symmetry |
| `reconcile_kill` | And with one kill? No: see below | one kill, no operator |
| `oidc_sessions` | Safety of logins and sessions, and the refinement of `LoginService` | two handlers, logins, tokens, people; times 0..2 with lives of 1, 2 and 3 |
| `broker` | Is a call ever served with a session that was dead on arrival, and does every callback end? (`ServedWasLive`, `RequestsEnd`) | one call of any route, two handlers that compete for one login, one group, no symmetry |
| `world_driver` | Safety and liveness of the snapshot; does every session run out? (`SessionsRunOut`) | the delays of the code, two polls for thirty, four faults, unbounded changes of the world |
| `database` | Safety of the pool, agreement of `readyz`, recovery and the notice of an outage | three handlers, pools of two connections, three pools, one probe, no symmetry |
| `fetch_race` | What can competing commands put into the cache or print? (`InstalledIsValid`, `PrintedWasRead`) | two commands, one release, two builds of it and a bad file, one fault |
| `fetch_single` | Does one command at a time agree with its cache, move on, and end? (`PrintedIsCached`, `CommandsMoveOn`, `CommandsEnd`) | any number of commands one after the other, two releases, two attempts, one fault |
| `cache_torn` | Do archive and sidecar belong together at rest? No: see below | two commands, two builds, no fault |
| `daemon` | Promises, exclusion, answers, progress of each handler (`HandlersMoveOn`) and the refinement of `FetchService` | two connections, three derivations over two releases, of which two want different builds of one, two attempts, any number of crashes |

Why the bounds suffice. Interference with the reconciler needs two runs (one waits
while the other works) and an operator; the longest interesting story — initialise,
delete or replace, run again while somebody interferes — takes three operator
actions. What is particular to several packages (a preflight that is complete before
the loop, entries kept, dropped or added) shows with two. A replay is two requests
for one login, a mix-up two logins and two tokens. The clock reaches a point at which
a login, an ID token and a session have expired and at which they have not. Four faults
exceed the number of doublings after which the delay is capped (5, 10, 20, 40, 60).
Three handlers exhaust a pool of two connections; a pool that is lost while handlers
hold it, its successor and one more are three. Cache files are disturbed by one other
command, one fault tears a put or changes its input, and two builds of one release are what a wrong hash
needs; a second release shows what another put does to the modes of the first. One group
is enough in `broker`: neither property looks at what an admitted caller is answered, and a
second one, which tells the roles apart, would only multiply the states of its liveness. In
`daemon` two connections wait for each other, and a third would wait like the second.

### What fails

`reconcile_kill`: `materialize_legacy_link` renames the legacy link away and then renames
the copy to the target. A run killed between the two leaves a recorded package with
neither, and later runs take the missing target for a deletion. The fetcher's README
promises that such a link "is materialized into a mutable copy once". Displaced objects
and everything else survive the kill (`NothingLost`); only the target's name is empty.

`cache_torn`: the doc comment of `Cache` says "The archive and sidecar are atomically
replaced". They are replaced by two renames without a lock; two `archive` commands with
different builds of one release leave the archive of one with the sidecar of the other,
and every later get fails until somebody puts the release again. The loser of the race
prints the hash of the build it was given with a path that holds the other one. What stays
true is that only archives of the release are installed and that every printed hash is that
of an archive the command has read (`fetch_race`); the daemon, whose mutex spans the whole
put, is immune, also when it crashes between the renames (`CacheAgrees`).

### What a command prints

`PrintedWasRead` says what the hashes on a command's output are worth. The SHA-256 is always
that of a content which this command has read itself: a get compares what it has computed
with a record that it read before, and fails when a put, or anybody else, came between. A
content that a get prints is also an archive of the release; a put whose input was still
being written may print the hash of one that is not, and then a get refuses what it has
left in the cache (`PrintedIsCached`). The SRI is weaker: `get_with_max` compares a recorded
SRI with nothing, so whoever replaces a sidecar and keeps its SHA-256 has any SRI printed.
It is that of the archive as long as only the fetcher writes sidecars.

### Fairness

* Reconciler: weak fairness of a run's own steps: the kernel schedules it and system
  calls return. Nobody has to start a run, kill one or touch a target.
* Logins: weak fairness of each handler's own progress (the runtime polls it, the
  database and the provider answer or fail) and strong fairness of `SelectForUpdate`,
  since PostgreSQL serves the waiters for a row lock in turn. Failing is never required.
  `Broker` adds none for its calls.
* Driver: weak fairness of each step of the task — the browser's calls answer — and of
  the page following the world. Faults (failed calls, refused logins, polls of a late
  page) are bounded by `MaxFaults`, which is what "in the end" means in the liveness
  properties: faults that never end refute them trivially.
* Database: weak fairness of the supervisor and of a handler's `Drop`: statements end.
  Without the latter `close()` would wait for ever.
* Commands: weak fairness of a process that has been started; its HTTP requests have a
  timeout. Which answer comes is not constrained.
* Daemon: weak fairness of `Handle`, what a handler does by itself, and strong fairness of
  `TakeLock`: the tokio mutex is first come, first served. `ReadRequest` has none — a
  client may stay silent for ever — and neither has a start or a crash.

## Proofs

For every value of the constants that satisfies the named assumptions of the modules
(`None` is not one of the other values, the bounds are naturals, there are finitely many
packages, manifests hold entries, good outputs are outputs, `ReleaseOf` maps archives to
releases or `None`, delays are ordered, pools have at least one connection). No property
but the simplest is inductive; each module says in its invariant what is missing.

* `ReconcileProofs`: `TypeCorrect`, `SeededOnce`, `RecordedOnce`, `NoDirectoryLost`.
  The invariant `IInv` adds that exactly the process past `AcquireLock` holds the lock,
  that such a process has the ledger as it is on disk in `previous` (nobody else writes
  it), that its `packages` differs from it only by packages that had no record, that a
  process that seeds is at an unrecorded package, and that something is displaced only
  between the displacing rename and the end of the package. `SeedOnce` and
  `InitializationRecordedOnce` follow from the second and third, `NothingLost` from the
  last and from what `rename(2)` can replace.
* `ReconcileOutcomes`: `PreflightBinds`, `CommitIsComplete`, `LossIsBounded`, and, if
  `MaxFaults = 0`, `TargetsSurvive`. `RunInv` says what a run has achieved at each step:
  which targets it has checked, which packages are where it wants them, how its records
  differ from the ledger; `RunSteps` is the reason it holds: while a run has the lock
  nobody but the run and the operator changes anything it depends on. `LossIsBounded` is
  what remains of survival when runs are killed: no more recorded targets are lost than
  there were kills and failed roll-backs. `RunsKeep` says that a target which a run is
  about to record is missing only if it was deleted or lost before, or while the run is
  between its two renames, so that no commit loses one; every other step loses one target
  at most, and that only with a fault (`LosesAtMostOne`). `TargetsSurvive` is its case of
  no fault; with one, `reconcile_kill` shows that the bound is met.
* `OidcSessionsProofs`: `LoginsOpenOneSession`, `SessionsEnd`, `CookiesAreStored`,
  `LiveIsAdmitted`, `DeadStaysDead`, `TypeCorrect`. The invariant tells who can still use
  a login: a stored one has been consumed by nobody (`StoredIsUnused`), the row lock
  belongs to the request that is deleting the row (`LockOwner`), a consumed one has one
  consumer and no session yet (`ConsumedOnce`), and the token about to be stored is
  nobody's (`TokensAreFresh`). `LoginsImplementService` is the refinement of `LoginService`:
  every step of a request or of the world is mapped to one abstract action or a stutter.
  Its core is that `Consumers` of a login are none while its row is there and one at most
  afterwards, so a step of another request changes no login's stage; and that time and
  logouts change `owner` from live to over only (`End`).
* `BrokerProofs`, on top of it: `ServedWasLiveAlways`, `BrokerTypeCorrect` and
  `NobodyDenied` (the access group of whoever is known is stored). `Remembered` says that
  a token which was dead on arrival is still dead when it is looked up, which is
  `DeadStep`, the step lemma of `DeadSessionsStayDead`, which no run repeats since
  `ImplementsLoginService` contains it. The type invariant of `Broker`
  and `NobodyIsDenied` are proved only; no run repeats them.
* `WorldDriverProofs`: `TypeCorrect`, `ReadyIsCurrent`, `ReadyHasBeenEarned`,
  from `SnapshotFollows`: what the snapshot says at each point of the task;
  `SessionsAlwaysRunOut` and `SessionsAreBounded`, below.
* `ReadyzProofs`: `TypeCorrect`, `PublishedIsUsable`, `SinglePool`, `ReadyzAgrees`. The
  invariant follows the one pool through the task (`OnePool`), its migration
  (`Migrated`), the connections handlers still have when it is closed (`InHands`,
  `WithinLimits`), and ties the error to the publication (`ErrorAgrees`).
* `FetchCommandProofs`: `TypeCorrect`, `OnlyValidIsInstalled`, `OnlyWhatWasReadIsPrinted`,
  and `OnePrintsWhatIsCached` if there is one process. What is looked into and copied is
  what was hashed unless it has changed (`Unchanged`), a sidecar that only the fetcher has
  written has both hashes of one content (`OwnRecords`), and `Recorded` ties the record in
  hand to the hash in hand.
* `FetchDaemonProofs`: `TypeCorrect`, `ArchivesAgree`, `PromisesKept`, `PromisesReadable`,
  `LoginsAreExclusive` and `Implementation`, the refinement of `FetchService`. The invariant
  says that whoever is at the cache or the site has the mutex, that one who fetches has
  found no sidecar, that a record in hand is that of the cached archive, and that a
  promised path has archive, sidecar and hash. Crashes keep it because a release
  without a sidecar is not served yet.

### Progress

Liveness under fairness is out of the prover's reach, but what can be wrong in this code
is seldom the scheduler: it is a retry that does not count, a loop that begins again, an
error path that goes back. That half is safety, and it is proved. Each component has a
measure of the steps an actor has left, and each step the actor takes makes it smaller,
whatever the others and the outside world do between its steps:

| Actor | Measure | Step by step | In total |
|---|---|---|---|
| a run that holds the lock | `StepsLeft`: the packages to look at and to handle | `RunsAlwaysMoveOn` | `RunsAreBounded`: 8 for each package, and 2 |
| a session that connects | `Patience`: polls, the login, the one reload | `SessionsAlwaysRunOut` | `SessionsAreBounded`: twice the polls of a deadline, and 3 |
| a command of the fetcher | `WorkLeft`: attempts of its requests, steps in the cache, sources left | `CommandsAlwaysMoveOn` | `CommandsAreBounded`: 5 for each attempt the policy allows, and 15 |
| a handler of the daemon | `WorkLeft`, likewise | `HandlersAlwaysMoveOn` | `MutexIsFreed`: 4 for each attempt, and 11, under the mutex |

So whoever waits for the reconciler's lock or the daemon's mutex waits for a bounded number
of steps of its holder, and `MutexIsFreed` adds that there always is such a holder: the
mutex is never left behind. With the fairness above this is why `LockIsReleased`,
`CommandsEnd` and `RequestsAreAnswered` hold; that last inference is TLC's. The step
properties are checked in the runs as well; the bounds are proved only.

### Left to TLC

The invariants and measures were checked with TLC before they were proved. Every safety
property of a passing run is also a theorem, the two refinements included; type
correctness is proved for every component, and only `daemon` repeats it as a run. Only
model-checked are the liveness properties (`LockIsReleased`, `RequestsEnd`,
`HealthyWorldBecomesReady`, `LostWorldIsNotReady`, `StoppedWorldIsReported`,
`DatabaseComesBack`, `OutageIsNoticed`, `CommandsEnd`, `RequestsAreAnswered`), since fairness
and `ENABLED` are out of the prover's reach. `RequestsEnd` is checked in `broker`, whose
behaviours include those of `OidcSessions`.

## Not modelled

* Release names and archive paths (`ReleaseId::parse`, `archive_name`), the arithmetic
  of the retry delay, ZIP limits and path checks, return paths: strings and
  numbers without state, covered by unit tests.
* The Console UI, `healthz`, the status poll of Foundry (`live_game`), whose result is only
  shown, and what an unconfigured OIDC client answers.
* The migrations, of which `OidcSessions` has the constraints, and the NixOS modules and
  VM tests, which say how the programs are started.
* In the reconciler: the content of trees and the copying of a single entry (a copy
  succeeds as a whole or leaves only a temporary directory), power loss with unsynced
  data, a `stat` that fails while other calls succeed, temporary directories left by a kill.
  `NothingLost` is about directories: a file or a foreign link that somebody puts in the place
  of a legacy link between the check (342) and the rename (354) is displaced and removed like
  the link was, and no property forbids it.
* In the cache: a `get` that hashes a file of the cache while it is written in place (every
  writer in the code renames, and a get reads one open file), a sidecar whose size alone is
  wrong, which fails like one with another SHA-256, temporary files, the command line
  pointed at the daemon's own directory, which the service user alone may open.
* The text of pages and error categories; the lengths of lines on the socket.

`PROJECT.json` lists hazards that no property covers, with the reason.
