# k8s-quiz: TLA+ models of the control plane

The server of k8s-quiz gives every user at most one practice environment. It
keeps the life of that environment in PostgreSQL, drives a provider (local
Docker) from leased work items, and shows the result to the browser as an
ordered stream. This directory models that core and the parts around it that
run concurrently or survive a crash, checks them with TLC on small instances,
and proves with TLAPS, for every size, the central safety properties of the
durable store, the lifecycle stream, the controller authority, the terminal hub,
the problem catalog and the refresh tokens.

## 1. The system

| Part | Source | State | Operations that change it |
|---|---|---|---|
| Durable runner store | `runner/postgres_*.go`, migrations 006-013 | sessions, allocations (one per generation), create and destroy operations with leases, client operations by idempotency key, attempts, event journals | reserve, claim, complete, retry, setup, ready, verify, choice, reset, destroy, end |
| Startup recovery | `cmd/server/main.go`, `session/service.go` 442-768 | the snapshot of work found at start | snapshot, prepare, converge, drain, activate |
| Controller lease and epoch | `runner/controller_lease.go`, `lockControllerEpochTx` | advisory lock, epoch row, lease state | acquire, probe, lose, close |
| Authority gate | `runner/authority.go` | recovering, ready, draining, fenced; two contexts | activate, drain, fence; every provider call |
| Lifecycle stream | `runner/lifecycle.go`, `ws/lifecycle.go` | a connection and a cursor per user | connect, poll, switch, tombstone |
| Session service | `session/service.go` | in-memory sessions, per-user locks, watchers, worker, shutdown | start, verify, reset, end, timeouts, crash checks, terminal leases |
| Local Docker provider | `runner/local_docker*.go`, `container/docker.go` | registry of allocations and operations; containers, networks | create, setup, verify, terminal, destroy, reconcile |
| Terminal | `ws/hub.go`, `ws/terminal.go`, `components/Terminal.tsx` | open terminals, the owner, reconnecting tabs | open, take over, commit, close |
| Problem catalog | `problem/catalog_*.go` | ledger of publications, served head, admission gate | start up, publish, reconcile, admit a session |
| Artifact store | `problem/artifact_store.go` | objects and directories on disk | ensure |
| Authentication | `auth/*`, `api/client.ts` | refresh-token families, cookies | issue, rotate, revoke, retry |
| Controller proofs, private VM protocol | `runner/controller_proof.go`, `runnerprotocol/v1` | issued proofs | issue, consume |
| Frontend store | `frontend/src/stores`, `lib`, `hooks` | session view, cursor, pending operation ids | apply frame, start, retry |

How they interact: a browser request reaches the session service, which calls
the store and, through the authority gate, the provider. A worker and startup
recovery claim what the store holds. The lifecycle socket reads the store and
never the service. The lease decides which process may do any of it. A session
start takes its problem from the catalog, whose artifacts come from the
artifact store.

What makes it hard, and is therefore modelled: leases that expire while their
work still runs; results that arrive after a reset, an end or a second claim; a
pass, a timeout and an end racing for one outcome; a restart between any two
transactions; commits whose answer is lost; a controller that lost its session
but does not know it yet; commits that arrive late; provider calls that take
effect after they timed out; a browser that resumes from an old cursor; a
machine that stops between a rename and a sync.

## 2. Modules

| Module | Models |
|---|---|
| `RunnerStore` | the durable store and startup recovery |
| `Environments`, `RunnerStoreRefinement` | what the store promises in the words of a user, and the refinement mapping |
| `LifecycleStream` | the lifecycle reader and socket, composed with `RunnerStore` |
| `ControllerAuthority` | lease, epoch fence, gate and provider calls |
| `SessionService` | the session service, composed with `RunnerStore` and a provider |
| `DockerManager`, `LocalDockerRunner` | the container manager; the runner, its registry and its reconciliation |
| `TerminalHub` | terminal sockets, the hub, the commit against resets, the tabs |
| `ProblemCatalog` | the ledger, the served head, admission and publication |
| `ArtifactStore` | `Ensure` on a filesystem that may lose what is not synced |
| `RefreshTokens` | token families, handlers, cookies and tabs |
| `RunnerStoreProofs`, `RunnerStoreOutcomes`, `RunnerStoreJournals` | lemmas and theorems of `RunnerStore`, each building on the ones before |
| `LifecycleStreamProofs`, `ControllerAuthorityProofs`, `TerminalHubProofs`, `ProblemCatalogProofs`, `RefreshTokensProofs` | theorems of the module each is named after |
| `MC...` | instances for TLC |

### RunnerStore

One store method is one action, with the name of the method. Each method is one
transaction whose first lock is the controller's epoch row, so methods of one
controller do not interleave. A method that returns an error changes nothing,
so its error is a false guard. A replay that only reads is a stuttering step.
The callers may call in any order. That is wider than the session service,
which serialises some of them with per-user locks, so what holds here holds
there.

An allocation is `<<session, generation>>`. A lease is "none", "live" or
"expired", and the token of the n-th claim is n: a worker with an older token
is a worker that lost its lease. Client operations share one key namespace, as
in the `UNIQUE (provider_id, idempotency_key)` constraint. A singleton event is
`<<type>>`, a keyed one `<<type, key>>`. `outcome` is the reason code of the
first destroying event.

`Restart` may happen at any point and takes `SnapshotLocalRecovery`'s result.
`PrepareRecoveryWork` finishes interrupted verifications and releases leases,
or `RefuseRecovery` ends the start when one of them contradicts its session.
With `LocalDocker` the snapshot is converged oldest generation first
(`ConvergeLocalRestart`). Then the drain runs, and `Activate` requires the
fixed point that `validateRecoveredFixedPoint` checks. A provider failure
during the drain sets the phase to "failing": the start exits after its
cleanup.

`LocalDocker = TRUE` is what `main.go` runs today. `FALSE` is the path
`RecoverDurableState` implements for a provider whose allocations survive a
restart (`main.go` 202-205).

Abstracted: times (an allocation may expire at any moment, a retry delay may
have passed), event payloads and messages, the resource profile, and the
catalog selection of a session.

`Environments` is the abstract specification: a session is given one
environment at a time, an environment is wanted, usable, leaving and gone in
that order, its attempt gets one verdict. `RunnerStoreRefinement` reads an
environment's life from the rows; `KeepsPromise` says that the store implements
it.

### LifecycleStream

Reads are repeatable-read transactions, so a read is one action on the state of
`RunnerStore`. `Connect` is the upgrade and the bootstrap, resumed from the
browser's cursor or from none when the subscription came after the grace
period. `Poll` is one tick: a session switch, a generation switch, a page of
events, or the null tombstone. A second tab is `Disconnect` and `Connect`. A
restart closes every connection. `reserved` is the `queued_at` order that picks
the active session.

### ControllerAuthority

A controller is one run of the server process. The lease lives on a database
session of its own, which may end at any moment (`SessionEnds`) while the
process, its transactions and its provider calls go on. A durable transaction
only takes the epoch row, checks the epoch, and commits or aborts; what it does
is `RunnerStore`. Together they justify that `RunnerStore` has one mutating
controller at a time: `CommitsInEpochOrder` and `RecoverySnapshotStable` are
the facts it relies on.

A provider call goes through the steps of `AuthorityRunner`: check, bind the
context, check again, call, check the gate and the context, answer. "active"
stands for every call that needs a ready gate; "terminal" stays open after it
succeeded; "destroy" survives draining; "recovery" is allowed only before
activation. Cancellation of a bound context is a step of its own
(`context.AfterFunc` runs in a goroutine). The caller's own cancellation and
the verification of receipts are left out.

### SessionService

The transition lock of a user is held by one thread at a time, so `tx[u]` is
both the lock and the program counter of its holder. Every store transaction a
thread issues is an action of `RunnerStore`, and every provider call is a step.
Any store call may fail before it commits, or commit and lose its answer
(`MaxFaults`). Setup goroutines and the destroy worker run outside the lock.
Shutdown takes its snapshot of intents without it. The paths for a service
without a durable store (`StartProblem` 770, `ResetEnvironment` 1900,
`EndSession` 2231, `persistTerminalAttempt` 1669) are not wired by the server
and are left out, as are cooldowns and throttles, which only refuse.

### DockerManager and LocalDockerRunner

`DockerManager` splits create, its ambiguous recovery, inspection and removal
into the calls of the daemon; each may fail or take effect later. Names may be
taken by resources of others. `LocalDockerRunner` splits every call of the
runner where it releases the registry's lock or calls the daemon, and models
the reconciliation of a process that lost its registry. Requests of a dead
process are applied or dropped before the next process inspects. `WaitReady`
only reads. Not modelled: conflicting hashes of one key, report-only and
desired-active reconciliation, and the legacy manager methods, none of which the
server uses. A daemon call that fails takes effect before the process inspects
again, or never: an effect that lands later is not modelled. `ExecutedOnce` is
about the newest generation: the store admits no newer one while an older is
registered. `NobodyWaitsInVain` is the safety part of "every call returns": a
waiter always waits for a record that somebody will complete.

### TerminalHub

One user's tabs and sockets: open beside the established terminal, check,
await the browser, commit under the transition lock, displace, serve, unwind.
`CloseAll` is atomic under the hub's mutex; `closed` also stands for a server
that no longer accepts (`main.go` 287-297). Frame contents, tickets and origins
are left out.

### ProblemCatalog and ArtifactStore

A publisher per process starts up (adopts the ledger, binds a legacy head, or
bootstraps an empty ledger) and later synchronizes the checkout; threads start
sessions under the admission gate up to their reservation. A commit may lose
its answer and is then reconciled. Unreachable in the server, and left out: the
branches of startup for a head that is already set (`main.go` 187),
`ErrCatalogLegacyActive`, and conflicts that `syncGate` excludes. Parsing,
codec and digests are data: a catalog is a set of revisions, at most one of each
problem, and a revision stands for its artifact. A start is for one problem, and
the code compares only the revision of that problem: the one in the head
(`FindActiveCatalogProblem`) with the one that the process serves
(`ResolveActiveProblem`), and again in the reservation
(`validateCatalogSelectionTx`). So a process that still serves an older catalog
may reserve for the head what both have in common, and `ReservationIsCurrent`
says no more than that. The epoch check of a reservation is in
`ControllerAuthority`.

`ArtifactStore` keeps what is visible and what is synced apart. A killed
process loses its work and keeps what is visible; a machine crash loses
whatever was not synced. `exposed` records the objects stored below a directory
that another call made and had not synced (section 5).

### RefreshTokens

The statements of the refresh and logout handlers are separate steps over the
table. The cookie is taken along when a request is sent and changes when an
answer arrives. Every statement of a handler may fail: a refresh then answers
401, and a logout ignores the error and clears the cookies. The tabs share the
cookies and nothing else; the requests of a tab share one refresh
(`refreshPromise`).

## 3. Runs

| Run | Shows | Bounds | Distinct states |
|---|---|---|---|
| `reset_local` | the store on the local Docker policy: cleanup, outcomes, grades and journals stay consistent, `KeepsPromise`, and cleanup, creates and startup end | 1 session, 2 generations, 1 key, 2 claims, 1 restart | 77,114 |
| `stream` | what changes a snapshot moves its cursor (apart from the end of an older cleanup), cursors resume, null means gone, what is gone is withdrawn | 1 session, 2 generations, 1 key, 1 claim, 1 restart, page of 2 | 133,005 |
| `stream_snapshots` | a disagreement of section 5 | as `stream` | |
| `authority` | lock and epoch agree, commits in epoch order, every kind of provider call against every gate transition, with exhausted epochs | 2 controllers, 2 epochs, 2 commits, calls in the first epoch | 286,753 |
| `service` | terminal leases, destroys, environments and shutdown intents are exact, with one failed or unanswered store call | 1 session, 2 generations, 1 key, 2 claims (of one piece of work, `OneReclaimed`), 1 fault | 790,607 |
| `token` | one usable token per family, no reuse by one tab, requests settle | 1 tab, 2 requests, 2 handlers, 3 tokens, 1 lost answer or failed statement, 1 stale row, 1 logout | 460,735 |
| `docker` | a report of absence is true, nothing run twice, terminals fenced, nobody waits in vain, nothing of others removed | 2 threads, 2 generations (calls other than create and destroy on the first), 2 terminals, 1 fault, 1 foreign resource, 2 operation records, 1 process death | 573,892 |
| `docker_leftover` | a disagreement of section 5 | 2 threads, 1 generation, creates and destroys, 2 faults | |
| `terminal` | one writer, commits only for the current generation | 2 tabs, 2 sockets, 2 generations, 1 retry, 1 fault | 696,922 |
| `cas` | what `Ensure` acknowledged stays readable | 2 writers, 2 objects, 3 directories, 1 fault, 1 kill, 2 crashes | 396,117 |
| `catalog` | the ledger, the artifacts, the served catalogs and the reservations agree | 2 processes, 2 catalogs of 2 problems that share the revision of one, 1 start each, 2 faults and starts under way | 1,427,546 |
| `stuck_verify` | a disagreement of section 5 | as `reset_local` | |

Why the bounds are enough for the cases of interest: two generations give a
reset with an unfinished predecessor. Two claims give an expired lease, a second
holder and the late first one. One restart gives every crash point, and recovery
of what it left. Two controllers give a stale one and its successor. Two
threads, tabs, writers or processes give every pairwise race. Two catalogs that
share a revision give a start whose problem a publication keeps, and one whose
problem it replaces. With one key and one session the runs of the store do not
have two verifications that race under different keys, or two sessions of one
user. These cases are left to the theorems of section 6 (`OneVerification`,
`OneStory`, `ReservationsHydrate`), which hold for any number of both.

`MaxClaims` bounds only failures: the last claim neither expires nor is
retried. `OneReclaimed` keeps `service` short: of all creates and destroys one is
claimed a second time. Without it the run has 2,351,230 states and also passes.
`MaxRestarts` also bounds failing starts. `MaxCommits` and `MaxEpoch`
bound the takeover history; `MaxEpoch` is also a limit of the code (the column's
maximum). `MaxFaults` bounds failed calls, lost answers, and in the catalog also
lost artifacts and process deaths, and there the starts under way count too: two
starts, or a start and a fault, or two faults. A startup that meets a new head
three times in a row needs a third catalog, so only the theorems cover it.
`CallEpochs` bounds the epochs whose controllers make provider calls, `Worked`
the generations that anything but create and destroy meets, and `QuietReset`
leaves a second generation to the states in which nothing but creates and
destroys goes on.
`MaxExpired` and `MaxLogouts` bound stale rows and logouts.

`CHECK_DEADLOCK FALSE` is used where a bounded session or process really comes to
a stop: everything is absent, or every process has exited. Symmetry is used only in runs without liveness.

The properties, by hazard:

- *Provisioning and cleanup.* `KeepsPromise`, `CleanupNeverLost`,
  `EndMeansGone`, `CleanupCompletes`, `CreateResolves`, `AbsentIsGone`,
  `OneEnvironmentPerSession`, `AbsentReportIsTrue`, `ForeignPreserved`,
  `NobodyWaitsInVain`.
- *Outcomes and grades.* `OutcomesAgree`, `FirstOutcomeWins`,
  `VerifyingHasOneOperation`, `ExecutedOnce`.
- *What recovery and hydration rely on.* `ActiveReservationsHydrate`,
  `StartupCompletes`, `ShutdownIntentsComplete`.
- *What the browser sees.* `JournalInOrder`, `ChangesMoveWatermark`,
  `CursorsResumable`, `NullMeansGone`, `GoneIsWithdrawn`.
- *Authority.* `HolderIsCurrent`, `CommitsInEpochOrder`,
  `NoAnswerAfterRelease`, `CleanupSurvivesDrain`, `LossFences`,
  `DrainStopsWork`.
- *Terminals.* `CommitLeaseExact`, `TakeoverIsCurrent`, `OneWriter`,
  `TerminalsFenced`.
- *Catalog and artifacts.* `NeverRolledBack`, `PublishedIsRecoverable`,
  `ServesOwnPublication`, `ReservationIsCurrent`, `EnsuredReadable`.
- *Tokens.* `OneUnusedPerFamily`, `OneTabNeverReuses`, `RequestsSettle`.

The definitions whose names end in `_Something` are faulty variants of the
definition that follows them; each property fails when its variant takes the
definition's place.

Some properties are stated in the modules and are in no listed run. They can be
added to the run of their module and hold there, unless section 5 says
otherwise: the type invariants (`TypeOK`, `ServiceTypeOK`),
`OneProvisionedGeneration`, `RecoverySnapshotStable`, `ClosedHubStaysEmpty` and
`CookieRotates` (these four are proved), `ReplacementNeverRefused` (while no
store call fails) and `InstalledIsWhole`. These liveness properties need smaller
instances of their own:

| Property | Instance |
|---|---|
| `TabsSettle`, `CommitReleasesLock` | `TerminalHub!FairSpec`, constants of `terminal`, no symmetry |
| `PublishersSettle`, `StartsSettle` | `ProblemCatalog!FairSpec`, one process, 2 starts, 2 publications, `MaxFaults = 3` (93,884 states) |
| `VerifyingEnds`, `ResetResumes` | `ServiceFairSpec`, constants of `service` with `MaxClaims = 1` |

## 4. Fairness

Weak fairness, except where noted:

- Startup runs to its end, and a failed start is started again by the
  supervisor.
- The durable worker polls, so claimable work is claimed.
- The provider call of the last claim returns and is recorded. Earlier claims
  may fail or outlive their lease.
- Setup of a created environment ends: it has timeouts (120 s and 90 s), after
  which it is recorded as ready or failed.
- The browser reconnects. A connection lives long enough to be polled once in a
  while (strong fairness on `Poll`, a 500 ms tick).
- The monitor probes a lost session every 2 s and runs its callback. The
  goroutine of a cancelled context runs, and a terminal's watcher closes it.
- A goroutine that has a step to take takes it: the sockets and tabs, the token
  handlers, a publisher and a start. The answer of a refresh arrives or is lost.
- Strong fairness where Go queues waiters on a mutex or a channel or a database
  lock is granted in turn: the terminal commit's lock, and the catalog's lease,
  snapshot, reconciliation and reservation.

- The session service: startup, a request that holds its user's lock, and the
  worker's call and its record. Strong fairness for what is tried again on every
  tick and may be disabled in between by another holder of the lock: the crash
  check, the timeout check, the retry of terminal cleanup, the worker's lock,
  its creates and destroys, and the setup of an environment.

Users' requests, restarts, lease expiry, retries, faults and session ends are
not fair, except that a lease in `SessionService` expires.

## 5. Where the code and its comments disagree

Three are runs. The others are stated as properties that the code breaks; the
instance that shows it is given in brackets.

- `stuck_verify`: a verification whose result could not be stored stays
  running. If its session then ends, every later start is refused by
  `PrepareRecoveryWork` (`postgres_work.go` 146), against "an interrupted
  verify on controller restart becomes a safe terminal infrastructure replay"
  (`runner-platform.md` 171). Liveness and stream properties name
  `phase = "refused"` as an exception because of it.
- `stream_snapshots`: restart convergence of an older generation leaves no event
  in the current journal (`postgres_lifecycle.go` 1425), so snapshots with equal
  watermarks disagree about `cleanup_pending`, against "equal-watermark snapshots
  can never disagree about it" (1194). The counterexample: a session ends, its
  second generation is absent and its first is still being deleted, the browser
  is told that cleanup is pending, the server restarts and converges the first,
  and the browser that resumes has the same cursor. `ChangesMoveWatermark` is
  what holds: this is the only step that does so, and it only takes
  `cleanup_pending` back.
- `docker_leftover`: the answer to the creation of a network is lost and the
  recovery's lookup fails too. The create then fails without an allocation, and
  the destroy that follows finds none and succeeds (`local_docker.go` 703) with
  the network still there, against "Destroy is complete only when" everything is
  "proven absent" (`runner-platform.md` 365). `AbsentReportIsTrue` is what holds:
  an allocation that was created is reported absent only when it is gone.
- `EndReplayCompletes`: the restart sweep fails a pending end operation
  (`postgres_lifecycle.go` 1400), so its replay conflicts, against
  `RequestEnd`'s comment (`postgres_end.go` 34). `EndMeansGone` does not see it:
  it speaks of an end that is reported complete. [`Spec`, constants of
  `reset_local`]
- `CapacityRespected`: a start that reserved its session and then failed gives
  its place back; its exact replay takes no new one (`service.go` 1089), against
  "caps total active sessions" (398). [`ServiceSpec`, two users with a session
  each, one generation, no keys, 1 claim, cap 1, 1 fault]
- `TerminalIntentCompletes`: a timeout after an end that had to wait for the old
  generation records an intent which the store refuses at every retry
  (`service.go` 1765), against "retained until persistence and exact allocation
  cleanup both succeed" (93). [`ServiceFairSpec`, 1 claim, no faults]
- `ReplacementNeverRefused` with a fault: when the answer of a reset's commit is
  lost the session is evicted, and the worker that claims the replacement fails
  it because a running service does not hydrate (`service.go` 2541), against
  "then resumes with its original operation identity" (`runner-platform.md`
  232). [the property without `faults = 0`, no keys, 1 fault]
- `TerminalWriteOnce`: a replay of a reset sets a session whose terminal outcome
  is recorded back to creating (`service.go` 2142), against "a write-once fact"
  (1758). [no keys, 2 claims, no faults]
- `NeverReused`: the requests of one tab share a refresh, two tabs do not, so the
  second presents a rotated token and revokes the family (`api/client.ts` 53),
  against "the rotating refresh token is never reused" (18). [two tabs, one
  request each, 3 tokens, no losses, no logout]
- `LogoutEndsFamily`: a logout between the claim of a token and the insert of
  its successor leaves the successor (`auth/service.go` 167), against "revokes
  the whole refresh-token family" (175). [one tab, one request, 3 tokens]
- `EnsuredSurvives`: a process dies between making a directory and syncing its
  parent; no later `Ensure` syncs it (`artifact_store.go` 401), and a machine
  crash loses what was acknowledged below it, against "durably installs"
  (`loader.go` 398). `EnsuredReadable` is the part that holds: everything not
  stored below such a directory. [constants of `cas`]
- `PoisonMeansLoss`: a cancelled request or an unreachable database closes
  admission for good (`catalog_sync.go` 690), against "Live CAS loss or
  corruption therefore closes readiness" (686). [one process, 1 publication,
  1 fault]

A limit rather than a disagreement: between the end of the lease's session and
the next probe the old process still has a ready gate and may answer a provider
call. Its durable commit is refused by the epoch, and the window is closed by
`LossFences`.

## 6. Proofs

TLAPS checks these theorems for every value of the constants.

| Module | Theorem | States |
|---|---|---|
| `RunnerStoreProofs` | `TypeCorrect` | `Spec => []TypeOK` |
| | `OneGenerationProvisioned` | `Spec => []OneProvisionedGeneration` |
| | `CleanupKept` | `Spec => []CleanupNeverLost` |
| | `AbsenceIsStable` | `Spec => [][AbsenceStays]_vars` |
| | `VerifiesRunning` | `Spec => []Grading` |
| | `StoreKeepsPromise` | `Spec => KeepsPromise` |
| `RunnerStoreOutcomes` | `EndsAreFinal` | `Spec => []EndMeansGone` |
| | `ReservationsHydrate` | `Spec => []ActiveReservationsHydrate` |
| | `OneVerification` | `Spec => []VerifyingHasOneOperation` |
| | `OneStory` | `Spec => []OutcomesAgree` |
| `RunnerStoreJournals` | `JournalsInOrder` | `Spec => []JournalInOrder` |
| | `FirstOutcomeStands` | `Spec => FirstOutcomeWins` |
| `LifecycleStreamProofs` | `EverySentCursorResumes` | `StreamSpec => []CursorsResumable` |
| | `WithdrawnMeansGone` | `StreamSpec => NullMeansGone` |
| | `SnapshotsMoveWatermarks` | `StreamSpec => ChangesMoveWatermark` |
| `ControllerAuthorityProofs` | `TypeCorrect` | `Spec => []TypeOK` |
| | `LeaseAndEpochAgree` | `Spec => []HolderIsCurrent` |
| | `EpochOrder` | `Spec => []CommitsInEpochOrder` |
| | `SnapshotStability` | `Spec => []RecoverySnapshotStable` |
| | `CleanupOutlivesDrain` | `Spec => []CleanupSurvivesDrain` |
| | `NothingAnsweredAfterRelease` | `Spec => NoAnswerAfterRelease` |
| `TerminalHubProofs` | `TypesHold` | `Spec => []TypeOK` |
| | `OneWriterAlways` | `Spec => []OneWriter` |
| | `TakeoversAreCurrent` | `Spec => TakeoverIsCurrent` |
| | `ClosedHubAlwaysEmpty` | `Spec => []ClosedHubStaysEmpty` |
| `ProblemCatalogProofs` | `CatalogTypes` | `Spec => []TypeOK` |
| | `LedgerNeverRollsBack` | `Spec => []NeverRolledBack` |
| | `PublicationsAreRecoverable` | `Spec => []PublishedIsRecoverable` |
| | `OwnPublicationIsServed` | `Spec => []ServesOwnPublication` |
| | `ReservationsAreCurrent` | `Spec => []ReservationIsCurrent` |
| `RefreshTokensProofs` | `OneUnusedAlways` | `Spec => []OneUnusedPerFamily` |
| | `OneTabNeverReusesAlways` | `Spec => []OneTabNeverReuses` |
| | `CookieRotatesAlways` | `Spec => []CookieRotates` |

### RunnerStore

Assumed: `OwnerAssumption` (every session has a user), `OpUserAssumption` (every
key has a user) and `BoundsAssumption` (the bounds are natural numbers, with at
least one generation). Nothing is assumed about the number of sessions, users,
keys, claims or restarts, or about the restart policy. So the safety properties
that `reset_local` checks for one session, one key and `LocalDocker = TRUE` hold
for any number of them, on both policies.

The proofs build on each other. Each one adds a strengthening to what is known,
and treats the operations one by one.

1. *Rows* (`RunnerStoreProofs`). `TypeOK`, `GenerationsReserved`,
   `CleanupNeverLost` and `OneProvisionedGeneration` together are inductive.
   `OneProvisionedGeneration` alone is not. It needs that absence is stable: no
   step makes an older generation present again. That needs `CleanupNeverLost`,
   because nothing unfinished may be left on an absent allocation to be
   completed late. It also needs `GenerationsReserved`: a generation after the
   current one has no row, so a reset cannot reserve one that has history.
2. *The refinement* (`RunnerStoreProofs`). `Rows` says that the one
   wanted allocation of a session is that of its current generation, and that
   its attempt is open exactly as long. A verdict of `Environments` is given
   only to a usable environment. The code does not check this where it records
   a grade. It follows from `Grading`: a session is verifying only while its
   current allocation is running. Every operation is then one step of
   `Environments` or a stutter.
3. *Ends, verifications and hydration* (`RunnerStoreOutcomes`). `Stored` relates
   a stored operation to a reserved allocation, and an end to its session's
   intent. `Verifies` says that a session is verifying exactly while one
   verification of it runs. It also says that a controller that recovers has
   ended all of them, which makes it inductive across restarts. `Hydrates`
   relates the state of an active session to the create operation of its
   current allocation, which is what a restarted service rebuilds the session
   from.
4. *One story* (`RunnerStoreOutcomes`). `Verdicts` says how the intent, the
   attempt, the cleanup reason and the session's state determine each other,
   allocation by allocation. `VerdictStep` lists the five things a step may do
   to them. `Grades` ties a success to exactly one passing operation.
5. *Journals* (`RunnerStoreJournals`). An append preserves
   the order of a journal when the new event may follow what is there
   (`AppendOrdered`). What may follow depends on the rows, and `Linked` relates
   them to the journal: no terminal event while the environment is wanted,
   `destroyed` only after proven absence, and a running verification has its
   start in the journal. `FirstOutcomeStands` combines the step relations of the
   earlier parts with `DestroyNeverFails`: destroy work is retried and never
   fails for good, so the operations of an absent allocation are settled.

Every strengthening of the store was also model-checked, on the constants of
`reset_local` and on two keys with `LocalDocker = FALSE` and one claim.

### LifecycleStream

Assumed: what the store assumes, and `ReplayLimitAssumption` (a page holds at
least one event).

The stream only reads, so `StreamSpec => Spec` and everything proved of the store
holds (`StreamIsStore`). A cursor stays resumable because journals are only
appended to and generations only grow (from `RunnerStoreJournals` and
`RunnerStoreOutcomes`). It is resumable when it is sent because a reserved
allocation has an event (`Begun`) and a page never passes the end of the journal.
`WithdrawnMeansGone` needs `Listed`: every reserved session is in the queue order
from which the active one is picked, so that no active session means that nothing
at all is outstanding (`OutstandingIsActive`).

`SnapshotsMoveWatermarks` holds on both restart policies. That equal watermarks
mean equal snapshots would follow if it had no exception; on the policy that the
server runs it is false (section 5). The argument is that every step of the store
`Tells`: for each reserved session it moves the watermark (`Moved`), or it leaves
everything the snapshot is read from as it was (`Unmoved`), except that the
convergence of an older generation may end its cleanup (`ConvergeTells`). Most of
the code's events are appended only when they are not in the journal yet, so this needs
`Untold`: an event that a row change will record is not there before the change.
`Untold` is inductive (`UntoldStep`), because no operation takes back what it
recorded (`Forward`, `OperationsForward`, `AbsenceStays`). There is one lemma per
operation, up to `NextTells`. `Snapshotted` says that what a restart still has to
converge is not absent, so that its end is news.

### ControllerAuthority

Assumed: `NoneAssumption` (nobody is not a controller), `KindsAssumption` and
`LimitsAssumption`.

The order of commits needs `EpochsIssued` (an issued epoch never exceeds the
row), `RowLockFences` (an open transaction holds the row lock and has the
current epoch) and `CommitsBounded`. `RowLockFences` is the argument of
`lockControllerEpochTx`'s comment: the increment waits for open transactions,
so nobody's epoch becomes stale while it can still commit.

The two properties of the gate need `GateFollows`: the gate is fenced only after
a loss, it is closed before `Close`, and it is fenced before a lost session is
discarded. So a process whose lease is over has a gate that is draining or
fenced, and the last check of a call (`AnswerCall`) lets only a destroy through.

### TerminalHub

Assumed: `TerminalBounds` (finitely many tabs and sockets, none of them called
like a state of the lock or the hub; bounds that are natural numbers).

`HubInv` is inductive. `Commits` says that a candidate between its check and its
takeover holds the transition lock, and that what it checked is still true. That
is all `TakeoverIsCurrent` needs, and it is inductive because a reset and an end
take the same lock. `Writers` extends `OneWriter` to the candidate that has
taken over and not yet closed whom it displaced: without it, two takeovers in a
row could leave a first owner that nobody closes. `Owner` says that the hub
names a socket that will unregister itself.

### ProblemCatalog

Assumed: `CatalogBounds` (finitely many processes and catalogs, at least one
catalog, each with at most one revision of a problem and at least one in all, no
process called like a state of the lock; bounds that are natural numbers).

`CatalogInv` is inductive and has one part for each kind of actor. `LockInv`: the
exclusive lock keeps reservations out, and a COMMIT whose answer was lost keeps
it until its session ends, with the head it expected still the head. `LedgerInv`:
no content twice, and what is bound was ensured first. `PubInv`: what a publisher
established in the statements before the one it is at (the head it read, the
artifacts it ensured, that its content was never published), and what its
process serves meanwhile. While a publisher has no answer it may serve less than
it published; it is then reconciling or closed to starts. `StartInv`: a start
past its lookup holds a bound revision that some publication and the one its
process serves have in common (`Selected`). No publisher of that process can
change what it serves before the start has left the gate, and none at all can
append to the ledger while the reservation holds the shared lock.

### RefreshTokens

Assumed: `TokenBounds` (finite sets of tabs, requests and handlers; no handler is
`None`; bounds that are natural numbers).

`OneUnusedPerFamily` alone is not inductive: a handler between its claim and its
insert has a family without an unused token. `TableInv` adds `Exclusive`: of a
family, at most one handler is about to insert, and then no token is unused. It
also needs `IssuedOnly`, that rows, cookies and handlers name issued tokens, so
that a new one competes with nothing. The two properties of one tab rest on
`AloneInv`: with one tab and no lost answer, the only handler at work is the
one behind the shared promise, it claims a token nobody used, and the cookie is
that token or one that can still be rotated.

### Model-checked only

- All liveness properties: liveness under fairness is outside what the prover
  handles, and so is `ENABLED`.
- The safety properties of `SessionService` (`CommitLeaseExact`, `AbsentIsGone`,
  `OneEnvironmentPerSession`, `ShutdownIntentsComplete`), of `LocalDockerRunner`
  (`AbsentReportIsTrue`, `ExecutedOnce`, `TerminalsFenced`, `NobodyWaitsInVain`,
  `ForeignPreserved`) and of `ArtifactStore` (`EnsuredReadable`): checked on the
  instances of section 3.

## 7. Not modelled

- The container pool: only tests construct it.
- The private VM lifecycle, the runner protocol and the controller proofs: not
  wired into the server, which accepts the local Docker provider only.
- The frontend's session store, its persisted operation ids and its pages. The
  store keeps the newest cursor and discards the rest, so what it shows is what
  `CursorsResumable` and `ChangesMoveWatermark` say of the frames. A
  persisted id is a key that `RunnerStore` lets anybody replay at any time.
- Users, configuration, database roles and migrations: single-row updates, or
  one-shot checks at deployment.
- The LLM client: one HTTP call, whose result is an input of `RecordChoice` and
  `RecordVerifyResult`.
- Parsing and validation of problem files, the artifact byte format, OAuth and
  token encoding, and rendering: data without interleaving.
- The paths of the session service without a durable store and the legacy
  methods of the container manager: the server does not use them.
