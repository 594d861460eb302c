# Hostlet: a TLA+ development of the control plane and its workers

Hostlet is a hosting platform: a Rust control plane (`crates/control`) over one PostgreSQL database, and worker
processes that lease work from it over an internal HTTP API (builder, database, publisher, runtime). Nearly
everything that can go wrong goes wrong between the two: a worker is killed, loses its lease, reports late or
twice, or changes a file, a virtual machine or a tenant database that PostgreSQL cannot commit together with its
own rows.

This directory holds TLA+ modules that model those protocols, TLC configurations that check them on small
instances, and TLAPS proofs of every safety property the passing runs check. `PROJECT.json` maps every definition that
models code to the lines it models, and lists the runs, the mutants that show each property can fail, the hazards and the
findings.

To check a run: `tlc -config MCJobs.cfg MCJobs`. To check the proofs about a module: `tlapm JobsProofs.tla`.

## 1. Inventory

### How the parts interact

An owner talks to the control plane's public API; every change there is a PostgreSQL transaction, mostly under an
`Idempotency-Key` and an `If-Match` revision. A worker asks an internal API for a lease: it gets an *attempt* with
a *fence*, does its work outside the database, and completes. Control refuses whatever comes from an attempt that
is not the current one. Leases run out on PostgreSQL's clock; a reaper inside control (every second), or the next
lease, takes the work back. Build, release, publication and database work are four such queues with different rules
about retries; they meet where a build yields a release, a release carries a database migration, and a promotion
refreshes the published portfolio.

| Component | State it keeps | Operations | What makes it correct |
|---|---|---|---|
| Durable jobs (`jobs.rs`) | `jobs`, `job_attempts`, `job_effects`, `idempotency_records` | create, cancel, lease, renew, complete, reap | one attempt at a time, one effect, answers that stay true, no job forgotten |
| Build queue (`build_jobs.rs`) | `build_jobs`, attempts, effects, receipts, usage reservations and events | enqueue, cancel, lease, renew, materialize, credentials, complete, cancel:ack, reap | one active build an account, seconds billed once and no more than were reserved, no retry after a launch |
| Build worker (`builder/`) | a process, a renewal thread, a virtual machine in its own systemd unit | lease loop, supervision, cleanup | a machine keeps its slot until its worker reports it gone, no bill without a launch |
| Publications (`portfolio_publish.rs`, `publisher/`) | publication and site rows; staging, artifact trees, the `current` link | queue, supersede, lease, install, prepare, switch, finalize, reconcile | trees are served as validated, in order, and a prepared promotion is finished; section 6 has what the code lets through |
| Releases (`releases.rs`, `runtime/`, the coordinator) | releases, reconciliations, attempts, routes; `current.json` of the gateway | stage, rollback, lease, complete per phase, switch, activate, retire | the gateway serves a release that is or was routed or is about to be, failures touch one release, migrations are validated against what is routable |
| Tenant databases (`tenant_databases.rs`, `database/`) | database, archives, recoveries, migrations, operations; the tenant database, clones, sealed files | provision, backup, export, restore, drill, expire, observe, trial, live apply, scheduler | offered backups restore, a migration runs once, rows agree with operations, operations settle |
| Admission (`admission.rs`) | capacity holds, slot reservations, entitlements, the pool, build usage | hold, admit, expire, observe, debit, credit, change limits | limits held under concurrency, every hold accounted for once, a project shows the slot it has |
| Runtime policy (`runtime_policy.rs`) | evaluation intents, restore probes, evaluations, allocations, observations | resolve credentials, register, allocate, record receipts | an intent is consumed once, an allocation rests on valid evidence, receipts are applied under generation and fence |
| Project graph (`graph.rs`) | revisions, snapshots, deployments, intents | edit, snapshot, deploy, request intent | one deployment awaiting admission |
| Secrets (`secrets.rs`) | secret versions, replay fingerprints | put, revoke, resolve for a job | only a live attempt resolves |
| GitHub (`github.rs`, `github_webhooks.rs`) | authorization, OAuth attempts, installation, bindings, sources, deliveries | connect, discover, bind, resolve, delete, read for a build, a report or an admission, deliver | a withdrawal at GitHub is never lost to one that is under way, readers commit on what they locked, no deadlock |
| Portfolio drafts, previews, approvals | drafts, reviews, approved revisions, deployment facts, readiness, documents | save, review, approve, refresh, attest, request | what is published is what was approved; facts and readiness are those of the routed release |
| Platform recovery (`recovery.rs`, `db.rs`) | backups of the control database | schedule, retain, restore, verified upgrade | no migration without a verified backup |

Stateless or purely external parts (request formats, compatibility rules, the GitHub client, rendering, the guest,
the launcher scripts, the web application, the end-to-end scenarios) are listed in `PROJECT.json` with the reason
they are left out.

### What is hard to test

Grouped; each is in `PROJECT.json` at its line with the properties that would catch it.

- *Late and repeated requests.* A worker's request may arrive after its lease ran out, after another attempt began,
  or again after it was answered.
- *A test and its lock.* Some handlers read the clock after they hold the row (`jobs.rs`), others test and lock in
  one statement, where PostgreSQL tests before it waits (`build_jobs.rs`).
- *An owner's page left open.* A review, an If-Match revision or an OAuth attempt is used long after it was made.
- *Another service changes its mind.* GitHub withdraws what it granted while a transaction is asking, and tells so
  later.
- *Lock orders.* A dozen transactions lock the project, the authorization, the installation and the bindings.
- *Two stores.* Pointer and row, gateway file and route, sealed file and archive row, tenant database and migration
  row are written one after the other, with a crash possible between them.
- *Several repairers.* A completion and the reaper, or two attempts, perform the same steps.
- *Work given up and resumed.* A promotion leaves its attempt twice while the database worker runs, and is expected
  to continue where it stopped.
- *Limits.* The last attempt, the last second of a reservation, the last retained release.
- *Something that must eventually happen*: settle, finish the prepared promotion, activate the prepared route, free
  the slot of a canceled build.

## 2. Modules

| Module | Models | Uses |
|---|---|---|
| `WorkQueue` | what a work queue promises, abstractly | |
| `Jobs` | `jobs.rs`, `intent.rs`, the reaper | `WorkQueue` (refinement) |
| `JobsProofs` | the theorems about `Jobs` | `Jobs`, `TLAPS` |
| `Builds` | `build_jobs.rs` | |
| `BuildWorker` | `project_build.rs` and `vm.rs` against the queue | `Builds` (composition) |
| `Publications` | `portfolio_publish.rs`, the publisher worker and their directory | |
| `Releases` | `releases.rs`, `release_worker.rs`, the coordinator's switch | |
| `TenantDatabases` | `tenant_databases.rs`, the database worker, its repository and PostgreSQL adapter | |
| `Admission` | `admission.rs`, what it needs of `graph.rs` and of the tenant databases | |
| `RuntimePolicy` | `runtime_policy.rs`, the executor's receipts | |
| `GitHub` | `github.rs`, `github_webhooks.rs`, the readers in `admission.rs`, `build_jobs.rs` and `compatibility.rs` | |
| `Approvals` | `portfolio_drafts.rs`, `portfolio_preview.rs`, `portfolio_approval.rs`, the activation of `releases.rs`, the queueing of `portfolio_publish.rs` | |
| `BuildsProofs` | the theorems about `Builds` and `BuildWorker` | `BuildWorker`, `TLAPS` |
| `PortfolioProofs` | the theorems about `Publications` and `Approvals` | both, `TLAPS`, `SequenceTheorems` |
| `ReleasesProofs`, `TenantDatabasesProofs`, `AdmissionProofs`, `RuntimePolicyProofs`, `GitHubProofs` | the theorems about the module named | that module, `TLAPS`, the theorem modules |
| `MC…` | constants, symmetry sets and small instances for TLC | the module named |

Shared conventions. A variable is a table (a function from ids to rows) or something outside PostgreSQL (a file, a
process, a machine). Every handler is one action unless something can happen in the middle of it that matters; then
its steps are actions and the open transaction, with the lock it holds, is a variable. Time is what a lease has
left, in ticks (or just *live* and *lapsed*), so no clock needs a bound. A digest or a fence is replaced by what it
identifies when the code keeps that correspondence. `Mutant:` in a comment marks a definition that is a
deliberately wrong form of the one below it; nothing in the specifications uses it.

### Jobs

`jobs`, `attempts`, `effects` and `replays` are the tables; `order` is `created_at`; `txn` is the transaction that
holds a job's row; `dead` are crashed workers and `answers` is a history of the completions answered 200.
`CreateJob` and `CancelJob` include the idempotency record and the If-Match test; `LeaseJob` takes the oldest
claimable row that is not locked (`FOR UPDATE SKIP LOCKED`); `RenewLock`/`RenewCommit` and
`CompleteLock`/`CompleteCommit` are the two transactions that read the clock, between whose steps time passes;
`CompleteReplay` is the branch that answers a repeated completion; `ReapExpired` is the reaper's transaction. A
worker may send any request about any attempt it was ever given, at any time and any number of times: nothing
assumes that workers behave.

### Builds and BuildWorker

`Builds` has the same shape with other rules: a row keeps `cleanup`, an attempt keeps `launched` (credentials were
resolved), a receipt keeps what a completion said, `usage` and `debits` meter seconds. A live request tests and
locks in one statement. When the row is taken it waits (`Join`) and is woken (`Wake`), repeating its test only if
the row changed meanwhile, as PostgreSQL's READ COMMITTED does: this is why a lease that ran out during the wait is
still accepted. `LeaseClaim` and `LeaseGrant`/`LeaseYield`/`LeaseStale` are the two looks of the lease, before and
under the account's row lock.

`BuildWorker` extends it with the one worker process (its program counter, whether it waits for an answer, its
fenced flag) and the machines that exist. Requests of other origins (owner, reaper, time) are the steps of `Builds`
unchanged; a step of the queue that answers the worker moves the worker too. A request may be given up on
(`GiveUp`) while its transaction goes on. A killed worker leaves its machine to systemd. A machine whose command was
terminated may run on although the report confirms its cleanup (`MachineEnds`), because the results of the two kills
are ignored (`vm.rs:736`) and the report always says that the machine exited (`vm.rs:296`); systemd ends it
(`UnitStops`).

### Publications

One account's site. `staging`, `artifacts` and `pointer` are the file system, where a tree is whole, torn or
absent; `handler` is a completion request inside control between its awaits; `worker` the publisher process of an
attempt; `reconciler` the reaper. `InstallArtifact` moves a tree that the worker and the next lease may be
deleting. A deletion works on an open directory: begun in staging (a worker's state `removing`, or the lease's
cleanup), it may stall and go on to tear the tree wherever it has been renamed to (`WorkerTears`, `LeaseTears`), so
`origin` keeps which attempt an artifact came from. A completion goes on whether or not its worker still waits for it.
`PreparePromotion`, `SwitchPointer` and `CompleteFinalizes` are the three commits of a promotion;
`ReconcileReads`, `ReconcileSwitches` and `ReconcileFinalizes` do the last two for a promotion that is found
pending.

### Releases

`recs` and `attempts` are reconciliations and their attempts, `route` the routes in PostgreSQL, `gateway` the file
that is served, `owner` an open request, `worker` the process of each fence, `migrations` the migration of a
release and its operation, `lost` what made a release ineligible. `Lease` contains the expiry of all lapsed leases
and the choice of the oldest candidate, in one transaction that fails as a whole when that candidate is not
eligible; `LeaseExpires` is the lease that finds no candidate. Completions are one action a phase. `SwitchTests`
and `SwitchReplaces` are two steps, because the coordinator tests the generation and replaces the file without a lock.
What a release may lose (`Lose`) is its health, its evaluation, its secrets, the archive its migration was tried on, or
`facts`: the refresh of the portfolio's facts inside the activation fails and rolls it back, on every retry
(`releases.rs:2020`, section 6).

### TenantDatabases

One database. `ops` and `before` are the operation queue, `archives`, `recoveries`, `migrations` and `database` the
rows operations are about; `tenant`, `clones` and `objects` are what exists outside PostgreSQL; `worker` the
processes. A worker resolves credentials, changes the outside world, then reports; sealing a backup is
`DumpAndFind`, `LinkObject` (a hard link that fails if the file exists), and the read-back of the final path:
`VerifyObject`, or `VerifyFails`, which removes the file, whoever linked it. `removed` is a history of the files that
an attempt without its lease removed that way. `CompleteSuccess`
applies the report to the operation's subject and queues what follows from it; `CompleteFailure` has the retriable
and the final outcome. The policy clock moves in days.

A lease takes the oldest eligible operation (`Oldest`). `before` is the order of `created_at`, which is the time of
the *transaction* (`migrations/0006_m3_execution.sql:419`, `tenant_databases.rs:1250`): operations that one
transaction inserts, such as the observation and the backup of a day, are not ordered, and either may be leased first.

### Admission

`projects`, `deployments` and `intents` are the graph, `holds`, `reservations` and `refunds` the ledger,
`entitlements`, `pool` and `usage` the limits and what is metered against them. Holding, admitting (initial or
rollout), the sweeps that expire holds, resource observations, proofs, intents, debits and credits are one action
each: whatever takes capacity locks the project, the entitlement and the pool before it decides, and whatever gives
it back needs fewer of them. Every transaction that counts holds
first expires the lapsed ones it can see, which is why `Swept` and `Refunded` are part of several actions. Limits
may be changed at any time, to whatever the code accepts, the limit of build seconds included; seconds are debited
under that limit by `record_build_usage` (`Debit`) and without a test by builds (`BuildDebit`). `database` is the reservation a tenant database was
provisioned under, because its worker reports resources too.

### RuntimePolicy

One reservation. `intents`, `probes` and `evaluations` are the evidence, `allocations` and `observations` the
runtime's rows, `receipts` what the executor wrote, in its order; control may record them late and again. Resolving
an evaluation's credential is three steps (`requests`), because the code reads the scope, stores the intent and
marks it with other transactions in between; everything else locks what it decides on. The reservation and the
database change underneath (`SlotReleased`, `DatabaseChanges`).

### GitHub

A transaction is a process with a *program*: the locks it takes in their order, the unlocked read of the owner's
token and the question to GitHub. `tx` holds where each is, what it read and whether that is still current, so that
lock waits, lock cycles and stale reads are all visible. A transaction asks GitHub with the token it
read, even when another was stored meanwhile; a bind stores the installation as GitHub described it then. A revocation
locks the installation only when the account has a binding, as the code does. GitHub itself (external) is what it grants and the tokens
that work; a withdrawal sends a notice that is delivered late and in any order. Deliveries, discovery, binding,
resolving, reading and connecting are the commits of those programs. What a transaction asks GitHub may be untrue
an instant later: `DenialHeard` says why that is harmless.

### Approvals

Every transaction of the portfolio locks the account first, so each handler is one action and only their order is
at stake. `held` is the review in the owner's browser, which is compared as a whole when it is approved
(`ReviewHolds`). `ActivateReconciliation` is the commit of a promotion or rollback with the refresh inside it;
`refused` records that the database rolled one back. A document is the value it shows of each field and the
approval it came from.

## 3. Runs

Every run ends within five minutes with two TLC workers; the instances have between 18,000 and 1,900,000 distinct
states, the violation fewer. `CHECK_DEADLOCK FALSE` is used throughout, because a bounded system legitimately runs
out of work: every job settled, every document published. That nothing is left undone is what the liveness
properties say.

### Passing

**jobs** (`MCJobs.cfg`): one job, two workers, three attempts (the code's own limit), two idempotency keys, leases
of two ticks. Jobs meet only in the choice of the oldest claimable row, so one job reaches every protocol state;
two workers are needed for a late request to meet another's attempt; two ticks so that a renewal can matter.
Invariants: `LockHolds` (whoever passed its live check still holds the attempt at its commit), `OneLiveAttempt`, `EffectOfLastAttempt`, `AnswersHold`. Action properties: `SettledForever`,
`LapsedIsLost`. Refinement: `ImplementsWorkQueue`. Liveness: `EventuallySettled`.

**builds** (`MCBuilds.cfg`): two builds of one account, of which one gets every request, late, repeated or queued
for its row, and the other only competes for the slot; two attempts, so that one is not the last. `MeterExact`
(a build's reservation, usage and debit events), `ReceiptsTellTruth` (receipts and effects), `LostAfterLaunchIsFinal`,
`LapsedMovesOn`. Any request may come at any time: nothing is assumed of the worker.

**worker** (`MCBuildWorker.cfg`): the worker process against two builds of an account, with crashes and requests
given up on (which is how two leases come to race), two attempts. `SlotHeldUntilReported` (one active build an
account, and a machine keeps its build there until its own worker reports it gone, rightly or not), `LaunchIsFinal`. The second does not hold of `Builds` alone, which accepts any
completion: it needs the worker.

**publications** (`MCPublications.cfg`): two documents, the newer one leased twice, with lapses, crashes at every
await, and deletions racing moves. Two publications are what a supersession or an overtaking takes; two leases what
a leftover staging tree takes. `OnlyItsWorkerTears` (what may be served is whole, but for one way to tear it:
section 6), `RowsAgree`, `LiveInOrder`, `PromotionFinishes` (a prepared promotion is published, unless its artifact
was torn).

**releases_route** (`MCReleases_route.cfg`): three releases of one project with one retained predecessor, so that a
release is retired; five reconciliations, so that promotions and rollbacks follow each other; three leases each, so
that a coordinator whose lease is gone replaces the file after another's activation; two faults.
`GatewayServesPrepared` (what is served is routed, about to be, or was), `RoutedIsHealthy`, `OneAttempt`.

**releases_migration** (`MCReleases_migration.cfg`): the third release carries a migration that may have been
planned before the second was promoted; four attempts and five leases, enough for both hand-overs and two faults;
archive, facts and secrets may be lost. `AppliedWasValidated`, `PreparedActivates` (a prepared route is activated,
unless `Hindered`: by what its project's releases have lost, or by an older candidate that is refused).

**databases** (`MCTenantDatabases.cfg`): one database over two days, two workers, one migration, an export,
backups, expiry, a weekly drill, two attempts and one fault at any point. Retention is 0 days so that a backup
expires within the two. A failed read-back of an attempt that holds its lease is that fault; one of an attempt that
lost it may happen at any time. Owners and releases ask for something only while fewer than `MaxQueue` operations are to do
(one here); the scheduler and the operations that follow from a report are not held back. Two archives exist.
`UsableRestores`, `MigratedOnce`, `SuccessIsRecorded`, `OperationsSettle`.

**admission** (`MCAdmission.cfg`): two projects of one account whose limits and pool have room for one slot or two,
two configurations and two deployments a project, one of which is explored in full, two holds, limits that change.
`LimitsHeld`, `HoldsAccounted`, `ReservedIsShown`.

**runtime** (`MCRuntimePolicy.cfg`): two artifacts, two evaluation intents, two allocations with two receipts each,
evidence that covers one artifact or both, passing or not. `IntentConsumedOnce`, `AllocationJustified`,
`ObservationsConsistent`.

**github** (`MCGitHub.cfg`): any two transactions at a time, two OAuth attempts, one repository bound twice, and two
changes at GitHub whose notices arrive in any order; processes are symmetric. Two transactions are
what a deadlock or a stale read takes; a withdrawal and a second notice what an overtaking takes. The second attempt
begins once the first one's token has lapsed or been revoked, also while the revocation's notice is still under way,
so that an attempt older than the notice's handling completes after it. `MaxEarly`, the attempts begun before the
first connection, is 1; with 2 the properties were also checked in longer runs, for one user with two notices
(2.9 million states) and for two users with one (2.7 million). `ReadHolds`, `ActiveIsAuthorized`, `DenialHeard`, `NoDeadlock`.

**approvals** (`MCApprovals.cfg`): three drafts, two approvals with every refresh scope, three activations over two
releases (so that a rollback to the first is one of them), one requested publication beside the automatic ones.
`PublishedWasApproved`, `FactsFollowRoute`, `PublicationFollowsRoute`.

### Violation

**publications_served** (`MCPublications_served.cfg`) `CurrentIsServed`: the code does something else than the
repository says; section 6 tells what.

### Fairness

Weak fairness (WF) of an action: it is not enabled for ever without being taken. Strong (SF): nor is it enabled
again and again.

| Specification | Assumed | Why |
|---|---|---|
| `Jobs!FairSpec` | WF of `Tick`; per job, WF of `ReapExpired`, of commit-or-rollback, of a lease by some worker | the clock runs; `foundation.rs` starts the reaper every second; PostgreSQL ends a transaction; a worker that is up polls. `EventuallySettled` further assumes that renewals of the job stop and that some worker stays up: a worker may renew for ever, and nothing forbids it |
| `Builds!FairSpec` | WF of `Tick`, `Reap`, `Wake`, commits and rollbacks | as above; no worker need do anything |
| `BuildWorker!WFairSpec` | WF of the worker's step (the answers to its requests included), of the machine's end, of time and of the reaper | for `CanceledIsAcknowledged` (section 6), of a worker that stays up and meets no fault: a machine has a time limit, and every request is answered |
| `Publications!LiveSpec` | SF of the reconciler's read, switch and finalize | it runs every second; one that stops is started again, so only repeated opportunity can be assumed |
| `Releases!LiveSpec` | SF of leases and activations; WF of a worker's steps, of an abandoned lease's lapse, of open requests, of database operations | workers poll every two seconds and are restarted; row locks are granted in turn. Owners are not assumed to do anything |
| `TenantDatabases!FairSpec` | WF of "some worker polls or works", and of "some lease nobody renews runs out" | commands have timeouts and the service manager restarts workers |

## 4. Proofs

TLC checks the instances above; the theorems below hold for every value of the constants that satisfies the
assumptions named in the module (`ASSUME`). Those say only what the code's own types and limits say: a limit is a
natural number, a row that is no row is different from all rows, a release has a project. Each proof module states
its inductive invariant first, then lemmas about rows and operators, then one lemma or step per action, then the
theorems.

### Jobs

For every set of jobs, workers, keys and payloads, every attempt limit and every lease length (`NoWorker` is no
worker; `MaxAttempts` and `LeaseSeconds` are positive naturals):

| Theorem | States |
|---|---|
| `TypeCorrect` | `TypeOK` always holds |
| `EffectSafety` | a job's effect exists exactly when it succeeded or failed, and is its last attempt's under its current fence |
| `AnswerSafety` | an attempt is answered 200 for one outcome only, the recorded one |
| `LiveAttemptSafety` | a job has one running attempt exactly while it runs, and the two expiries agree |
| `LockSafety` | whoever passed its live check still holds the current attempt when it commits |
| `StrandingSafety` | no job waits where no lease can claim it |
| `ReplaySafety` | the replay branch of `complete_job` always finds a body it can decode |
| `SettlingIsFinal` | settled jobs, their effects and closed attempts never change |
| `LapsedSafety` | nothing a worker sends revives a lease that has run out, and nothing is answered for it |
| `Refinement` | `Jobs` implements `WorkQueue` |

None of the safety properties is inductive alone. `EffectOfLastAttempt` needs to know that the attempt a completion
closes is the last one, which is what `LiveIsCurrent` and the order of fences say; `AnswersHold` needs that a
closed attempt is never closed again, which is what makes a lock taken on a live attempt still good at commit. The
inductive invariant `IInv` is `TypeOK`, `AnswersHold` and, for each job, `JobOK` of that job's rows, its effect and
its lock: the constraints migration 0003 puts on a row (`RowConstraints`), `LiveIsCurrent`, `FencesOrdered`,
"waiting implies claimable", `EffectOfLast`, `Decodes`, and "a lock implies `Holds`". Stating it about one job's
rows, not about the tables, is what makes the proof short: the lemmas `CreateKeeps`, `LeaseKeeps`, `LeaseSetKeeps`
(renewal and time) and `LeaveKeeps` (every way out of running or waiting: completion, cancellation, reaping) are
about rows only, and each action of `NextIInv` applies one of them to the job it moves and copies the rest.
`SettledStep` follows from `IInv` in the same way and `LapsedStep` from the types; `NextRefines` maps each action to
a step of `WorkQueue` or a stutter with `Status`, `Owner` and the attempt count as the refinement mapping.
`LockSafety` states `LockHolds`, a part of `IInv`.

### Builds and BuildWorker (`BuildsProofs`)

For any builds and accounts, attempt limit, lease lengths and reservation. Of the queue, with any request
at any time: `ReceiptSafety`, `LostLeaseSafety`, `SlotSafety` (an account never has two active builds),
`MeterSafety` (`MeterExact`: seconds are reserved exactly while they may be billed, and close at exactly what the
last attempt's one debit event bills, at most what was reserved). That an account stays within its allowance is not
claimed: other handlers debit the same meter and lower its limit (section 6). Also
`ClosedForGood`: a decided build keeps its outcome, its fence and its attempts, one whose cleanup is confirmed keeps
its bill too, and a receipt is written once, whichever requests of former attempts still arrive.
Of the worker against it, with crashes, abandoned requests and machines that outlive their report: `MachineSafety`
(`SlotHeldUntilReported`), `LaunchSafety`, and
`WorkerIsQueueClient`, `WSpec => Spec`, through which the queue's theorems hold of the composition.

`QueueInv` says of each build what its row, attempts, meter and lock are like (`BuildInv`) and that accounts have one
active build. The part a reader may not expect is `LockInv`: a request that waits for the row has found its attempt
current *and it still is*, unless a commit has told it to look again. That is what makes the test before the wait good
enough, although the lease may have run out. `WInv` adds what the worker knows (`WorkInv`), that a completion it sent
stays true while it travels (`SentInv`), and that a machine or a bill implies a launch, which is the last attempt
(`LaunchInv`). Without `SentInv` the induction cannot rule out a late completion that frees the slot of a machine nobody
has reported gone.

The sum of a build's debit events is stated as a cardinality, of the set of its billed seconds (`Billed`: an attempt
and a second of it); `FiniteSetTheorems` says what a step does to it, where a fold would need an induction over data.

### Publications (`PortfolioProofs`)

For any number of documents and leases: `RowsAlwaysAgree`, `AlwaysLiveInOrder`, `ServedTornOnlyByItsWorker`. `IInv`
has a part about the rows and one about the files. In the rows (`DatabaseInv`), a pending promotion is of the next
generation and newer than anything published (`PromotionInv`), and what an open lease cleans up for stays its candidate
(`QueueInv`). For the files (`FilesInv`), `CompletionInv` says how far a completion may be, given the trees. A lease
that follows a lapsed one deletes under a completion that then fails its test of the row; a worker that gave up deletes
under a completion that goes on, and that is the exception `OnlyItsWorkerTears` names. The theorem says that there is
no other: no lease, no other attempt and no other publication's worker tears what may be served.

Two statements are about steps: `DecidedForGood`, a published or failed publication stays so and a prepared promotion
is never withdrawn; `LiveSiteAdvances`, the site's row moves only to a newer document, by one generation and after the
pointer, although a completion and the reaper may both finalize the same promotion.

### Releases (`ReleasesProofs`)

For any projects, releases, migrations, attempt limit, retention, reconciliations, leases and faults:
`AlwaysOneAttempt`, `AlwaysRoutedIsHealthy`, `AlwaysAppliedWasValidated` and `AlwaysServesPrepared`
(`GatewayServesPrepared`), with the switch's test and replacement apart as they are in the code. That the gateway's
route is not *older* than the durable one is false (section 6); `HolderNeverReverts` says who can make it so: only a
coordinator whose reconciliation was activated by another attempt meanwhile, never one that still holds its lease.

`ReleasesInv` has a part each for attempts, reconciliations, migrations, open requests, routes, workers and the
gateway. `GatewayServesPrepared` needs that a prepared reconciliation expects the route's present generation
(`RecInv`), that one reconciliation of a project is active (`OneActive`), and that whoever got to the switch works on
one that is prepared or done (`WorkInv`). `AppliedWasValidated` needs that nothing else can be promoted between
validation and application, which is `OneActive` again.

`SettledForGood` (a reconciliation that ended, and its closed attempts, keep their rows), `RoutesAdvance` (a route
changes by one generation, and only to a release prepared for the generation it replaces) and `GoneForGood` (a failed
or retired release stays so) are about steps. The last needs more than `ReleasesInv`: a rollback asked for while its release was healthy may be inserted after the release
was retired. `FinalInv` says that a lease is held exactly while somebody may work for it, and that nobody works for a
release that is gone: the lease refuses such a reconciliation, so that none activates it.

### Admission (`AdmissionProofs`)

For any accounts, projects, limits, deployments and holds: `LimitsAreHeld`, `HoldsAreAccounted`, `ReservationIsShown`.
`AdmissionInv`: one unreleased reservation a project, which the project shows (`SlotInv`); a hold is spent once, for
one reservation or one refund (`HoldInv`, `LedgerInv`); what is counted is finite (`Countable`), since limits are about
cardinalities; `LimitsHeld`, which is about slots, holds and the pool and not about build seconds (section 6). A limit
may be lowered under what is in use, so a step is shown to add to a count only
where the code has just compared it.

### Runtime policy (`RuntimePolicyProofs`)

For any artifacts, evidence, open requests, allocations and receipts: `ConsumedOnce`, `AlwaysJustified`,
`AlwaysConsistent`. `PolicyInv` relates intent, probe and evaluation of a subject (`IntentInv`), says that a credential
request between two statements finds its intent (`RequestInv`) and that the lists match (`ListsAgree`).

### GitHub (`GitHubProofs`)

For any number of transactions, users, attempts, repositories, bindings and notices: `NeverDeadlocks`, `ReadsHold`,
`DenialsHeard`, `AlwaysAuthorized`. `GitHubInv`: each transaction is at a place of its program and what it found is
still so from the lock on (`TxsOK`); no two hold locks that exclude each other (`LocksOK`); at most one active binding,
under an authorization and an installation that allow it (`ActiveOK`); whatever GitHub withdrew of it has its notice
still to come (`HeardOK`, and for a bind that asked and has not committed, `BindInv`). Deadlock freedom needs no search
for cycles: every program takes locks in one order (`Rank`), so that among the transactions that wait in a circle the
one that waits for the highest rank would wait for one that holds it and waits for a higher.

### Tenant databases (`TenantDatabasesProofs`)

For any workers, migrations, exports, days, retention, attempts, archives and faults: `TypeCorrect`; `MigrationSafety`
(`MigratedOnce`); `SuccessSafety` (`SuccessIsRecorded`); `SettledForGood`, that no late report, lease, expiry or
scheduler pass changes an operation that succeeded, failed or was canceled; and `RestoreSafety` (`UsableRestores`).

`TenantInv` is `TypeOK`, `MigratedOnce` and two more parts. `RowsInv` says how each row answers for the operations
about it: an archive's row exists exactly when its backup operation does, is usable or deleted exactly when that
succeeded, and is expired before anything deletes it; a migration has a live operation exactly from its validation
on. Without it `SuccessIsRecorded` is not inductive: a completion finds its row in the state it expects only because
the row and the operation are created together and no other operation moves it. `WorkerInv` says what a process that
is about to report has done: a worker that says a migration was applied has it in the tenant's database, even if its
lease is gone.

`FilesInv` adds what the repository holds. `FileInv`: whatever a file holds ran in the tenant before it was sealed, so
a backup that a migration was planned with cannot contain it, since a migration reaches the tenant only after its
plan. `BackupInv`: a backup about to be reported is on disk with its digest or among the `removed` files, unless its
archive has since been expired, and an expired archive is not offered for a restore. `AttemptsInv` says that
every attempt was leased to one worker: the attempt that recorded a backup is past its read-back, and whoever else reads
the file is late. What is left is an attempt without its lease whose read-back of that very file fails:
`archive.rs:268` removes the file then, although another attempt linked and reported it (section 6).
`UsableRestores` names that case, and `RestoreSafety` says that nothing else loses a usable backup.

### Approvals (`PortfolioProofs`)

For any drafts, releases and destinations and any number of approvals, activations and publications: `AlwaysApproved`,
`AlwaysFactsFollow`, `AlwaysPublicationFollows`. `ApprovalsInv`: a review has a fact exactly when its body uses one, also
the review that is open in a browser (`FactsOK`, `HeldOK`); a fact revision differs from the reviewed fact only where
the owner's scope lets it; readiness is of the release of the latest fact (`ReadyOK`); a document names an approval and
a fact that exist and shows only what that approval or its scope allows (`PublicationsOK`). The definitions of
`Approvals` that a reader expects as `Init`, `Next`, `Spec` and `TypeOK` are `ApprovalsInit`, `ApprovalsNext`,
`ApprovalsSpec` and `ApprovalsTypeOK`, so that one proof module can extend both halves of the portfolio.

About steps: `FactsOnlyAdvance`, an approval is never changed, and its facts gain one revision at a time, of the
release routed by then, never one they had before and with times that do not go back; `DocumentsOnce`, a document that
was queued for the public stays and is queued once. That times do not go back rests on `FactsFollowRoute` and on
`TimesInv` (no activation is ahead of the clock): a field the scope covers shows the present route's time, so a
refresh with a later one, or the same, cannot be older.

### What proving changed

Attempts that failed for a good reason, and the corrections they led to:

- `GitHub` asked with the stored token; the code asks with the token the transaction read before it locked
  (`github.rs:727`, `github.rs:933`). The two differ when two first connections overlap, because both store revision 1
  (`github.rs:518`). A transaction now keeps the token.
- `Releases!LeasePhase` and some choices in `GitHub` were `CASE`s with overlapping guards, which in TLA+ leave open
  which one is meant; they are now `IF`s in the order of the code.
- `TenantDatabases` kept the queue as a sequence, which ordered the operations that one transaction creates; their
  `created_at` is equal and the lease orders by nothing else, so either may be first. The order is now a relation
  (`before`). The bound on the queue held back the scheduler, which the code never does; it now bounds requests only.
- `Approvals` relied on `NoRelease` not being a release without assuming it; `GitHub` had a bound without a name
  (`MaxEarly`).

### Only model-checked

Liveness and whatever rests on ENABLED (`EventuallySettled`, `LapsedMovesOn`, `PromotionFinishes`,
`PreparedActivates`, `OperationsSettle`), which are outside the prover. Every other property of the passing runs is
also a theorem.

## 5. Bounds

Constants that are the code's own limits (`MaxAttempts`, `Retained`, `Reserved`, lease lengths, `Retention`) are
scaled down, never removed: the last attempt, the last second and the oldest release are reached in every run that
is about them. Bounds that the code does not have are marked `bound:` in the modules: `Served` and `Faults`
(builds), `MaxDocs` and `Leases` (publications), `MaxRecs`, `MaxFence` and `Faults` (releases), `Horizon`,
`MaxTrouble`, `MaxQueue` and `MaxArchives` (databases), `MaxConfigs`, `MaxDeployments`, `MaxProofs`, `MaxHolds` and
`Explored` (admission), `MaxAllocations` and `MaxReceipts` (runtime), `MaxBindings`, `MaxNotices` and `MaxEarly` (GitHub, where
nothing changes before the first connection, nothing but the handling of notices begins once the last binding is
made, and the owner connects again only when the connection no longer works), `MaxDrafts`, `MaxApproved`, `MaxActivations` and `MaxPublications` (approvals). `Jobs` has none: a finished instance has finitely many attempts and leases count down.

## 6. Where the code and its documents disagree

With a run:

1. *An old artifact may be put back* (`publications_served`, `portfolio_publish.rs:593`). The reaper reads a
   pending promotion without a lock and may switch the pointer after a newer publication went live; nothing repairs
   it. `docs/M3-SCENARIOS.md:249`.

Stated in a module and refuted by TLC when checked there, without a run of their own:

2. *A canceled build may never be acknowledged* (`CanceledIsAcknowledged` in `BuildWorker`, under `WFairSpec` with
   one build, one attempt and no faults; `project_build.rs:160`). Only the renewal thread beside the machine
   notices a cancellation in a way that leads to `cancel:ack`; a build canceled before or after keeps its account's
   slot. `docs/M3-BUILD-WORKER.md:108` says the worker acknowledges after fence loss.
3. *One ineligible reconciliation blocks all projects* (`ExpiredIsRetried` in `Releases`, under `LiveSpec` with two
   projects of one release each and `Losses = {"secrets"}`; `releases.rs:212`). The lease that finds it rolls back,
   the expiry of others' leases included, and finds it again. `docs/M3-RELEASE-CONTRACT.md:246` says "Expired
   running leases become retriable and receive a higher fence."
4. *An applied migration may not be finished* (`AppliedIsFinished` in `Releases`, with two releases of one project,
   the second migrating, six attempts and one fault; `releases.rs:282`). The phase is derived from a state the
   lease overwrites; after a lost attempt the next one gets phase `standard`, in which no completion is accepted.
   `release_worker.rs:335`, `docs/M3-RELEASE-CONTRACT.md:199`.
5. *A rollback may be refused for ever* (`ActivationCommits` in `Approvals`, with the constants of the run;
   `portfolio_approval.rs:1256`). When the latest approval was made on r1 with a refresh scope that moves no time,
   promoting r2 and rolling back to r1 appends a fact revision that exists already, which the UNIQUE constraint at
   `migrations/0006_m3_execution.sql:832` refuses; the activation is rolled back with it on every retry, after the
   gateway has switched. `docs/M3-APPROVAL-CONTRACT.md:124` says that every activation invokes the refresh.

Met while modelling, in the models but without a run of their own:

- A build's lease that ran out while a request waited for the row is accepted (`build_jobs.rs:1306`;
  `docs/M3-BUILD-CONTRACT.md:36` says the expiry is checked after locking): `LiveWhenLocked` in `Builds` is false.
- A worker whose completion request fails or times out removes its staging tree (`publisher/src/worker.rs:343`),
  while the completion may go on inside control: the open directory may be renamed to the artifact, be validated whole
  (`portfolio_publish.rs:1236`) and lose its files afterwards, pending or served (`docs/M3-PUBLISHER-CONTRACT.md:87`).
  The exception in `OnlyItsWorkerTears` is this case. A pending promotion whose artifact was torn is refused by the
  reaper's validation on every pass and holds up the account's later publications, which is why `PromotionFinishes`
  excepts it.
- With the switch's test and replacement apart, a slow worker may install an older route
  (`hostlet-release-coordinator.py:288`; `docs/M3-RELEASE-CONTRACT.md:247`): `GatewayNotStale` is false.
- A prepared promotion may be refused again and again, after the gateway has switched: by a revoked
  secret (`releases.rs:1962`), by an evaluation that ran out (at the lease), by a refresh of facts that fails inside the activation (`releases.rs:2020`, see
  5), or, while leases are refused, by another project's older candidate (see 3). `Hindered` lists these, and
  `PreparedActivates` says there is nothing else.
- A machine may outlive the report that confirms its cleanup: `terminate` ignores whether `systemctl kill` worked and
  otherwise kills its own client only (`vm.rs:736`), and the report says `qemu_exited` all the same (`vm.rs:296`), so
  that the account's slot is free while the unit runs to its `RuntimeMaxSec`. `SlotHeldUntilReported` says that nothing
  less than such a report frees it.
- Build seconds may exceed the account's limit. A completion, an acknowledgement and the reaper debit what a build
  reserved without a test (`build_jobs.rs:1923`, `build_jobs.rs:2293`, `build_jobs.rs:2389`), `record_build_usage`
  debits the same meter without counting reservations (`admission.rs:1172`), and lowering the limit compares it with
  debits and credits only (`admission.rs:729`).
- A reconciliation that waits for its migration on its last attempt is never leased again (`releases.rs:221`):
  `AwaitingResumes` is false.
- Tenant databases: a retriable provisioning failure marks the database failed and a later success is refused
  (`tenant_databases.rs:2792`); a repeated expiry of an archive fails where `docs/M3-DATABASE-CONTRACT.md:98`
  promises a replay (`archive.rs:417`); a freeze whose report was lost is refused for ever once the database
  shrinks (`tenant_databases.rs:2502`); a live migration is applied without testing the data generation it was
  validated with (`worker.rs:599`); a failed read-back of an attempt that lost its lease removes a file that another
  attempt has recorded (`archive.rs:268`), the exception in `UsableRestores`; a late provisioning grants writes again after
  a freeze (`postgres.rs:205`; `docs/M3-DATABASE-CONTRACT.md:74` calls the freeze sticky); operations that exhaust
  their attempts leave the row they are about unfinished.
- Admission: a rollback hold of a healthy deployment can be made but not consumed (`admission.rs:1764`;
  `docs/M2-SCENARIOS.md:229`), life-cycle intents are never completed, and a removal requested before admission
  leaves `release_pending` with nothing to observe. A late provisioning report shows a slot of a reservation that
  was released meanwhile (`tenant_databases.rs:2796`; `docs/M2-API.md:512` calls the reservation epoch a generation
  fence), which is why `ReservedIsShown` speaks of the current one.
- Runtime: a healthy receipt that arrives late is recorded after a newer `backoff` (`runtime_policy.rs:1410` does
  not compare observation times; `docs/M3-RUNTIME-E2E.md:104`); the receipts the runtime's own restart decision
  writes are never accepted as `backoff` (`docs/M3-RUNTIME-CONTROL.md:200`); the reason
  `runtime_cleanup_incomplete` passes validation and not the table's CHECK.
- GitHub: two first connections at once leave one user's row with the other's token and revision 1; a connection
  whose token was revoked before its row existed stays active with a dead token (`github.rs:515`); the expiry of an
  authorization does not compare its revision and may expire a renewed one (`github.rs:1103`); a discovery that
  stores `selected` before the notice of that switch arrives hides that the notice was ambiguous; the binding of a
  build's source is compared and not locked, so that deleting the source may commit first.
- Approvals: a refresh follows the latest approved revision and not the published one, so a page published from an
  older approval keeps its readiness when another release is activated (`docs/M3-APPROVAL-CONTRACT.md:139` says a
  new release appends `needs_recheck`), which is why `PublicationFollowsRoute` speaks of publications of the latest
  approval; an activation publishes an approval that the owner has not asked to publish, once a site exists;
  approving the same review with another scope answers with the first; under a fixed policy clock, returning to an
  earlier attestation publishes nothing, because that document has its row already.

The properties named above are kept in their modules for whoever changes that code. The type invariants of all
modules are proved (section 4).

## 7. Not modelled

Request validation, audit rows, wording and formats; encryption and digests as computations; what runs inside a
virtual machine, a sandbox or a renderer; reads that change nothing. Of the parts that are modelled: the
idempotency records of builds, publications and releases (they refuse a request and change nothing else),
credential rows and project deletion of tenant databases, the detection rules of compatibility reports, the answers
a preview records about compatibility, renewal of a release's lease (it leaves a live lease live), the archive
container, the gateway's request handling. Components without a module are listed in `PROJECT.json` with the
reason.

## 8. Plan

Done, in this order: the job queue with its abstract specification and proofs, because every other queue is a
variant of it; the build queue and, composed with it, its worker; publications and releases, the two protocols that
span PostgreSQL and a file; tenant databases; admission and runtime policy, on which the queues rest; the GitHub
source, where locks and another service's answers meet; approvals, which feed publications.

Next modules:

1. `Secrets`: versions under a revision, replay fingerprints across key versions, resolution for a live attempt,
   composed with `Jobs`.
2. `Recovery`: scheduled backups, retention of verified ones, restore, the upgrade that waits for a verified
   backup.
3. The first milestone's build worker composed with `Jobs`.
4. `Approvals` composed with `Publications`, which takes its documents as given.

Proofs done: the type invariant, the safety invariants and the action properties of every module that a run checks
(section 4).

`Builds` does not implement `WorkQueue`, and no proof of that is planned: `lease` fails a waiting build whose admission
was withdrawn (`build_jobs.rs:1235`), and a completion that asks for a retry is not turned into a failure on the last
attempt (`build_jobs.rs:2302`), which leaves a build waiting that no lease can claim. The worker of this repository
never asks for a retry.

Next proofs: what the run's properties do not cover and a next module would need: `Approvals` composed with
`Publications` and shown to implement an abstract "what is public was approved"; `TenantDatabases` shown to give
`Releases` the database operations it takes as given.
