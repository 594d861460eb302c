------------------------------ MODULE Releases ------------------------------
(***************************************************************************)
(* Promotion and rollback of application releases: the reconciliations of  *)
(* crates/control/src/releases.rs, the release worker that executes them   *)
(* (crates/runtime/src/release_worker.rs) and the route file the gateway   *)
(* serves, which scripts/release/hostlet-release-coordinator.py replaces.  *)
(*                                                                         *)
(* A promotion with a database migration gives its attempt up twice, while *)
(* the database worker tries the migration on a copy and while it applies  *)
(* it to the live database, and takes a new attempt to go on.              *)
(*                                                                         *)
(* One release carries at most one migration and a migration one release.  *)
(* A reconciliation is identified by its place in the order of created_at, *)
(* a lease by its fence, which control raises with every lease, and a      *)
(* route manifest by the reconciliation that prepared it.  promoted_at     *)
(* orders the releases of a project as their route generations do.         *)
(***************************************************************************)
EXTENDS Integers, Sequences, FiniteSets

CONSTANTS
  Projects,
  Home,          \* the project of each release
  Migrating,     \* the releases that carry a migration
  MaxAttempts,   \* MAX_ATTEMPTS
  Retained,      \* successful releases kept besides the current one
  Outcomes,      \* unsuccessful outcomes that a completion reports
  Losses,        \* what a release may lose: see Lose
  MaxRecs,       \* bound: reconciliations requested
  MaxFence,      \* bound: leases of one reconciliation
  Faults         \* bound: crashes, overrun leases, failures and losses

ASSUME BoundsAssumption ==
  /\ Home \in Seq(Projects)
  /\ Migrating \subseteq DOMAIN Home
  /\ {MaxAttempts, Retained, MaxRecs, MaxFence, Faults} \subseteq Nat
  /\ Outcomes \subseteq {"failed", "retriable"}
  /\ Losses \subseteq {"healthy", "evaluated", "secrets", "facts", "archive"}

VARIABLES
  releases,    \* the application_releases table
  migrations,  \* the tenant_database_migrations table and its operations
  recs,        \* the release_reconciliations table
  attempts,    \* the release_reconciliation_attempts table
  route,       \* the project_release_routes table
  owner,       \* an owner's request whose transaction is open
  gateway,     \* release-routes/<project>/current.json
  worker,      \* what the process that got a lease is doing
  lost,        \* what each release has lost
  faults       \* faults so far

vars == <<releases, migrations, recs, attempts, route, owner, gateway, worker, lost, faults>>

-----------------------------------------------------------------------------
(* Rows. *)

Nothing == 0
Release == DOMAIN Home
Rec == 1..MaxRecs
Fence == 1..MaxFence

ReleaseState == {"absent", "staged", "healthy", "failed", "retired"}
MigrationState == {"none", "planned", "trial_prepared", "isolated_validated", "applied", "failed"}
Operation == {"none", "trial", "live", "failed"}
RecState == {"absent", "queued", "running", "awaiting_trial", "awaiting_live_apply",
             "prepared", "retriable", "succeeded", "failed"}
Phase == {"none", "standard", "prepare_trial", "isolated_validation", "post_live_apply",
          "prepared_switch"}
Active == RecState \ {"absent", "succeeded", "failed"}

ReleaseRow == [state : ReleaseState, promoted : Nat]
MigrationRow == [state : MigrationState, operation : Operation,
                 current : Release \union {Nothing}, retained : SUBSET Release]
RecRow == [state : RecState, release : Release \union {Nothing},
           kind : {"none", "promote", "rollback"}, expected : Nat, fence : 0..MaxFence,
           lease : {"none", "live", "lapsed"}, phase : Phase, previous : Release \union {Nothing}]
Attempt == [fence : Nat, state : {"running", "succeeded", "retriable", "failed", "expired"}]
RouteRow == [release : Release \union {Nothing}, generation : Nat]
RequestRow == [kind : {"none", "promote", "rollback"}, release : Release \union {Nothing},
               expected : Nat]

NoMigration == [state |-> "none", operation |-> "none", current |-> Nothing, retained |-> {}]
NoRec == [state |-> "absent", release |-> Nothing, kind |-> "none", expected |-> 0,
          fence |-> 0, lease |-> "none", phase |-> "none", previous |-> Nothing]
NoRequest == [kind |-> "none", release |-> Nothing, expected |-> 0]

Init ==
  /\ releases = [r \in Release |-> [state |-> "absent", promoted |-> 0]]
  /\ migrations = [r \in Release |-> NoMigration]
  /\ recs = [c \in Rec |-> NoRec]
  /\ attempts = [c \in Rec |-> <<>>]
  /\ route = [p \in Projects |-> [release |-> Nothing, generation |-> 0]]
  /\ owner = [p \in Projects |-> NoRequest]
  /\ gateway = [p \in Projects |-> Nothing]
  /\ worker = [c \in Rec |-> [f \in Fence |-> "none"]]
  /\ lost = [r \in Release |-> {}]
  /\ faults = 0

ProjectOf(c) == Home[recs[c].release]
Of(p) == {r \in Release : Home[r] = p}
Healthy(p) == {r \in Of(p) : releases[r].state = "healthy"}
Has(r, thing) == thing \notin lost[r]

\* The route row is locked while a request that found it holds its
\* transaction open; one that found no row locks nothing.
RouteFree(p) == owner[p].kind # "promote" \/ owner[p].expected = 0

\* release_reconciliations_one_active_project_idx
NoneActive(p) ==
  \A c \in Rec : recs[c].state \in Active => ProjectOf(c) # p

-----------------------------------------------------------------------------
(* The owner's requests. *)

\* prepare_migration_trial, once the backup is usable.
PlanMigration(r) ==
  LET p == Home[r]
  IN  /\ r \in Migrating
      /\ releases[r].state = "absent"
      /\ migrations[r].state = "none"
      /\ route[p].release # Nothing
      /\ migrations' = [migrations EXCEPT ![r] =
           [state |-> "planned", operation |-> "none", current |-> route[p].release,
            retained |-> Healthy(p) \ {route[p].release}]]
      /\ UNCHANGED <<releases, recs, attempts, route, owner, gateway, worker, lost, faults>>

\* stage_release up to its reading of the route generation.
StageReads(r) ==
  LET p == Home[r]
  IN  /\ owner[p] = NoRequest
      /\ releases[r].state = "absent"
      /\ \A s \in Of(p) : s < r => releases[s].state # "absent"
      /\ lost[r] \subseteq {"facts"}
      /\ r \in Migrating => migrations[r].state = "planned"
      /\ owner' = [owner EXCEPT ![p] =
           [kind |-> "promote", release |-> r, expected |-> route[p].generation]]
      /\ UNCHANGED <<releases, migrations, recs, attempts, route, gateway, worker, lost, faults>>

\* request_rollback up to its reading of the route row.
RollbackReads(r) ==
  LET p == Home[r]
  IN  /\ owner[p] = NoRequest
      /\ releases[r].state = "healthy"
      /\ Has(r, "healthy") /\ Has(r, "secrets")
      /\ owner' = [owner EXCEPT ![p] = [kind |-> "rollback", release |-> r, expected |-> 0]]
      /\ UNCHANGED <<releases, migrations, recs, attempts, route, gateway, worker, lost, faults>>

\* Mutant: no unique index over the active reconciliations of a project.
MayInsertAlways(p) == TRUE

MayInsert(p) == NoneActive(p)

\* The row that either request inserts, the next one by created_at.
Requested(p, expected) ==
  [NoRec EXCEPT !.state = "queued", !.release = owner[p].release, !.kind = owner[p].kind,
                !.expected = expected]

NextRec == CHOOSE c \in Rec : recs[c] = NoRec /\ \A d \in Rec : d < c => recs[d] # NoRec

StageInserts(p) ==
  /\ owner[p].kind = "promote"
  /\ MayInsert(p)
  /\ \E c \in Rec : recs[c] = NoRec
  /\ releases' = [releases EXCEPT ![owner[p].release].state = "staged"]
  /\ recs' = [recs EXCEPT ![NextRec] = Requested(p, owner[p].expected)]
  /\ owner' = [owner EXCEPT ![p] = NoRequest]
  /\ UNCHANGED <<migrations, attempts, route, gateway, worker, lost, faults>>

RollbackInserts(p) ==
  /\ owner[p].kind = "rollback"
  /\ route[p].release \notin {Nothing, owner[p].release}
  /\ MayInsert(p)
  /\ \E c \in Rec : recs[c] = NoRec
  /\ recs' = [recs EXCEPT ![NextRec] = Requested(p, route[p].generation)]
  /\ owner' = [owner EXCEPT ![p] = NoRequest]
  /\ UNCHANGED <<releases, migrations, attempts, route, gateway, worker, lost, faults>>

\* Either request is refused and its transaction rolled back.
RequestRefused(p) ==
  /\ owner[p] # NoRequest
  /\ \/ ~NoneActive(p)
     \/ owner[p].kind = "rollback" /\ route[p].release \in {Nothing, owner[p].release}
  /\ owner' = [owner EXCEPT ![p] = NoRequest]
  /\ UNCHANGED <<releases, migrations, recs, attempts, route, gateway, worker, lost, faults>>

-----------------------------------------------------------------------------
(* Leasing a reconciliation: one transaction, rolled back when the oldest  *)
(* candidate is refused.                                                   *)

Last(c) == Len(attempts[c])
Ends(c, state) == [attempts EXCEPT ![c][Last(c)].state = state]

Lapsed(c) == recs[c].state = "running" /\ recs[c].lease = "lapsed"
Exhausted(c) == Last(c) >= MaxAttempts

\* fail_migration_reconciliations
MigrationFailed(c) ==
  /\ recs[c].state \in {"awaiting_trial", "awaiting_live_apply"}
  /\ migrations[recs[c].release].operation = "failed"

\* Only a promotion's own candidate fails with it.
FailsRelease(c) == recs[c].kind = "promote" /\ releases[recs[c].release].state = "staged"

Finished(c, state) == [recs[c] EXCEPT !.state = state, !.lease = "none"]

\* expire_reconciliations and fail_migration_reconciliations.
AfterExpiry(c) ==
  CASE Lapsed(c) -> Finished(c, IF Exhausted(c) THEN "failed" ELSE "retriable")
    [] MigrationFailed(c) -> Finished(c, "failed")
    [] OTHER -> recs[c]

ExpiredAttempts(c) == IF Lapsed(c) THEN Ends(c, "expired")[c] ELSE attempts[c]

\* The staged releases that fail with their reconciliations.
AfterExpiryReleases ==
  LET failing == {c \in Rec : (MigrationFailed(c) \/ (Lapsed(c) /\ Exhausted(c))) /\ FailsRelease(c)}
  IN  [r \in Release |-> IF \E c \in failing : recs[c].release = r
                         THEN [releases[r] EXCEPT !.state = "failed"]
                         ELSE releases[r]]

MoreAttempts(c) == Last(c) < MaxAttempts

\* Mutant: the limit on attempts holds for interrupted switches too.
InterruptedLimited(c) ==
  recs[c].state = "prepared" /\ recs[c].lease = "lapsed" /\ MoreAttempts(c)

\* A prepared switch can be taken up again however often it is interrupted.
Interrupted(c) == recs[c].state = "prepared" /\ recs[c].lease = "lapsed"

\* The reconciliations a lease may take, in the states they have after expiry.
Candidates ==
  LET state(c) == AfterExpiry(c).state
      migration(c) == migrations[recs[c].release].state
  IN  {c \in Rec :
         \/ Interrupted(c)
         \/ /\ MoreAttempts(c)
            /\ \/ state(c) \in {"queued", "retriable"}
               \/ state(c) = "awaiting_trial" /\ migration(c) = "trial_prepared"
               \/ state(c) = "awaiting_live_apply" /\ migration(c) = "applied"}

\* load_release_lease of the candidate, the current and the retained
\* releases, and validate_release_secrets of the candidate.
Loadable(c) ==
  LET p == ProjectOf(c)
      others == Healthy(p) \ {recs[c].release}
  IN  /\ \A r \in others \union {recs[c].release} : Has(r, "evaluated")
      /\ route[p].release # Nothing => route[p].release \in others
      /\ Has(recs[c].release, "secrets")

RouteUnchanged(c) == route[ProjectOf(c)].generation = recs[c].expected

Leasable(c) ==
  /\ RouteFree(ProjectOf(c))
  /\ RouteUnchanged(c)
  /\ AfterExpiryReleases[recs[c].release].state \notin {"failed", "retired"}
  /\ recs[c].kind = "rollback" => Has(recs[c].release, "healthy")
  /\ Loadable(c)

LeasePhase(c) ==
  LET migration == migrations[recs[c].release].state
  IN  IF recs[c].state = "prepared" THEN "prepared_switch"
      ELSE IF recs[c].state = "awaiting_live_apply" THEN "post_live_apply"
      ELSE IF recs[c].state = "awaiting_trial" \/ migration = "trial_prepared" THEN "isolated_validation"
      ELSE IF migration = "planned" THEN "prepare_trial"
      ELSE "standard"

\* An interrupted switch keeps its attempt; any other lease adds one.
Granted(c) ==
  LET fence == recs[c].fence + 1
      kept == ExpiredAttempts(c)
  IN  IF LeasePhase(c) = "prepared_switch"
      THEN [kept EXCEPT ![Last(c)] = [fence |-> fence, state |-> "running"]]
      ELSE Append(kept, [fence |-> fence, state |-> "running"])

\* Mutant: an interrupted switch is begun again like any other retry.
LeasedStateRunning(c) == "running"

LeasedState(c) == IF recs[c].state = "prepared" THEN "prepared" ELSE "running"

LeaseExpires ==
  /\ Candidates = {}
  /\ \E c \in Rec : Lapsed(c) \/ MigrationFailed(c)
  /\ recs' = [c \in Rec |-> AfterExpiry(c)]
  /\ attempts' = [c \in Rec |-> ExpiredAttempts(c)]
  /\ releases' = AfterExpiryReleases
  /\ UNCHANGED <<migrations, route, owner, gateway, worker, lost, faults>>

Lease(c) ==
  /\ c \in Candidates
  /\ \A d \in Candidates : c <= d
  /\ Leasable(c)
  /\ recs[c].fence < MaxFence
  /\ recs' = [d \in Rec |->
       IF d # c THEN AfterExpiry(d)
       ELSE [recs[c] EXCEPT !.state = LeasedState(c), !.fence = @ + 1, !.lease = "live",
                            !.phase = LeasePhase(c)]]
  /\ attempts' = [d \in Rec |-> IF d = c THEN Granted(c) ELSE ExpiredAttempts(d)]
  /\ releases' = AfterExpiryReleases
  /\ worker' = [worker EXCEPT ![c][recs[c].fence + 1] =
       IF recs[c].state = "prepared" THEN "prepared" ELSE "working"]
  /\ UNCHANGED <<migrations, route, owner, gateway, lost, faults>>

-----------------------------------------------------------------------------
(* Completion and activation. *)

\* lock_live_reconciliation
Live(c, f, state) ==
  /\ recs[c].state = state
  /\ recs[c].fence = f
  /\ recs[c].lease = "live"
  /\ attempts[c][Last(c)] = [fence |-> f, state |-> "running"]

\* finish_unsuccessful
Report(c, f, outcome) ==
  LET retry == outcome = "retriable" /\ ~Exhausted(c)
      state == IF retry THEN "retriable" ELSE "failed"
  IN  /\ worker[c][f] = "working"
      /\ Live(c, f, "running")
      /\ RouteFree(ProjectOf(c))
      /\ RouteUnchanged(c)
      /\ faults < Faults
      /\ faults' = faults + 1
      /\ attempts' = Ends(c, state)
      /\ recs' = [recs EXCEPT ![c] = Finished(c, state)]
      /\ releases' = IF ~retry /\ FailsRelease(c)
                     THEN [releases EXCEPT ![recs[c].release].state = "failed"]
                     ELSE releases
      /\ worker' = [worker EXCEPT ![c][f] = "none"]
      /\ UNCHANGED <<migrations, route, owner, gateway, lost>>

\* enqueue_materialized_migration_trial
TrialQueueable(c) ==
  migrations[recs[c].release].state = "planned" /\ Has(recs[c].release, "archive")

\* Mutant: the releases that a migration was planned for are not compared.
ValidatableAny(c) ==
  migrations[recs[c].release].state = "trial_prepared" /\ releases[recs[c].release].state = "staged"

\* record_migration_runtime_validation: the trial was run, and the current
\* and retained releases are the ones it was planned for.
Validatable(c) ==
  LET r == recs[c].release
      p == Home[r]
  IN  /\ migrations[r].state = "trial_prepared"
      /\ releases[r].state = "staged"
      /\ migrations[r].current = route[p].release
      /\ migrations[r].retained = Healthy(p) \ {route[p].release}

\* verified_migration_gate
GateOpen(c) ==
  recs[c].release \in Migrating =>
    migrations[recs[c].release].state = "applied" /\ Has(recs[c].release, "archive")

NeedsValidation(c) ==
  /\ recs[c].release \in Migrating
  /\ recs[c].phase # "post_live_apply"
  /\ ~(recs[c].kind = "rollback" /\ migrations[recs[c].release].state = "applied")

\* complete_reconciliation of a success, up to the phases.
Completable(c, f) ==
  /\ worker[c][f] = "working"
  /\ Live(c, f, "running")
  /\ RouteUnchanged(c)
  /\ Loadable(c)

\* The attempt ends and the reconciliation waits for the database worker.
Await(c, f, state) ==
  /\ attempts' = Ends(c, "succeeded")
  /\ recs' = [recs EXCEPT ![c] = Finished(c, state)]
  /\ worker' = [worker EXCEPT ![c][f] = "none"]
  /\ UNCHANGED <<releases, route, owner, gateway, lost, faults>>

CompletePrepareTrial(c, f) ==
  /\ Completable(c, f)
  /\ RouteFree(ProjectOf(c))
  /\ recs[c].phase = "prepare_trial"
  /\ TrialQueueable(c)
  /\ migrations' = [migrations EXCEPT ![recs[c].release].operation = "trial"]
  /\ Await(c, f, "awaiting_trial")

CompleteIsolated(c, f) ==
  /\ Completable(c, f)
  /\ RouteFree(ProjectOf(c))
  /\ recs[c].phase # "prepare_trial"
  /\ NeedsValidation(c)
  /\ Validatable(c)
  /\ migrations' = [migrations EXCEPT ![recs[c].release].operation = "live",
                                      ![recs[c].release].state = "isolated_validated"]
  /\ Await(c, f, "awaiting_live_apply")

CompletePrepared(c, f) ==
  /\ Completable(c, f)
  /\ RouteFree(ProjectOf(c))
  /\ recs[c].phase # "prepare_trial"
  /\ ~NeedsValidation(c)
  /\ GateOpen(c)
  /\ recs' = [recs EXCEPT ![c].state = "prepared", ![c].previous = route[ProjectOf(c)].release]
  /\ worker' = [worker EXCEPT ![c][f] = "prepared"]
  /\ UNCHANGED <<releases, migrations, attempts, route, owner, gateway, lost, faults>>

\* A completion that control refuses; the worker exits.
CompletionRefused(c, f) ==
  /\ worker[c][f] = "working"
  /\ \/ ~Completable(c, f)
     \/ recs[c].phase = "prepare_trial" /\ ~TrialQueueable(c)
     \/ recs[c].phase # "prepare_trial" /\ NeedsValidation(c) /\ ~Validatable(c)
     \/ recs[c].phase # "prepare_trial" /\ ~NeedsValidation(c) /\ ~GateOpen(c)
  /\ worker' = [worker EXCEPT ![c][f] = "none"]
  /\ UNCHANGED <<releases, migrations, recs, attempts, route, owner, gateway, lost, faults>>

\* The generation of the manifest that reconciliation c prepared.
Generation(c) == IF c = Nothing THEN 0 ELSE recs[c].expected + 1

\* switch of the coordinator: neither a newer route nor another of this generation.
Switchable(c) ==
  LET prior == gateway[ProjectOf(c)]
  IN  Generation(prior) < Generation(c) \/ prior = c

\* The coordinator tests the route file ...
SwitchTests(c, f) ==
  /\ worker[c][f] = "prepared"
  /\ Switchable(c)
  /\ worker' = [worker EXCEPT ![c][f] = "replacing"]
  /\ UNCHANGED <<releases, migrations, recs, attempts, route, owner, gateway, lost, faults>>

\* ... and replaces it, holding no lock: a coordinator that outlived its lease
\* may do so after others have gone by.
SwitchReplaces(c, f) ==
  /\ worker[c][f] = "replacing"
  /\ gateway' = [gateway EXCEPT ![ProjectOf(c)] = c]
  /\ worker' = [worker EXCEPT ![c][f] = "switched"]
  /\ UNCHANGED <<releases, migrations, recs, attempts, route, owner, lost, faults>>

SwitchRefused(c, f) ==
  /\ worker[c][f] = "prepared"
  /\ ~Switchable(c)
  /\ worker' = [worker EXCEPT ![c][f] = "none"]
  /\ UNCHANGED <<releases, migrations, recs, attempts, route, owner, gateway, lost, faults>>

\* Mutant: one release more is kept.
ExcessOffByOne(kept) ==
  {r \in kept : Cardinality({s \in kept : releases[s].promoted > releases[r].promoted}) > Retained}

\* retire_excess_releases: all but the most recently promoted.
Excess(kept) ==
  {r \in kept : Cardinality({s \in kept : releases[s].promoted > releases[r].promoted}) >= Retained}

\* validate_switch_receipt and the other tests of activate_reconciliation, with
\* refresh_deployment_facts_in_transaction, whose refusal rolls it back.
Activatable(c, f) ==
  /\ Live(c, f, "prepared")
  /\ RouteUnchanged(c)
  /\ recs[c].previous = route[ProjectOf(c)].release
  /\ Has(recs[c].release, "secrets") /\ Has(recs[c].release, "facts")

Activate(c, f) ==
  LET p == ProjectOf(c)
      r == recs[c].release
      kept == Healthy(p) \ {r}
  IN  /\ worker[c][f] = "switched"
      /\ RouteFree(p)
      /\ Activatable(c, f)
      /\ route' = [route EXCEPT ![p] = [release |-> r, generation |-> Generation(c)]]
      /\ releases' = [s \in Release |->
           IF s = r THEN [state |-> "healthy", promoted |-> Generation(c)]
           ELSE IF s \in Excess(kept) THEN [releases[s] EXCEPT !.state = "retired"]
           ELSE releases[s]]
      /\ attempts' = Ends(c, "succeeded")
      /\ recs' = [recs EXCEPT ![c] = Finished(c, "succeeded")]
      /\ worker' = [worker EXCEPT ![c][f] = "none"]
      /\ UNCHANGED <<migrations, owner, gateway, lost, faults>>

ActivationRefused(c, f) ==
  /\ worker[c][f] = "switched"
  /\ ~Activatable(c, f)
  /\ worker' = [worker EXCEPT ![c][f] = "none"]
  /\ UNCHANGED <<releases, migrations, recs, attempts, route, owner, gateway, lost, faults>>

-----------------------------------------------------------------------------
(* The rest of the system, and faults. *)

\* apply_migration_trial_success
TrialSucceeds(r) ==
  /\ migrations[r].operation = "trial"
  /\ migrations' = [migrations EXCEPT ![r].operation = "none", ![r].state = "trial_prepared"]
  /\ UNCHANGED <<releases, recs, attempts, route, owner, gateway, worker, lost, faults>>

\* apply_migration_live_success
LiveApplySucceeds(r) ==
  /\ migrations[r].operation = "live"
  /\ migrations' = [migrations EXCEPT ![r].operation = "none", ![r].state = "applied"]
  /\ UNCHANGED <<releases, recs, attempts, route, owner, gateway, worker, lost, faults>>

\* apply_unsuccessful_completion, or the operation's attempts are used up.
OperationFails(r) ==
  /\ migrations[r].operation \in {"trial", "live"}
  /\ faults < Faults
  /\ faults' = faults + 1
  /\ \E state \in {migrations[r].state} \union (IF migrations[r].state = "planned" THEN {"failed"} ELSE {}) :
       migrations' = [migrations EXCEPT ![r].operation = "failed", ![r].state = state]
  /\ UNCHANGED <<releases, recs, attempts, route, owner, gateway, worker, lost>>

\* Its allocation is stopped, its capability evaluation expires, a secret is
\* revoked, the portfolio's fact history refuses what its activation would add,
\* its backup expires.  None of them comes back.
Lose(r, thing) ==
  /\ Has(r, thing)
  /\ faults < Faults
  /\ faults' = faults + 1
  /\ lost' = [lost EXCEPT ![r] = @ \union {thing}]
  /\ UNCHANGED <<releases, migrations, recs, attempts, route, owner, gateway, worker>>

\* The worker's process is gone, or it never hears control's answer.
Crash(c, f) ==
  /\ worker[c][f] # "none"
  /\ faults < Faults
  /\ faults' = faults + 1
  /\ worker' = [worker EXCEPT ![c][f] = "none"]
  /\ UNCHANGED <<releases, migrations, recs, attempts, route, owner, gateway, lost>>

\* lease_expires_at passes: the worker is gone, or too slow.
Abandoned(c) ==
  /\ recs[c].lease = "live"
  /\ worker[c][recs[c].fence] = "none"
  /\ recs' = [recs EXCEPT ![c].lease = "lapsed"]
  /\ UNCHANGED <<releases, migrations, attempts, route, owner, gateway, worker, lost, faults>>

Overrun(c) ==
  /\ recs[c].lease = "live"
  /\ worker[c][recs[c].fence] # "none"
  /\ faults < Faults
  /\ faults' = faults + 1
  /\ recs' = [recs EXCEPT ![c].lease = "lapsed"]
  /\ UNCHANGED <<releases, migrations, attempts, route, owner, gateway, worker, lost>>

-----------------------------------------------------------------------------

Request ==
  \/ \E r \in Release : PlanMigration(r) \/ StageReads(r) \/ RollbackReads(r)
  \/ \E p \in Projects : StageInserts(p) \/ RollbackInserts(p) \/ RequestRefused(p)

Work(c, f) ==
  \/ CompletePrepareTrial(c, f)
  \/ CompleteIsolated(c, f)
  \/ CompletePrepared(c, f)
  \/ CompletionRefused(c, f)
  \/ SwitchTests(c, f)
  \/ SwitchReplaces(c, f)
  \/ SwitchRefused(c, f)
  \/ Activate(c, f)
  \/ ActivationRefused(c, f)

Fail ==
  \/ \E c \in Rec, f \in Fence : Crash(c, f) \/ \E outcome \in Outcomes : Report(c, f, outcome)
  \/ \E c \in Rec : Overrun(c)
  \/ \E r \in Release : OperationFails(r) \/ \E thing \in Losses : Lose(r, thing)

Next ==
  \/ Request
  \/ LeaseExpires
  \/ \E c \in Rec : Lease(c) \/ Abandoned(c)
  \/ \E c \in Rec, f \in Fence : Work(c, f)
  \/ \E r \in Release : TrialSucceeds(r) \/ LiveApplySucceeds(r)
  \/ Fail

Spec == Init /\ [][Next]_vars

\* A worker polls for leases every two seconds and the service manager
\* restarts it; a worker that neither crashes nor overruns goes on; the
\* transaction of a request ends, and PostgreSQL grants a row lock to those who
\* wait for it in turn; the database worker runs its operations; time passes.
\* Owners need not request anything.
Fairness ==
  /\ SF_vars(LeaseExpires) /\ SF_vars(\E c \in Rec : Lease(c))
  /\ \A c \in Rec : WF_vars(Abandoned(c))
  /\ \A c \in Rec, f \in Fence : WF_vars(Work(c, f))
  /\ SF_vars(\E c \in Rec, f \in Fence : Activate(c, f))
  /\ \A p \in Projects : WF_vars(StageInserts(p) \/ RollbackInserts(p) \/ RequestRefused(p))
  /\ \A r \in Release : WF_vars(TrialSucceeds(r)) /\ WF_vars(LiveApplySucceeds(r))

LiveSpec == Spec /\ Fairness

-----------------------------------------------------------------------------
(* Properties. *)

\* Every row is one its table can hold, and no reconciliation has more attempts
\* than it may.
TypeOK ==
  /\ releases \in [Release -> ReleaseRow]
  /\ migrations \in [Release -> MigrationRow]
  /\ recs \in [Rec -> RecRow]
  /\ attempts \in [Rec -> Seq(Attempt)] /\ \A c \in Rec : Last(c) <= MaxAttempts
  /\ route \in [Projects -> RouteRow]
  /\ owner \in [Projects -> RequestRow]
  /\ gateway \in [Projects -> Rec \union {Nothing}]
  /\ worker \in [Rec -> [Fence -> {"none", "working", "prepared", "replacing", "switched"}]]
  /\ lost \in [Release -> SUBSET Losses]
  /\ faults \in 0..Faults

\* Across the gap between the gateway's file and PostgreSQL: the gateway serves
\* the routed release, one that a reconciliation still prepared will route, or
\* one that was routed before, and never a promotion that was given up; a
\* project with a route is served (switch, activate_reconciliation,
\* expire_reconciliations and the re-lease of a prepared reconciliation).
GatewayServesPrepared ==
  \A p \in Projects :
    LET c == gateway[p]
    IN  \/ c = Nothing /\ route[p].generation = 0
        \/ /\ c # Nothing /\ ProjectOf(c) = p
           /\ \/ recs[c].state = "prepared" /\ Generation(c) = route[p].generation + 1
              \/ /\ recs[c].state = "succeeded" /\ Generation(c) <= route[p].generation
                 /\ Generation(c) = route[p].generation => recs[c].release = route[p].release

\* The routed release is healthy and its migration is live, and no more
\* releases than the routed one and its Retained predecessors are healthy
\* (activate_reconciliation, retire_excess_releases, rollbacks of releases
\* that are being retired).
RoutedIsHealthy ==
  \A p \in Projects :
    /\ route[p].release # Nothing =>
         /\ releases[route[p].release].state = "healthy"
         /\ route[p].release \in Migrating => migrations[route[p].release].state = "applied"
    /\ Cardinality(Healthy(p)) <= Retained + 1

\* A reconciliation is being worked on exactly when its last attempt is, by
\* the holder of the current fence, and no earlier attempt is; a project has
\* one at a time.
OneAttempt ==
  /\ \A c \in Rec : \A n \in 1..Last(c) :
       attempts[c][n].state = "running" <=>
         /\ n = Last(c)
         /\ recs[c].state \in {"running", "prepared"}
         /\ attempts[c][n].fence = recs[c].fence
  /\ \A c, d \in Rec :
       recs[c].state \in Active /\ recs[d].state \in Active /\ ProjectOf(c) = ProjectOf(d) => c = d

\* From its isolated validation until its release is routed or given up, a
\* migration has been tried with every release that traffic can be on or
\* return to: none was promoted or retired since it was planned
\* (record_migration_runtime_validation and the route generation tests).
AppliedWasValidated ==
  \A c \in Rec :
    LET r == recs[c].release
        p == Home[r]
    IN  recs[c].state \in Active /\ recs[c].kind = "promote" /\ r \in Migrating
        /\ migrations[r].state \in {"isolated_validated", "applied"}
          => Healthy(p) = migrations[r].retained \union {migrations[r].current}

\* What the lease or the activation of a prepared route is refused for: what the
\* releases of its project lost, or another project's older candidate, whose own
\* refusal ends every lease request.
Hindered(c) ==
  \/ lost[recs[c].release] \ {"archive"} # {}
  \/ \E r \in Healthy(ProjectOf(c)) : ~Has(r, "evaluated")
  \/ \E d \in Candidates : d < c

\* A prepared route is switched to and activated in spite of workers that
\* crash or overrun their leases at any point of it, however often, unless it
\* is hindered.
PreparedActivates ==
  \A c \in Rec :
    (recs[c].state = "prepared")
      ~> (recs[c].state = "succeeded" \/ (recs[c].state = "prepared" /\ Hindered(c)))

\* "Stale route generation [...] cannot change the route": the gateway never
\* serves a route older than the durable one.
GatewayNotStale ==
  \A p \in Projects : Generation(gateway[p]) >= route[p].generation

\* "Expired running leases become retriable and receive a higher fence", at
\* least while their own release stays eligible.
ExpiredIsRetried ==
  \A c \in Rec : Lapsed(c) ~> (~Lapsed(c) \/ lost[recs[c].release] # {})

\* "A later lease resumes final probes": whoever works on a promotion after
\* its migration was applied does so in the phase post_live_apply, the only
\* one in which complete_reconciliation can prepare its route.
AppliedIsFinished ==
  \A c \in Rec :
    recs[c].state = "running" /\ recs[c].kind = "promote"
    /\ recs[c].release \in Migrating /\ migrations[recs[c].release].state = "applied"
      => recs[c].phase = "post_live_apply"

\* "A later lease resumes final probes": a promotion does not wait for a
\* migration that has been applied.
AwaitingResumes ==
  \A c \in Rec :
    (recs[c].state = "awaiting_live_apply" /\ migrations[recs[c].release].state = "applied")
      ~> (recs[c].state # "awaiting_live_apply")
=============================================================================
