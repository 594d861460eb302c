-------------------------- MODULE TenantDatabases ---------------------------
(***************************************************************************)
(* One tenant PostgreSQL database of a project                             *)
(* (crates/control/src/tenant_databases.rs over migration 0006) and the    *)
(* workers that provision, back up, restore, measure and migrate it        *)
(* (crates/database/src/worker.rs, archive.rs, postgres.rs).               *)
(*                                                                         *)
(* Control keeps rows and a queue of operations; what the rows describe is *)
(* outside its transactions: the tenant's own database, the isolated       *)
(* clones, and the sealed backup files.  A worker changes those first and  *)
(* reports afterwards, its lease may run out in between, and another       *)
(* worker may then do the same operation beside it.  A worker process ends *)
(* on every failure and forgets what it did.                               *)
(*                                                                         *)
(* Every handler is one step: each locks the operation row and tests the   *)
(* lease under that lock.  The policy clock moves in days; what the code   *)
(* keys by the hour is keyed by the day here.  A fence is the number of    *)
(* the attempt it was issued with, a digest the attempt that sealed.       *)
(***************************************************************************)
EXTENDS Naturals, FiniteSets

CONSTANTS
  Worker,       \* worker processes
  Migration,    \* migration revisions that releases bring
  Export,       \* exports the owner asks for
  MaxAttempts,  \* the literal 5 of lease_operation and reap_expired_operations
  Horizon,      \* bound: the last day of the policy clock
  MaxTrouble,   \* bound: faults in a behaviour
  MaxQueue,     \* bound: owners and releases ask while fewer operations are to do
  MaxArchives,  \* bound: archives in a behaviour
  Retention,    \* BACKUP_RETENTION_DAYS
  ExportTTL,    \* EXPORT_TTL_HOURS, in days
  WeekDays,     \* days in a policy week
  Faults        \* how an operation may go wrong: a subset of {"retriable", "failed"}

ASSUME BoundsAssumption ==
  /\ MaxAttempts \in Nat \ {0} /\ WeekDays \in Nat \ {0}
  /\ {Horizon, MaxTrouble, MaxQueue, MaxArchives, Retention, ExportTTL} \subseteq Nat
ASSUME MigrationAssumption == IsFiniteSet(Migration)
ASSUME FaultsAssumption == Faults \subseteq {"retriable", "failed"}

VARIABLES
  clock,       \* the policy clock
  trouble,     \* faults so far
  database,    \* the tenant_databases row
  ops,         \* tenant_database_operations with the current attempt
  before,      \* pairs of operations to do, the first created in an earlier transaction
  archives,    \* tenant_database_archives
  recoveries,  \* tenant_database_recoveries, one a policy week
  migrations,  \* tenant_database_migrations
  tenant,      \* the tenant's database: size, storage policy, applied migrations
  objects,     \* the backup repository: sealed files
  removed,     \* history: files that a late attempt's read-back removed, by digest
  clones,      \* isolated replacement databases that exist
  worker       \* the worker processes

rows == <<database, archives, recoveries, migrations>>
world == <<tenant, objects, removed, clones>>
env == <<clock, trouble>>
vars == <<env, ops, before, worker, rows, world>>

-----------------------------------------------------------------------------
(* Names and rows. *)

Day == 0..Horizon
Generation == 1..(Cardinality(Migration) + 1)
WeekOf(d) == d \div WeekDays
Week == {WeekOf(d) : d \in Day}

Archive == ({"daily"} \X Day) \cup ({"pre_migration"} \X (Migration \X Generation))
             \cup ({"export"} \X Export)
NoArchive == <<"none", 0>>

\* kind and operation_key; the three backup kinds are told apart by the archive.
Op == {<<"provision", "initial">>}
        \cup ({"backup", "archive_expire"} \X Archive)
        \cup ({"observe_storage"} \X Day)
        \cup ({"restore_drill"} \X Week)
        \cup ({"migration_trial", "migration_live_apply"} \X Migration)
NoOp == <<"none", 0>>
Kind(o) == o[1]
KeyOf(o) == o[2]

Mode == {"writable", "read_only_over_limit"}
DatabaseRow == [state : {"none", "provision_requested", "provisioning", "ready",
                         "failed_resources_retained"},
                growth_mode : Mode, data : Generation]
Settled == {"succeeded", "failed"}
OpRow == [state : {"absent", "queued", "running", "retriable"} \cup Settled,
          attempts : 0..MaxAttempts, live : BOOLEAN]
ArchiveRow == [state : {"absent", "creating", "usable", "corrupt", "deleted"},
               made : Day, expires : Nat, digest : 0..MaxAttempts]
RecoveryRow == [state : {"absent", "requested", "restoring", "validated", "failed"},
                archive : Archive \cup {NoArchive}]
MigrationRow == [state : {"absent", "planned", "trial_prepared", "isolated_validated",
                          "applied", "failed"},
                 archive : Archive \cup {NoArchive}, data : Generation \cup {0}]
Clone == ({"recovery"} \X Week) \cup ({"migration"} \X Migration)
Tenant == [over : BOOLEAN, mode : Mode, applied : [Migration -> Nat]]
Object == [digest : 0..MaxAttempts, holds : SUBSET Migration]
NoObject == [digest |-> 0, holds |-> {}]
RemovedFile == Archive \X (0..MaxAttempts)

\* What a worker reports: an outcome with the proof the handlers look at.
Report == [state : {"none", "retriable"} \cup Settled, digest : 0..MaxAttempts,
           over : BOOLEAN, mode : Mode, retained : BOOLEAN]
NoReport == [state |-> "none", digest |-> 0, over |-> FALSE, mode |-> "writable",
             retained |-> FALSE]
Process == [step : {"idle", "leased", "working", "linking", "verifying", "done"},
            op : Op \cup {NoOp}, attempt : 0..MaxAttempts,
            dump : SUBSET Migration, report : Report]
Idle == [step |-> "idle", op |-> NoOp, attempt |-> 0, dump |-> {}, report |-> NoReport]

Init ==
  /\ clock = 0 /\ trouble = 0
  /\ database = [state |-> "none", growth_mode |-> "writable", data |-> 1]
  /\ ops = [o \in Op |-> [state |-> "absent", attempts |-> 0, live |-> FALSE]]
  /\ before = {}
  /\ archives = [a \in Archive |-> [state |-> "absent", made |-> 0, expires |-> 0, digest |-> 0]]
  /\ recoveries = [k \in Week |-> [state |-> "absent", archive |-> NoArchive]]
  /\ migrations = [m \in Migration |-> [state |-> "absent", archive |-> NoArchive, data |-> 0]]
  /\ tenant = [over |-> FALSE, mode |-> "writable", applied |-> [m \in Migration |-> 0]]
  /\ objects = [a \in Archive |-> NoObject]
  /\ removed = {}
  /\ clones = {}
  /\ worker = [w \in Worker |-> Idle]

-----------------------------------------------------------------------------
(* Queueing. *)

Unsettled(row) == row.state \notin Settled \cup {"absent"}
ToDo == {o \in Op : Unsettled(ops[o])}

\* The operations table after a step, and the order of what is left to do.
Operations(table, created) ==
  /\ ops' = table
  /\ before' = {p \in created : Unsettled(table[p[1]]) /\ Unsettled(table[p[2]])}

\* insert_operation, once for each operation of the set: created_at is the time
\* of the transaction, so what one transaction creates is not ordered.
InsertOperations(new) ==
  Operations([o \in Op |-> IF o \in new THEN [ops[o] EXCEPT !.state = "queued"] ELSE ops[o]],
             before \cup (ToDo \X new))

Calm == Cardinality(ToDo) < MaxQueue

Absent(o) == ops[o].state = "absent"

\* insert_archive
NewArchive(days) ==
  [state |-> "creating", made |-> clock, expires |-> clock + days, digest |-> 0]

Room == Cardinality({a \in Archive : archives[a].state # "absent"}) < MaxArchives

\* expires_at < policy time
Expired(a) == archives[a].expires < clock

\* A backup that a restore may start from.
Restorable(a) == archives[a].state = "usable" /\ ~Expired(a)

Ready == database.state = "ready"

\* create_database
CreateDatabase ==
  /\ database.state = "none"
  /\ database' = [database EXCEPT !.state = "provision_requested"]
  /\ Calm /\ InsertOperations({<<"provision", "initial">>})
  /\ UNCHANGED <<env, archives, recoveries, migrations, world, worker>>

\* create_export
CreateExport(e) ==
  LET a == <<"export", e>>
  IN  /\ Ready
      /\ archives[a].state = "absent" /\ Room
      /\ archives' = [archives EXCEPT ![a] = NewArchive(ExportTTL)]
      /\ Calm /\ InsertOperations({<<"backup", a>>})
      /\ UNCHANGED <<env, database, recoveries, migrations, world, worker>>

\* create_recovery: UNIQUE (tenant_database_id, database_generation, policy_week).
CreateRecovery(a) ==
  LET k == WeekOf(clock)
  IN  /\ Restorable(a)
      /\ Kind(a) # "export"
      /\ recoveries[k].state = "absent"
      /\ recoveries' = [recoveries EXCEPT ![k] = [state |-> "requested", archive |-> a]]
      /\ Calm /\ InsertOperations({<<"restore_drill", k>>})
      /\ UNCHANGED <<env, database, archives, migrations, world, worker>>

\* The newest usable daily backup, which the week's drill restores.
DrillSource ==
  {a \in {"daily"} \X Day : Restorable(a) /\ \A b \in {"daily"} \X Day :
     Restorable(b) => KeyOf(b) <= KeyOf(a)}

\* scheduler_tick: the day's backup and measurement, the expiries that are due,
\* and the week's drill.
SchedulerTick ==
  LET today == <<"daily", clock>>
      k == WeekOf(clock)
      routine == IF Ready THEN {o \in {<<"backup", today>>, <<"observe_storage", clock>>} : Absent(o)}
                          ELSE {}
      due == {a \in Archive : archives[a].state = "usable" /\ Expired(a)
                                /\ Absent(<<"archive_expire", a>>)}
      drilled == IF Ready /\ recoveries[k].state = "absent" THEN DrillSource ELSE {}
      drills == IF drilled = {} THEN {} ELSE {<<"restore_drill", k>>}
      new == routine \cup ({"archive_expire"} \X due) \cup drills
  IN  /\ new # {}
      /\ Ready /\ archives[today].state = "absent" => Room
      /\ InsertOperations(new)
      /\ archives' = IF Ready /\ archives[today].state = "absent"
                     THEN [archives EXCEPT ![today] = NewArchive(Retention)] ELSE archives
      /\ recoveries' = [recoveries EXCEPT ![k] =
           IF drilled = {} THEN @
           ELSE [state |-> "requested", archive |-> CHOOSE a \in drilled : TRUE]]
      /\ UNCHANGED <<env, database, migrations, world, worker>>

AdvanceClock ==
  /\ clock < Horizon
  /\ clock' = clock + 1
  /\ UNCHANGED <<trouble, ops, before, rows, world, worker>>

-----------------------------------------------------------------------------
(* The release side's requests; a migration belongs to one release. *)

\* request_pre_migration_backup: one backup a revision and data generation.
RequestBackup(m) ==
  LET a == <<"pre_migration", <<m, database.data>>>>
  IN  /\ Ready
      /\ archives[a].state = "absent" /\ Room
      /\ archives' = [archives EXCEPT ![a] = NewArchive(Retention)]
      /\ Calm /\ InsertOperations({<<"backup", a>>})
      /\ UNCHANGED <<env, database, recoveries, migrations, world, worker>>

\* enqueue_migration_trial: the backup is usable, of the current data and fresh.
PlanMigration(m) ==
  LET a == <<"pre_migration", <<m, database.data>>>>
  IN  /\ Restorable(a)
      /\ archives[a].made = clock
      /\ migrations[m].state = "absent"
      /\ migrations' = [migrations EXCEPT ![m] =
           [state |-> "planned", archive |-> a, data |-> database.data]]
      /\ UNCHANGED <<env, ops, before, database, archives, recoveries, world, worker>>

\* enqueue_materialized_migration_trial, from the completion of the release
\* attempt that extracted the migration file.
EnqueueTrial(m) ==
  /\ migrations[m].state = "planned"
  /\ Restorable(migrations[m].archive)
  /\ Absent(<<"migration_trial", m>>)
  /\ Calm /\ InsertOperations({<<"migration_trial", m>>})
  /\ UNCHANGED <<env, rows, world, worker>>

\* record_migration_runtime_validation, from the release attempt that probed the
\* migrated clone with every binary that must keep working.
RecordValidation(m) ==
  /\ migrations[m].state = "trial_prepared"
  /\ migrations' = [migrations EXCEPT ![m].state = "isolated_validated"]
  /\ Calm /\ InsertOperations({<<"migration_live_apply", m>>})
  /\ UNCHANGED <<env, database, archives, recoveries, world, worker>>

-----------------------------------------------------------------------------
(* Leases. *)

\* One more fault: a failure, a process that ends, a lease lost while in use.
Trouble == trouble < MaxTrouble /\ trouble' = trouble + 1 /\ clock' = clock

\* Mutant: any operation row will do.
FenceIgnored(o, n) == ops[o].state # "absent"

\* renew_operation, resolve_credentials and complete_operation want the current
\* attempt, its fence and a lease that has not run out.
Live(o, n) == ops[o].state = "running" /\ ops[o].attempts = n /\ ops[o].live

\* The heartbeat stopped renewing, or control could not be reached in time.
LeaseRunsOut(o) ==
  /\ ops[o].state = "running"
  /\ ops[o].live
  /\ IF \E w \in Worker : worker[w].op = o /\ worker[w].attempt = ops[o].attempts
     THEN Trouble ELSE UNCHANGED env
  /\ ops' = [ops EXCEPT ![o].live = FALSE]
  /\ UNCHANGED <<before, rows, world, worker>>

\* Mutant: a lease that ran out is never taken back.
NotReaped(o) == ops[o]

\* reap_expired_operations
ReapedRow(o) ==
  IF ops[o].state = "running" /\ ~ops[o].live
  THEN [ops[o] EXCEPT !.state = IF ops[o].attempts >= MaxAttempts THEN "failed" ELSE "retriable"]
  ELSE ops[o]
Reaped == [o \in Op |-> ReapedRow(o)]

\* Operations that can be leased, and those no other one of them is older than:
\* between operations of one transaction a random id decides.
Waiting == {o \in Op : ReapedRow(o).state \in {"queued", "retriable"}}
Oldest == LET waiting == Waiting IN {o \in waiting : \A p \in waiting : <<p, o>> \notin before}

\* lease_operation with no operation to lease: the expired ones are reaped.
LeaseNone ==
  /\ Waiting = {}
  /\ Reaped # ops
  /\ Operations(Reaped, before)
  /\ UNCHANGED <<env, rows, world, worker>>

\* lease_operation that meets an operation given back on its last attempt.
LeaseExhausted(o) ==
  /\ ReapedRow(o).attempts >= MaxAttempts
  /\ Operations([Reaped EXCEPT ![o].state = "failed"], before)
  /\ UNCHANGED <<env, rows, world, worker>>

\* lease_operation
Lease(w, o) ==
  LET n == ReapedRow(o).attempts + 1
  IN  /\ n <= MaxAttempts
      /\ Operations([Reaped EXCEPT ![o] = [state |-> "running", attempts |-> n, live |-> TRUE]], before)
      /\ database' = [database EXCEPT !.state =
           IF Kind(o) = "provision" /\ @ = "provision_requested" THEN "provisioning" ELSE @]
      /\ recoveries' = [k \in Week |->
           IF o = <<"restore_drill", k>> /\ recoveries[k].state = "requested"
           THEN [recoveries[k] EXCEPT !.state = "restoring"] ELSE recoveries[k]]
      /\ worker' = [worker EXCEPT ![w] = [Idle EXCEPT !.step = "leased", !.op = o, !.attempt = n]]
      /\ UNCHANGED <<env, archives, migrations, world>>

-----------------------------------------------------------------------------
(* The worker: credentials, the work itself, the report. *)

\* The work is over; the heartbeat stops and the report is sent next.
Reports(w, r) == worker' = [worker EXCEPT ![w].step = "done", ![w].report = r]

\* A failure after the command for the tenant was issued; only provisioning says
\* that it leaves something behind.
Failure(w, s) ==
  [NoReport EXCEPT !.state = s, !.retained = Kind(worker[w].op) = "provision"]
Success == [NoReport EXCEPT !.state = "succeeded"]

Working(w, kind) == worker[w].step = "working" /\ Kind(worker[w].op) = kind

\* process: resolve_credentials and the first renewal.
ResolveCredentials(w) ==
  /\ worker[w].step = "leased"
  /\ worker' = [worker EXCEPT ![w] =
       IF Live(worker[w].op, worker[w].attempt) THEN [@ EXCEPT !.step = "working"] ELSE Idle]
  /\ UNCHANGED <<env, ops, before, rows, world>>

\* finish_failure: the credentials could not be had, and nothing was touched.
NoCredentials(w) ==
  /\ worker[w].step = "leased"
  /\ \E s \in Faults : Reports(w, [NoReport EXCEPT !.state = s])
  /\ Trouble
  /\ UNCHANGED <<ops, before, rows, world>>

\* The work fails before it changed anything: a bad inventory, a busy target.
\* Failure::retriable knows no failure of an expiry.
WorkFails(w) ==
  /\ worker[w].step = "working"
  /\ \E s \in Faults :
       /\ Kind(worker[w].op) = "archive_expire" => s = "failed"
       /\ Reports(w, Failure(w, s))
  /\ Trouble
  /\ UNCHANGED <<ops, before, rows, world>>

\* The work took effect; a command that timed out may have, too.
Ends(w, success) ==
  \/ Reports(w, success) /\ UNCHANGED env
  \/ /\ \E s \in Faults :
          /\ Kind(worker[w].op) \in {"archive_expire", "migration_live_apply"} => s = "failed"
          /\ Reports(w, Failure(w, s))
     /\ Trouble

\* The work meets something it refuses.
Refuses(w) == Reports(w, Failure(w, "failed")) /\ UNCHANGED env

\* postgres.provision and apply_fixture_bootstrap: every statement can be repeated.
Provision(w) ==
  /\ Working(w, "provision")
  /\ Reports(w, Success)
  /\ UNCHANGED <<env, ops, before, rows, world>>

\* Repository::seal after the dump: a file that is there already is the answer.
DumpAndFind(w) ==
  LET found == objects[KeyOf(worker[w].op)].digest
  IN  /\ Working(w, "backup")
      /\ IF found # 0
         THEN Reports(w, [Success EXCEPT !.digest = found])
         ELSE worker' = [worker EXCEPT ![w].step = "linking",
                ![w].dump = {m \in Migration : tenant.applied[m] > 0}]
      /\ UNCHANGED <<env, ops, before, rows, world>>

\* Mutant: the sealed file is renamed over one that is there.
MayLinkAlways(a) == TRUE

\* fs::hard_link refuses to replace a file.
MayLink(a) == objects[a] = NoObject

\* The staged file gets the archive's name; the directory may not be synced.
LinkObject(w) ==
  LET a == KeyOf(worker[w].op)
  IN  /\ worker[w].step = "linking"
      /\ IF MayLink(a)
         THEN /\ objects' = [objects EXCEPT ![a] = [digest |-> worker[w].attempt, holds |-> worker[w].dump]]
              /\ \/ worker' = [worker EXCEPT ![w].step = "verifying"] /\ UNCHANGED env
                 \/ Reports(w, Failure(w, "retriable")) /\ Trouble
         ELSE Reports(w, Failure(w, "retriable")) /\ UNCHANGED <<env, objects>>
      /\ UNCHANGED <<ops, before, rows, tenant, removed, clones>>

\* What seal answers when the file reads back: one that another attempt sealed
\* may hold another dump.
ReadBack(w, object) ==
  {[Success EXCEPT !.digest = object.digest]}
    \cup (IF object.digest = worker[w].attempt THEN {} ELSE {Failure(w, "failed")})

\* The rest of Repository::seal: the file that has the archive's name is read back.
VerifyObject(w) ==
  LET a == KeyOf(worker[w].op)
  IN  /\ worker[w].step = "verifying"
      /\ objects[a] # NoObject
      /\ \E r \in ReadBack(w, objects[a]) : Reports(w, r)
      /\ UNCHANGED <<env, ops, before, rows, world>>

\* The file is gone or cannot be read back, for want of room for the copy, say:
\* whatever has that name is removed.  A late attempt has had its fault.
VerifyFails(w) ==
  LET a == KeyOf(worker[w].op)
      live == Live(worker[w].op, worker[w].attempt)
  IN  /\ worker[w].step = "verifying"
      /\ Reports(w, Failure(w, "failed"))
      /\ IF live /\ objects[a] # NoObject THEN Trouble ELSE UNCHANGED env
      /\ objects' = [objects EXCEPT ![a] = NoObject]
      /\ removed' = IF live \/ objects[a] = NoObject THEN removed
                    ELSE removed \cup {<<a, objects[a].digest>>}
      /\ UNCHANGED <<ops, before, rows, tenant, clones>>

\* authenticate_to: the file is there with the digest that control recorded.
Authentic(a) == objects[a] # NoObject /\ objects[a].digest = archives[a].digest

\* postgres.restore into a clone that must not exist yet.
RestoreInto(w, c, a) ==
  /\ IF Authentic(a) /\ c \notin clones
     THEN clones' = clones \cup {c} /\ Ends(w, Success)
     ELSE Refuses(w) /\ UNCHANGED clones
  /\ UNCHANGED <<ops, before, rows, tenant, objects, removed>>

Restore(w) ==
  LET k == KeyOf(worker[w].op)
  IN  Working(w, "restore_drill") /\ RestoreInto(w, <<"recovery", k>>, recoveries[k].archive)

\* migration_trial: restore the backup and migrate the clone.
Trial(w) ==
  LET m == KeyOf(worker[w].op)
  IN  Working(w, "migration_trial") /\ RestoreInto(w, <<"migration", m>>, migrations[m].archive)

\* Mutant: the stamp is not looked for.
AlwaysApplies(m) == TRUE

\* apply_migration runs the file only when the stamp of it is missing, under an
\* advisory lock and in the transaction that writes the stamp.
MustApply(m) == tenant.applied[m] = 0

\* live_migration
LiveApply(w) ==
  LET m == KeyOf(worker[w].op)
  IN  /\ Working(w, "migration_live_apply")
      /\ IF tenant.mode = "writable"
         THEN /\ tenant' = [tenant EXCEPT !.applied[m] = IF MustApply(m) THEN @ + 1 ELSE @]
              /\ Ends(w, Success)
         ELSE Refuses(w) /\ UNCHANGED tenant
      /\ UNCHANGED <<ops, before, rows, objects, removed, clones>>

\* enforce_storage_limit
ObserveStorage(w) ==
  LET mode == IF tenant.over THEN "read_only_over_limit" ELSE tenant.mode
  IN  /\ Working(w, "observe_storage")
      /\ tenant' = [tenant EXCEPT !.mode = mode]
      /\ Ends(w, [Success EXCEPT !.over = tenant.over, !.mode = mode])
      /\ UNCHANGED <<ops, before, rows, objects, removed, clones>>

\* Repository::expire
Expire(w) ==
  LET a == KeyOf(worker[w].op)
  IN  /\ Working(w, "archive_expire")
      /\ IF Authentic(a)
         THEN objects' = [objects EXCEPT ![a] = NoObject] /\ Ends(w, Success)
         ELSE Refuses(w) /\ UNCHANGED objects
      /\ UNCHANGED <<ops, before, rows, tenant, removed, clones>>

\* The process ends: killed, a lost answer, a failed heartbeat.
Stop(w) ==
  /\ worker[w].step # "idle"
  /\ worker' = [worker EXCEPT ![w] = Idle]
  /\ Trouble
  /\ UNCHANGED <<ops, before, rows, world>>

\* The application fills its database, and frees space again.
Resize ==
  /\ tenant' = [tenant EXCEPT !.over = ~@]
  /\ Trouble
  /\ UNCHANGED <<ops, before, rows, objects, removed, clones, worker>>

-----------------------------------------------------------------------------
(* complete_operation. *)

\* apply_storage_success: a freeze stays, whatever is measured later.
ExpectedMode(over) ==
  IF database.growth_mode = "read_only_over_limit" \/ over THEN "read_only_over_limit" ELSE "writable"

\* record_migration_applied_once: validated, and of the data the tenant has now.
Applicable(m) == migrations[m].state = "isolated_validated" /\ migrations[m].data = database.data

\* apply_archive_expiry_success
Deletes(o) == Kind(o) = "archive_expire" /\ archives[KeyOf(o)].state = "usable"

\* apply_completion: what the row of the operation must be for a success.
Acceptable(o, r) ==
  CASE Kind(o) = "provision" -> database.state \in {"provision_requested", "provisioning"}
    [] Kind(o) = "backup" -> archives[KeyOf(o)].state = "creating"
    [] Kind(o) = "restore_drill" -> recoveries[KeyOf(o)].state = "restoring"
    [] Kind(o) = "observe_storage" -> r.mode = ExpectedMode(r.over)
    [] Kind(o) = "migration_trial" -> migrations[KeyOf(o)].state = "planned"
    [] Kind(o) = "migration_live_apply" -> Applicable(KeyOf(o))
    [] Kind(o) = "archive_expire" -> TRUE

\* apply_provision_success, apply_storage_success, record_migration_applied_once
SuccessInDatabase(o, r) ==
  CASE Kind(o) = "provision" -> [database EXCEPT !.state = "ready"]
    [] Kind(o) = "observe_storage" -> [database EXCEPT !.growth_mode = r.mode]
    [] Kind(o) = "migration_live_apply" -> [database EXCEPT !.data = @ + 1]
    [] OTHER -> database

\* apply_archive_success
SuccessInArchives(o, r) ==
  CASE Kind(o) = "backup" ->
         [archives EXCEPT ![KeyOf(o)].state = "usable", ![KeyOf(o)].digest = r.digest]
    [] Deletes(o) -> [archives EXCEPT ![KeyOf(o)].state = "deleted"]
    [] OTHER -> archives

\* apply_recovery_success
SuccessInRecoveries(o) ==
  IF Kind(o) = "restore_drill"
  THEN [recoveries EXCEPT ![KeyOf(o)].state = "validated"] ELSE recoveries

\* apply_migration_trial_success, apply_live_migration_success
SuccessInMigrations(o) ==
  CASE Kind(o) = "migration_trial" -> [migrations EXCEPT ![KeyOf(o)].state = "trial_prepared"]
    [] Kind(o) = "migration_live_apply" -> [migrations EXCEPT ![KeyOf(o)].state = "applied"]
    [] OTHER -> migrations

\* The operation row takes the reported state; the attempt is over.
Closes(w) ==
  Operations([ops EXCEPT ![worker[w].op].state = worker[w].report.state,
                         ![worker[w].op].live = FALSE], before)

\* The answer does not matter: the process goes on or ends, and forgets either way.
Answered(w) == worker' = [worker EXCEPT ![w] = Idle]

\* complete_operation with a success, apply_completion included.
CompleteSuccess(w) ==
  LET o == worker[w].op
      r == worker[w].report
  IN  /\ worker[w].step = "done" /\ r.state = "succeeded"
      /\ Live(o, worker[w].attempt)
      /\ Acceptable(o, r)
      /\ database' = SuccessInDatabase(o, r)
      /\ archives' = SuccessInArchives(o, r)
      /\ recoveries' = SuccessInRecoveries(o)
      /\ migrations' = SuccessInMigrations(o)
      /\ Closes(w)
      /\ Answered(w)
      /\ UNCHANGED <<env, world>>

\* complete_operation with a failure, apply_unsuccessful_completion included.
CompleteFailure(w) ==
  LET o == worker[w].op
      r == worker[w].report
      failed(kind) == Kind(o) = kind /\ r.state = "failed"
  IN  /\ worker[w].step = "done" /\ r.state # "succeeded"
      /\ Live(o, worker[w].attempt)
      /\ database' = [database EXCEPT !.state =
           IF Kind(o) = "provision" /\ r.retained THEN "failed_resources_retained" ELSE @]
      /\ archives' = [a \in Archive |->
           IF failed("backup") /\ KeyOf(o) = a /\ archives[a].state = "creating"
           THEN [archives[a] EXCEPT !.state = "corrupt"] ELSE archives[a]]
      /\ recoveries' = [k \in Week |->
           IF failed("restore_drill") /\ KeyOf(o) = k
           THEN [recoveries[k] EXCEPT !.state = "failed"] ELSE recoveries[k]]
      /\ migrations' = [m \in Migration |->
           IF failed("migration_trial") /\ KeyOf(o) = m /\ migrations[m].state = "planned"
           THEN [migrations[m] EXCEPT !.state = "failed"] ELSE migrations[m]]
      /\ Closes(w)
      /\ Answered(w)
      /\ UNCHANGED <<env, world>>

\* A completion that is fenced off, or whose proof or row is refused.
CompleteRefused(w) ==
  LET o == worker[w].op
      r == worker[w].report
  IN  /\ worker[w].step = "done"
      /\ ~Live(o, worker[w].attempt) \/ (r.state = "succeeded" /\ ~Acceptable(o, r))
      /\ Answered(w)
      /\ UNCHANGED <<env, ops, before, rows, world>>

-----------------------------------------------------------------------------

Request ==
  \/ CreateDatabase \/ SchedulerTick \/ AdvanceClock \/ Resize
  \/ \E e \in Export : CreateExport(e)
  \/ \E a \in Archive : CreateRecovery(a)
  \/ \E m \in Migration :
       RequestBackup(m) \/ PlanMigration(m) \/ EnqueueTrial(m) \/ RecordValidation(m)

\* A worker without an operation asks for one.
Poll(w) ==
  /\ worker[w].step = "idle"
  /\ LeaseNone \/ \E o \in Oldest : LeaseExhausted(o) \/ Lease(w, o)

Work(w) ==
  \/ ResolveCredentials(w) \/ NoCredentials(w) \/ WorkFails(w)
  \/ Provision(w) \/ DumpAndFind(w) \/ LinkObject(w) \/ VerifyObject(w) \/ VerifyFails(w)
  \/ Restore(w) \/ Trial(w) \/ LiveApply(w) \/ ObserveStorage(w) \/ Expire(w)
  \/ CompleteSuccess(w) \/ CompleteFailure(w) \/ CompleteRefused(w)

Next ==
  \/ Request
  \/ \E o \in Op : LeaseRunsOut(o)
  \/ \E w \in Worker : Poll(w) \/ Work(w) \/ Stop(w)

Spec == Init /\ [][Next]_vars

\* A worker that runs makes progress (every command it issues has a timeout and
\* the service manager starts it again), and a lease nobody renews runs out.
Fairness ==
  /\ WF_vars(\E w \in Worker : Poll(w) \/ Work(w))
  /\ WF_vars(\E o \in Op : LeaseRunsOut(o))

FairSpec == Spec /\ Fairness

-----------------------------------------------------------------------------
(* Properties. *)

TypeOK ==
  /\ clock \in Day /\ trouble \in 0..MaxTrouble
  /\ database \in DatabaseRow
  /\ ops \in [Op -> OpRow] /\ before \subseteq Op \X Op
  /\ archives \in [Archive -> ArchiveRow]
  /\ recoveries \in [Week -> RecoveryRow]
  /\ migrations \in [Migration -> MigrationRow]
  /\ tenant \in Tenant
  /\ objects \in [Archive -> Object] /\ removed \subseteq RemovedFile
  /\ clones \subseteq Clone
  /\ worker \in [Worker -> Process]

\* A backup that control still offers for a restore can be restored: its file is
\* there with the recorded digest, though other attempts may be sealing the same
\* archive and expiries are running, and one a migration was planned with was
\* taken before that migration reached the tenant.  The one way to lose the file
\* is that an attempt without its lease failed to read back that very file
\* (Repository::seal, scheduler_tick, enqueue_migration_trial).
UsableRestores ==
  \A a \in Archive : Restorable(a) =>
    \/ /\ Authentic(a)
       /\ \A m \in Migration : migrations[m].archive = a => m \notin objects[a].holds
    \/ <<a, archives[a].digest>> \in removed

\* A migration runs at most once in the tenant's database however often its
\* operation is retried, only after it was validated on a clone; control knows
\* it as applied only when it ran, and its data generation counts those
\* (apply_migration, record_migration_applied_once).
MigratedOnce ==
  /\ \A m \in Migration :
       /\ tenant.applied[m] <= 1
       /\ tenant.applied[m] = 1 => migrations[m].state \in {"isolated_validated", "applied"}
       /\ migrations[m].state = "applied" => tenant.applied[m] = 1
  /\ database.data = 1 + Cardinality({m \in Migration : migrations[m].state = "applied"})

\* The row an operation is about says it succeeded exactly when the operation
\* did: no late report of another attempt changes a row that is final
\* (complete_operation, apply_completion, apply_unsuccessful_completion).
SuccessIsRecorded ==
  /\ ops[<<"provision", "initial">>].state = "succeeded" <=> Ready
  /\ \A a \in Archive :
       /\ ops[<<"backup", a>>].state = "succeeded" <=> archives[a].state \in {"usable", "deleted"}
       /\ ops[<<"archive_expire", a>>].state = "succeeded" <=> archives[a].state = "deleted"
  /\ \A k \in Week : ops[<<"restore_drill", k>>].state = "succeeded" <=> recoveries[k].state = "validated"
  /\ \A m \in Migration :
       /\ ops[<<"migration_trial", m>>].state = "succeeded" <=>
            migrations[m].state \in {"trial_prepared", "isolated_validated", "applied"}
       /\ ops[<<"migration_live_apply", m>>].state = "succeeded" <=> migrations[m].state = "applied"

\* Every operation that was queued is settled in the end, whatever happens to
\* the workers that lease it (lease_operation, reap_expired_operations).
OperationsSettle ==
  []<>(\A o \in Op : ops[o].state \in Settled \cup {"absent"})
=============================================================================
