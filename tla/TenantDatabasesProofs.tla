----------------------- MODULE TenantDatabasesProofs ------------------------
(***************************************************************************)
(* Machine-checked proofs about TenantDatabases, for any workers,          *)
(* migrations, exports, days, attempts and faults.                         *)
(*                                                                         *)
(* Control's rows read the operations only through two questions: is there *)
(* such an operation, and has it succeeded.  The invariant says, of every  *)
(* row, how it answers them (RowsInv); what a worker that holds an         *)
(* operation has done (WorkerInv); that no two workers hold one attempt    *)
(* (AttemptsInv); and what the backup repository holds (FilesInv).         *)
(***************************************************************************)
EXTENDS TenantDatabases, FiniteSetTheorems, TLAPS

-----------------------------------------------------------------------------
(* The inductive invariant. *)

ProvisionOp == <<"provision", "initial">>
BackupOp(a) == <<"backup", a>>
ExpireOp(a) == <<"archive_expire", a>>
DrillOp(k) == <<"restore_drill", k>>
TrialOp(m) == <<"migration_trial", m>>
LiveOp(m) == <<"migration_live_apply", m>>
ObserveOp(d) == <<"observe_storage", d>>

Succeeded(o) == ops[o].state = "succeeded"
Kept == {"usable", "deleted"}
Validated == {"isolated_validated", "applied"}

DatabaseInv ==
  /\ Absent(ProvisionOp) <=> database.state = "none"
  /\ Succeeded(ProvisionOp) <=> database.state = "ready"

\* An archive's row is made with its backup, and only an expired one is deleted.
ArchiveInv(a) ==
  /\ Absent(BackupOp(a)) <=> archives[a].state = "absent"
  /\ Succeeded(BackupOp(a)) <=> archives[a].state \in Kept
  /\ ~Absent(ExpireOp(a)) => archives[a].state \in Kept /\ Expired(a)
  /\ Succeeded(ExpireOp(a)) <=> archives[a].state = "deleted"

RecoveryInv(k) ==
  /\ Absent(DrillOp(k)) <=> recoveries[k].state = "absent"
  /\ Succeeded(DrillOp(k)) <=> recoveries[k].state = "validated"

\* A migration is tried once planned, and applied once validated; the backup it
\* was planned with stays one.
MigrationInv(m) ==
  /\ migrations[m].state = "absent" => Absent(TrialOp(m))
  /\ Succeeded(TrialOp(m)) <=> migrations[m].state \in {"trial_prepared"} \cup Validated
  /\ Absent(LiveOp(m)) <=> migrations[m].state \notin Validated
  /\ Succeeded(LiveOp(m)) <=> migrations[m].state = "applied"
  /\ \A a \in Archive : migrations[m].archive = a => archives[a].state \in Kept

RowsInv ==
  /\ DatabaseInv
  /\ \A a \in Archive : ArchiveInv(a)
  /\ \A k \in Week : RecoveryInv(k)
  /\ \A m \in Migration : MigrationInv(m)

\* A worker is about to report a success of such an operation.
Done(w, kind) ==
  /\ worker[w].step = "done" /\ worker[w].report.state = "succeeded"
  /\ Kind(worker[w].op) = kind

WorkerInv(w) ==
  /\ worker[w].step # "idle" =>
       /\ worker[w].op \in Op /\ ~Absent(worker[w].op)
       /\ worker[w].attempt # 0
  /\ worker[w].step \in {"linking", "verifying"} => Kind(worker[w].op) = "backup"
  /\ worker[w].step = "done" => worker[w].report.state # "none"
  /\ Done(w, "migration_live_apply") => tenant.applied[KeyOf(worker[w].op)] > 0

TenantInv ==
  /\ TypeOK /\ RowsInv /\ MigratedOnce
  /\ \A w \in Worker : WorkerInv(w)

\* Every attempt was leased to one worker.
AttemptsInv ==
  /\ \A w \in Worker : worker[w].step # "idle" => worker[w].attempt <= ops[worker[w].op].attempts
  /\ \A w, x \in Worker :
       w # x /\ worker[w].step # "idle" /\ worker[x].step # "idle" /\ worker[w].op = worker[x].op
         => worker[w].attempt # worker[x].attempt

\* What a file holds ran in the tenant before it was sealed.
FileInv(a) ==
  /\ objects[a] = NoObject <=> objects[a].digest = 0
  /\ \A m \in objects[a].holds : tenant.applied[m] > 0

\* A backup that is about to be reported is there, unless it was expired, a late
\* attempt removed it, or the report comes late itself.
Backed(w, a, d) ==
  \/ objects[a].digest = d
  \/ ~Absent(ExpireOp(a))
  \/ <<a, d>> \in removed
  \/ ~Live(worker[w].op, worker[w].attempt)

BackupInv(w) ==
  /\ \A m \in worker[w].dump : tenant.applied[m] > 0
  /\ Done(w, "backup") =>
       /\ worker[w].report.digest # 0
       /\ Backed(w, KeyOf(worker[w].op), worker[w].report.digest)

FilesInv ==
  /\ TenantInv /\ AttemptsInv /\ UsableRestores
  /\ \A a \in Archive : FileInv(a)
  /\ \A w \in Worker : BackupInv(w)

-----------------------------------------------------------------------------
(* Names, rows and their fields. *)

LEMMA BoundsTyped ==
  /\ MaxAttempts \in Nat \ {0} /\ Horizon \in Nat /\ MaxTrouble \in Nat
  /\ Retention \in Nat /\ ExportTTL \in Nat /\ 0 \in Day /\ 0 \in 0..MaxAttempts
  /\ Cardinality(Migration) \in Nat /\ 1 \in Generation
BY BoundsAssumption, MigrationAssumption, FS_CardinalityType DEF Day, Generation

LEMMA OpsTyped ==
  /\ ProvisionOp \in Op
  /\ \A a \in Archive : BackupOp(a) \in Op /\ ExpireOp(a) \in Op
  /\ \A k \in Week : DrillOp(k) \in Op
  /\ \A m \in Migration : TrialOp(m) \in Op /\ LiveOp(m) \in Op
  /\ \A d \in Day : ObserveOp(d) \in Op
BY DEF Op, ProvisionOp, BackupOp, ExpireOp, DrillOp, TrialOp, LiveOp, ObserveOp

LEMMA OpsNamed ==
  /\ Kind(ProvisionOp) = "provision"
  /\ \A x : Kind(BackupOp(x)) = "backup" /\ KeyOf(BackupOp(x)) = x
  /\ \A x : Kind(ExpireOp(x)) = "archive_expire" /\ KeyOf(ExpireOp(x)) = x
  /\ \A x : Kind(DrillOp(x)) = "restore_drill" /\ KeyOf(DrillOp(x)) = x
  /\ \A x : Kind(TrialOp(x)) = "migration_trial" /\ KeyOf(TrialOp(x)) = x
  /\ \A x : Kind(LiveOp(x)) = "migration_live_apply" /\ KeyOf(LiveOp(x)) = x
  /\ \A x : Kind(ObserveOp(x)) = "observe_storage"
BY DEF Kind, KeyOf, ProvisionOp, BackupOp, ExpireOp, DrillOp, TrialOp, LiveOp, ObserveOp

\* An operation by its kind.
Named(o) ==
  \/ o = ProvisionOp
  \/ KeyOf(o) \in Archive /\ (o = BackupOp(KeyOf(o)) \/ o = ExpireOp(KeyOf(o)))
  \/ KeyOf(o) \in Day /\ o = ObserveOp(KeyOf(o))
  \/ KeyOf(o) \in Week /\ o = DrillOp(KeyOf(o))
  \/ KeyOf(o) \in Migration /\ (o = TrialOp(KeyOf(o)) \/ o = LiveOp(KeyOf(o)))

LEMMA OpIsNamed ==
  ASSUME NEW o \in Op
  PROVE  Named(o)
BY DEF Op, Named, KeyOf, ProvisionOp, BackupOp, ExpireOp, DrillOp, TrialOp, LiveOp, ObserveOp

LEMMA KeysTyped ==
  ASSUME NEW o \in Op
  PROVE  /\ Kind(o) = "provision" => o = ProvisionOp
         /\ Kind(o) = "backup" => KeyOf(o) \in Archive /\ o = BackupOp(KeyOf(o))
         /\ Kind(o) = "archive_expire" => KeyOf(o) \in Archive /\ o = ExpireOp(KeyOf(o))
         /\ Kind(o) = "restore_drill" => KeyOf(o) \in Week /\ o = DrillOp(KeyOf(o))
         /\ Kind(o) = "migration_trial" => KeyOf(o) \in Migration /\ o = TrialOp(KeyOf(o))
         /\ Kind(o) = "migration_live_apply" => KeyOf(o) \in Migration /\ o = LiveOp(KeyOf(o))
         /\ Kind(o) \in {"provision", "backup", "archive_expire", "restore_drill",
                         "migration_trial", "migration_live_apply", "observe_storage"}
<1>1. Named(o)
  BY OpIsNamed
<1> QED
  BY <1>1, OpsNamed DEF Named

LEMMA ArchivesNamed ==
  /\ \A d \in Day : <<"daily", d>> \in Archive
  /\ \A e \in Export : <<"export", e>> \in Archive
  /\ \A m \in Migration, g \in Generation : <<"pre_migration", <<m, g>>>> \in Archive
  /\ NoArchive \notin Archive
<1>1. /\ \A d \in Day : <<"daily", d>> \in Archive
      /\ \A e \in Export : <<"export", e>> \in Archive
      /\ \A m \in Migration, g \in Generation : <<"pre_migration", <<m, g>>>> \in Archive
  BY DEF Archive
<1>2. \A a \in Archive : a[1] # "none"
  BY DEF Archive
<1>3. NoArchive[1] = "none"
  BY DEF NoArchive
<1> QED BY <1>1, <1>2, <1>3

LEMMA TablesTyped ==
  ASSUME TypeOK
  PROVE  /\ clock \in Day /\ clock \in Nat /\ trouble \in 0..MaxTrouble
         /\ database \in DatabaseRow /\ tenant \in Tenant
         /\ \A o \in Op : ops[o] \in OpRow
         /\ \A a \in Archive : archives[a] \in ArchiveRow /\ objects[a] \in Object
         /\ \A k \in Week : recoveries[k] \in RecoveryRow
         /\ \A m \in Migration : migrations[m] \in MigrationRow
         /\ \A w \in Worker : worker[w] \in Process
BY DEF TypeOK, Day

OpState == {"absent", "queued", "running", "retriable"} \cup Settled

LEMMA OpFields ==
  ASSUME NEW r \in OpRow
  PROVE  /\ r.state \in OpState /\ r.attempts \in 0..MaxAttempts /\ r.attempts \in Nat
         /\ r.live \in BOOLEAN
         /\ \A s \in OpState : /\ [r EXCEPT !.state = s] \in OpRow
                               /\ [r EXCEPT !.state = s].state = s
                               /\ [r EXCEPT !.state = s].attempts = r.attempts
         /\ \A l \in BOOLEAN : /\ [r EXCEPT !.live = l] \in OpRow
                               /\ [r EXCEPT !.live = l].state = r.state
BY BoundsTyped DEF OpRow, OpState

LEMMA OpRowMade ==
  ASSUME NEW s \in OpState, NEW n \in 0..MaxAttempts, NEW l \in BOOLEAN
  PROVE  [state |-> s, attempts |-> n, live |-> l] \in OpRow
BY DEF OpRow, OpState

LEMMA ProcessFields ==
  ASSUME NEW p \in Process
  PROVE  /\ p.step \in {"idle", "leased", "working", "linking", "verifying", "done"}
         /\ p.op \in Op \cup {NoOp} /\ p.attempt \in 0..MaxAttempts
         /\ p.dump \in SUBSET Migration /\ p.report \in Report
BY DEF Process

LEMMA ReportFields ==
  ASSUME NEW r \in Report
  PROVE  /\ r.state \in {"none", "retriable"} \cup Settled /\ r.digest \in 0..MaxAttempts
         /\ r.over \in BOOLEAN /\ r.mode \in Mode /\ r.retained \in BOOLEAN
BY DEF Report

\* The answers an operation gives to a row.
Answers(o) ==
  /\ ops'[o].state = "absent" <=> ops[o].state = "absent"
  /\ ops'[o].state = "succeeded" <=> ops[o].state = "succeeded"

-----------------------------------------------------------------------------
(* Rows that a step leaves alone, or changes in a way the invariant ignores. *)

LEMMA DatabaseSame ==
  ASSUME DatabaseInv, Answers(ProvisionOp),
         database'.state = "none" <=> database.state = "none",
         database'.state = "ready" <=> database.state = "ready"
  PROVE  DatabaseInv'
<1>1. /\ Absent(ProvisionOp)' <=> Absent(ProvisionOp)
      /\ Succeeded(ProvisionOp)' <=> Succeeded(ProvisionOp)
  BY DEF Answers, Absent, Succeeded, ProvisionOp
<1> QED
  BY <1>1 DEF DatabaseInv

LEMMA ArchiveSame ==
  ASSUME NEW a \in Archive, ArchiveInv(a), Answers(BackupOp(a)), Answers(ExpireOp(a)),
         clock \in Nat, clock' \in Nat, clock <= clock', archives[a].expires \in Nat,
         archives'[a].state = "absent" <=> archives[a].state = "absent",
         archives'[a].state = "usable" <=> archives[a].state = "usable",
         archives'[a].state = "deleted" <=> archives[a].state = "deleted",
         archives'[a].expires = archives[a].expires
  PROVE  ArchiveInv(a)'
<1>1. /\ Absent(BackupOp(a))' <=> Absent(BackupOp(a))
      /\ Succeeded(BackupOp(a))' <=> Succeeded(BackupOp(a))
  BY DEF Answers, Absent, Succeeded, BackupOp
<1>2. /\ Absent(ExpireOp(a))' <=> Absent(ExpireOp(a))
      /\ Succeeded(ExpireOp(a))' <=> Succeeded(ExpireOp(a))
  BY DEF Answers, Absent, Succeeded, ExpireOp
<1>3. Expired(a) => Expired(a)'
  BY DEF Expired
<1> QED
  BY <1>1, <1>2, <1>3 DEF ArchiveInv, Kept

LEMMA RecoverySame ==
  ASSUME NEW k \in Week, RecoveryInv(k), Answers(DrillOp(k)),
         recoveries'[k].state = "absent" <=> recoveries[k].state = "absent",
         recoveries'[k].state = "validated" <=> recoveries[k].state = "validated"
  PROVE  RecoveryInv(k)'
<1>1. /\ Absent(DrillOp(k))' <=> Absent(DrillOp(k))
      /\ Succeeded(DrillOp(k))' <=> Succeeded(DrillOp(k))
  BY DEF Answers, Absent, Succeeded, DrillOp
<1> QED
  BY <1>1 DEF RecoveryInv

\* Archives that are kept stay so.
KeptStay == \A a \in Archive : archives[a].state \in Kept => archives'[a].state \in Kept

LEMMA MigrationSame ==
  ASSUME NEW m \in Migration, MigrationInv(m), Answers(TrialOp(m)), Answers(LiveOp(m)), KeptStay,
         \A s \in {"absent", "trial_prepared", "isolated_validated", "applied"} :
           migrations'[m].state = s <=> migrations[m].state = s,
         migrations'[m].archive = migrations[m].archive
  PROVE  MigrationInv(m)'
<1>1. /\ Absent(TrialOp(m))' <=> Absent(TrialOp(m))
      /\ Succeeded(TrialOp(m))' <=> Succeeded(TrialOp(m))
  BY DEF Answers, Absent, Succeeded, TrialOp
<1>2. /\ Absent(LiveOp(m))' <=> Absent(LiveOp(m))
      /\ Succeeded(LiveOp(m))' <=> Succeeded(LiveOp(m))
  BY DEF Answers, Absent, Succeeded, LiveOp
<1>3. /\ migrations'[m].state = "absent" <=> migrations[m].state = "absent"
      /\ migrations'[m].state \in Validated <=> migrations[m].state \in Validated
      /\ migrations'[m].state \in {"trial_prepared"} \cup Validated
           <=> migrations[m].state \in {"trial_prepared"} \cup Validated
      /\ migrations'[m].state = "applied" <=> migrations[m].state = "applied"
  BY DEF Validated
<1>4. \A a \in Archive : migrations'[m].archive = a => archives'[a].state \in Kept
  BY DEF MigrationInv, KeptStay
<1> QED
  BY <1>1, <1>2, <1>3, <1>4 DEF MigrationInv

LEMMA RowsSame ==
  ASSUME TypeOK, RowsInv, UNCHANGED rows, clock' \in Nat, clock <= clock',
         \A o \in Op : Answers(o)
  PROVE  RowsInv'
<1>1. /\ database' = database /\ archives' = archives /\ recoveries' = recoveries
      /\ migrations' = migrations /\ KeptStay
  BY DEF rows, KeptStay
<1>2. DatabaseInv'
  BY <1>1, DatabaseSame, OpsTyped DEF RowsInv
<1>3. ASSUME NEW a \in Archive PROVE ArchiveInv(a)'
  <2>1. clock \in Nat /\ archives[a].expires \in Nat
    BY TablesTyped DEF ArchiveRow
  <2> QED
    BY <1>1, <2>1, ArchiveSame, OpsTyped DEF RowsInv
<1>4. ASSUME NEW k \in Week PROVE RecoveryInv(k)'
  BY <1>1, RecoverySame, OpsTyped DEF RowsInv
<1>5. ASSUME NEW m \in Migration PROVE MigrationInv(m)'
  BY <1>1, MigrationSame, OpsTyped DEF RowsInv
<1> QED
  BY <1>2, <1>3, <1>4, <1>5 DEF RowsInv

LEMMA MigratedSame ==
  ASSUME MigratedOnce, database'.data = database.data,
         \A m \in Migration :
           /\ tenant'.applied[m] = tenant.applied[m]
           /\ \A s \in Validated : migrations'[m].state = s <=> migrations[m].state = s
  PROVE  MigratedOnce'
<1>1. \A m \in Migration :
        /\ migrations'[m].state = "applied" <=> migrations[m].state = "applied"
        /\ migrations'[m].state = "isolated_validated" <=> migrations[m].state = "isolated_validated"
  BY DEF Validated
<1>2. {m \in Migration : migrations'[m].state = "applied"}
        = {m \in Migration : migrations[m].state = "applied"}
  BY <1>1
<1> QED
  BY <1>1, <1>2 DEF MigratedOnce

\* What one worker's step must not take from the others.
LEMMA WorkerSame ==
  ASSUME NEW w \in Worker, TypeOK, WorkerInv(w), worker'[w] = worker[w],
         \A o \in Op : ~Absent(o) => ops'[o].state # "absent",
         \A m \in Migration : tenant.applied[m] > 0 => tenant'.applied[m] > 0
  PROVE  WorkerInv(w)'
<1>1. worker[w].step # "idle" => ops'[worker[w].op].state # "absent"
  BY DEF WorkerInv
<1>2. Done(w, "migration_live_apply") => tenant'.applied[KeyOf(worker[w].op)] > 0
  <2>1. Done(w, "migration_live_apply") => KeyOf(worker[w].op) \in Migration
    BY KeysTyped DEF WorkerInv, Done
  <2> QED BY <2>1 DEF WorkerInv
<1> QED
  BY <1>1, <1>2 DEF WorkerInv, Absent, Done

-----------------------------------------------------------------------------
(* The worker processes. *)

LEMMA IdleTyped ==
  /\ NoReport \in Report /\ NoReport.state = "none"
  /\ Idle \in Process /\ Idle.step = "idle" /\ Idle.dump = {}
<1>1. NoReport \in Report /\ NoReport.state = "none"
  BY BoundsTyped DEF NoReport, Report, Mode
<1> QED
  BY <1>1, BoundsTyped DEF Idle, Process

LEMMA ReportsTyped ==
  /\ Success \in Report /\ Success.state = "succeeded"
  /\ \A d \in 0..MaxAttempts : /\ [Success EXCEPT !.digest = d] \in Report
                               /\ [Success EXCEPT !.digest = d].state = "succeeded"
                               /\ [Success EXCEPT !.digest = d].digest = d
  /\ \A s \in Faults : /\ [NoReport EXCEPT !.state = s] \in Report
                       /\ [NoReport EXCEPT !.state = s].state = s
  /\ \A w : \A s \in {"retriable", "failed"} :
       Failure(w, s) \in Report /\ Failure(w, s).state = s
BY BoundsTyped, FaultsAssumption DEF Success, Failure, NoReport, Report, Mode, Settled

LEMMA ReportsEffect ==
  ASSUME TypeOK, NEW w \in Worker, NEW r \in Report, Reports(w, r)
  PROVE  /\ worker' \in [Worker -> Process]
         /\ \A x \in Worker \ {w} : worker'[x] = worker[x]
         /\ worker'[w].step = "done" /\ worker'[w].report = r
         /\ worker'[w].op = worker[w].op /\ worker'[w].attempt = worker[w].attempt
         /\ worker'[w].dump = worker[w].dump
<1>1. worker \in [Worker -> Process] /\ worker[w] \in Process
  BY DEF TypeOK
<1>2. PICK p : p = [worker[w] EXCEPT !.step = "done", !.report = r]
  OBVIOUS
<1>3. /\ p \in Process /\ p.step = "done" /\ p.report = r
      /\ p.op = worker[w].op /\ p.attempt = worker[w].attempt /\ p.dump = worker[w].dump
  BY <1>1, <1>2 DEF Process
<1>4. worker' = [worker EXCEPT ![w] = p]
  BY <1>1, <1>2 DEF Reports
<1> QED
  BY <1>1, <1>3, <1>4

LEMMA IdleEffect ==
  ASSUME TypeOK, NEW w \in Worker, worker' = [worker EXCEPT ![w] = Idle]
  PROVE  /\ worker' \in [Worker -> Process]
         /\ \A x \in Worker \ {w} : worker'[x] = worker[x]
         /\ worker'[w] = Idle /\ WorkerInv(w)'
<1>1. /\ worker' \in [Worker -> Process] /\ worker'[w] = Idle
      /\ \A x \in Worker \ {w} : worker'[x] = worker[x]
  BY IdleTyped DEF TypeOK
<1> QED
  BY <1>1, IdleTyped DEF WorkerInv, Done

\* A report of an operation in hand: what is left is what a success says.
LEMMA ReportInv ==
  ASSUME TenantInv, NEW w \in Worker, NEW r \in Report, Reports(w, r), r.state # "none",
         worker[w].step # "idle", ops' = ops,
         r.state = "succeeded" /\ Kind(worker[w].op) = "migration_live_apply"
           => tenant'.applied[KeyOf(worker[w].op)] > 0
  PROVE  /\ worker' \in [Worker -> Process]
         /\ \A x \in Worker \ {w} : worker'[x] = worker[x]
         /\ WorkerInv(w)'
<1>1. TypeOK /\ WorkerInv(w)
  BY DEF TenantInv
<1>2. /\ worker' \in [Worker -> Process]
      /\ \A x \in Worker \ {w} : worker'[x] = worker[x]
      /\ worker'[w].step = "done" /\ worker'[w].report = r
      /\ worker'[w].op = worker[w].op /\ worker'[w].attempt = worker[w].attempt
  BY <1>1, ReportsEffect
<1>3. WorkerInv(w)'
  BY <1>1, <1>2 DEF WorkerInv, Done, Absent
<1> QED
  BY <1>2, <1>3

\* A step of a worker at its own work: no row and no operation changes.
LEMMA WorkStep ==
  ASSUME TenantInv, NEW w \in Worker, UNCHANGED <<ops, before, rows>>, clock' = clock,
         trouble' \in 0..MaxTrouble, tenant' \in Tenant, objects' \in [Archive -> Object],
         clones' \subseteq Clone, removed' \subseteq RemovedFile, worker' \in [Worker -> Process],
         \A x \in Worker \ {w} : worker'[x] = worker[x],
         WorkerInv(w)', MigratedOnce',
         \A m \in Migration : tenant.applied[m] > 0 => tenant'.applied[m] > 0
  PROVE  TenantInv'
<1>1. TypeOK /\ RowsInv /\ clock \in Nat
  BY TablesTyped DEF TenantInv
<1>2. TypeOK'
  BY <1>1 DEF TypeOK, rows
<1>3. RowsInv'
  BY <1>1, RowsSame DEF Answers
<1>4. ASSUME NEW x \in Worker PROVE WorkerInv(x)'
  BY <1>1, WorkerSame DEF TenantInv, Absent
<1> QED
  BY <1>2, <1>3, <1>4 DEF TenantInv

LEMMA ToolStep ==
  ASSUME TenantInv, NEW w \in Worker, UNCHANGED <<ops, before, rows>>, clock' = clock,
         trouble' \in 0..MaxTrouble, tenant' \in Tenant, tenant'.applied = tenant.applied,
         objects' \in [Archive -> Object], clones' \subseteq Clone, removed' \subseteq RemovedFile, worker' \in [Worker -> Process],
         \A x \in Worker \ {w} : worker'[x] = worker[x], WorkerInv(w)'
  PROVE  TenantInv'
<1>1. MigratedOnce'
  BY MigratedSame DEF TenantInv, rows
<1> QED
  BY <1>1, WorkStep

LEMMA TroubleEffect ==
  ASSUME TypeOK, Trouble \/ UNCHANGED env
  PROVE  clock' = clock /\ trouble' \in 0..MaxTrouble
BY BoundsTyped DEF TypeOK, Trouble, env

\* The worker after a report, whatever became of the work.
Reported(w) ==
  /\ worker' \in [Worker -> Process]
  /\ \A x \in Worker \ {w} : worker'[x] = worker[x]
  /\ WorkerInv(w)'

LEMMA FailureInv ==
  ASSUME TenantInv, NEW w \in Worker, worker[w].step # "idle", ops' = ops,
         NEW s \in {"retriable", "failed"}, Reports(w, Failure(w, s))
  PROVE  Reported(w)
<1>1. Failure(w, s) \in Report /\ Failure(w, s).state = s
  BY ReportsTyped
<1> QED
  BY <1>1, ReportInv DEF Reported

LEMMA EndsInv ==
  ASSUME TenantInv, NEW w \in Worker, worker[w].step # "idle", ops' = ops,
         NEW r \in Report, r.state = "succeeded", Ends(w, r),
         Kind(worker[w].op) = "migration_live_apply" => tenant'.applied[KeyOf(worker[w].op)] > 0
  PROVE  clock' = clock /\ trouble' \in 0..MaxTrouble /\ Reported(w)
<1>1. CASE Reports(w, r) /\ UNCHANGED env
  <2>1. Reported(w)
    BY <1>1, ReportInv DEF Reported
  <2> QED BY <1>1, <2>1, TroubleEffect DEF TenantInv
<1>2. CASE Trouble /\ \E s \in Faults : Reports(w, Failure(w, s))
  <2>1. Reported(w)
    BY <1>2, FailureInv, FaultsAssumption
  <2> QED BY <1>2, <2>1, TroubleEffect DEF TenantInv
<1> QED
  BY <1>1, <1>2 DEF Ends

LEMMA RefusesInv ==
  ASSUME TenantInv, NEW w \in Worker, worker[w].step # "idle", ops' = ops, Refuses(w)
  PROVE  clock' = clock /\ trouble' \in 0..MaxTrouble /\ Reported(w)
<1>1. Reported(w)
  BY FailureInv DEF Refuses
<1> QED BY <1>1, TroubleEffect DEF TenantInv, Refuses

LEMMA WorkingKind ==
  ASSUME TenantInv, NEW w \in Worker, NEW kind, Working(w, kind)
  PROVE  /\ worker[w].step # "idle" /\ worker[w].op \in Op /\ Kind(worker[w].op) = kind
         /\ ops[worker[w].op].state # "absent"
BY DEF TenantInv, WorkerInv, Working, Absent

\* The steps that only the worker itself sees.
LEMMA OwnStep ==
  ASSUME TenantInv, NEW w \in Worker, UNCHANGED <<ops, before, rows, world>>,
         Trouble \/ UNCHANGED env, Reported(w)
  PROVE  TenantInv'
<1>1. clock' = clock /\ trouble' \in 0..MaxTrouble
  BY TroubleEffect DEF TenantInv
<1>2. /\ tenant' \in Tenant /\ tenant'.applied = tenant.applied
      /\ objects' \in [Archive -> Object] /\ clones' \subseteq Clone /\ removed' \subseteq RemovedFile
  BY DEF TenantInv, TypeOK, world
<1> QED
  BY <1>1, <1>2, ToolStep DEF Reported

LEMMA ResolveCredentialsKeeps ==
  ASSUME TenantInv, NEW w \in Worker, ResolveCredentials(w)
  PROVE  TenantInv'
<1>1. TypeOK /\ WorkerInv(w) /\ worker[w] \in Process /\ ops' = ops
  BY TablesTyped DEF TenantInv, ResolveCredentials
<1>2. CASE Live(worker[w].op, worker[w].attempt)
  <2>1. PICK p : p = [worker[w] EXCEPT !.step = "working"]
    OBVIOUS
  <2>2. /\ p \in Process /\ p.step = "working" /\ p.op = worker[w].op
        /\ p.attempt = worker[w].attempt
    BY <1>1, <2>1 DEF Process
  <2>3. worker' = [worker EXCEPT ![w] = p]
    BY <1>2, <2>1 DEF ResolveCredentials
  <2>4. worker' \in [Worker -> Process] /\ worker'[w] = p
    BY <1>1, <2>2, <2>3 DEF TypeOK
  <2>5. WorkerInv(w)'
    BY <1>1, <2>2, <2>4 DEF WorkerInv, Done, Absent, ResolveCredentials
  <2>6. Reported(w)
    BY <1>1, <2>3, <2>4, <2>5 DEF Reported, TypeOK
  <2> QED BY <2>6, OwnStep DEF ResolveCredentials
<1>3. CASE ~Live(worker[w].op, worker[w].attempt)
  <2>1. worker' = [worker EXCEPT ![w] = Idle]
    BY <1>3 DEF ResolveCredentials
  <2>2. Reported(w)
    BY <1>1, <2>1, IdleEffect DEF Reported
  <2> QED BY <2>2, OwnStep DEF ResolveCredentials
<1> QED
  BY <1>2, <1>3

LEMMA WorkerFailsKeeps ==
  ASSUME TenantInv, NEW w \in Worker, NoCredentials(w) \/ WorkFails(w)
  PROVE  TenantInv'
<1>1. CASE NoCredentials(w)
  <2>1. PICK s \in Faults : Reports(w, [NoReport EXCEPT !.state = s])
    BY <1>1 DEF NoCredentials
  <2>2. [NoReport EXCEPT !.state = s] \in Report /\ [NoReport EXCEPT !.state = s].state = s
    BY ReportsTyped
  <2>3. Reported(w)
    BY <1>1, <2>1, <2>2, ReportInv, FaultsAssumption DEF Reported, NoCredentials
  <2> QED BY <1>1, <2>3, OwnStep DEF NoCredentials
<1>2. CASE WorkFails(w)
  <2>1. Reported(w)
    BY <1>2, FailureInv, FaultsAssumption DEF WorkFails
  <2> QED BY <1>2, <2>1, OwnStep DEF WorkFails
<1> QED
  BY <1>1, <1>2

LEMMA StopKeeps ==
  ASSUME TenantInv, NEW w \in Worker, Stop(w) \/ CompleteRefused(w)
  PROVE  TenantInv'
<1>1. Reported(w)
  BY IdleEffect DEF Stop, CompleteRefused, Answered, Reported, TenantInv
<1> QED
  BY <1>1, OwnStep DEF Stop, CompleteRefused

LEMMA ProvisionKeeps ==
  ASSUME TenantInv, NEW w \in Worker, Provision(w)
  PROVE  TenantInv'
<1>1. Reported(w)
  BY ReportInv, ReportsTyped, WorkingKind DEF Provision, Reported
<1> QED
  BY <1>1, OwnStep DEF Provision

LEMMA DumpAndFindKeeps ==
  ASSUME TenantInv, NEW w \in Worker, DumpAndFind(w)
  PROVE  TenantInv'
<1> DEFINE a == KeyOf(worker[w].op)
           found == objects[a].digest
<1>1. /\ worker[w].step # "idle" /\ worker[w].op \in Op /\ a \in Archive
      /\ Kind(worker[w].op) = "backup" /\ worker[w] \in Process
      /\ found \in 0..MaxAttempts /\ ops' = ops
  BY WorkingKind, KeysTyped, TablesTyped DEF DumpAndFind, TenantInv, Object
<1>2. CASE found # 0
  <2>1. [Success EXCEPT !.digest = found] \in Report /\ [Success EXCEPT !.digest = found].state = "succeeded"
    BY <1>1, ReportsTyped
  <2>2. Reported(w)
    BY <1>1, <1>2, <2>1, ReportInv DEF Reported, DumpAndFind
  <2> QED BY <2>2, OwnStep DEF DumpAndFind
<1>3. CASE found = 0
  <2>1. PICK d : d = {m \in Migration : tenant.applied[m] > 0}
    OBVIOUS
  <2>2. PICK p : p = [worker[w] EXCEPT !.step = "linking", !.dump = d]
    OBVIOUS
  <2>3. /\ p \in Process /\ p.step = "linking" /\ p.op = worker[w].op
        /\ p.attempt = worker[w].attempt
    BY <1>1, <2>1, <2>2 DEF Process
  <2>4. worker' = [worker EXCEPT ![w] = p]
    BY <1>3, <2>1, <2>2 DEF DumpAndFind, TenantInv, TypeOK
  <2>5. worker' \in [Worker -> Process] /\ worker'[w] = p
    BY <2>3, <2>4 DEF TypeOK, TenantInv
  <2>6. WorkerInv(w)'
    BY <1>1, <2>3, <2>5 DEF WorkerInv, Done, Absent, TenantInv
  <2>7. Reported(w)
    BY <2>4, <2>5, <2>6 DEF Reported, TypeOK, TenantInv
  <2> QED BY <2>7, OwnStep DEF DumpAndFind
<1> QED
  BY <1>2, <1>3

LEMMA NoObjectTyped ==
  /\ NoObject \in Object /\ NoObject.digest = 0 /\ NoObject.holds = {}
  /\ \A d \in 0..MaxAttempts, h \in SUBSET Migration :
       [digest |-> d, holds |-> h] \in Object
BY BoundsTyped DEF NoObject, Object

\* The steps at the backup repository.
LEMMA FileStep ==
  ASSUME TenantInv, NEW w \in Worker, UNCHANGED <<ops, before, rows, tenant, clones>>,
         removed' \subseteq RemovedFile, clock' = clock, trouble' \in 0..MaxTrouble, Reported(w),
         \/ objects' = objects
         \/ \E a \in Archive, x \in Object : objects' = [objects EXCEPT ![a] = x]
  PROVE  TenantInv'
<1>1. objects' \in [Archive -> Object] /\ tenant' \in Tenant /\ clones' \subseteq Clone
  BY DEF TenantInv, TypeOK
<1> QED
  BY <1>1, ToolStep DEF Reported

LEMMA LinkObjectKeeps ==
  ASSUME TenantInv, NEW w \in Worker, LinkObject(w)
  PROVE  TenantInv'
<1> DEFINE a == KeyOf(worker[w].op)
<1>1. /\ worker[w].step = "linking" /\ worker[w].op \in Op /\ a \in Archive
      /\ Kind(worker[w].op) = "backup" /\ worker[w] \in Process
      /\ ops' = ops /\ removed' \subseteq RemovedFile
  BY KeysTyped, TablesTyped DEF LinkObject, TenantInv, WorkerInv, TypeOK
<1>2. clock' = clock /\ trouble' \in 0..MaxTrouble
  BY TroubleEffect DEF TenantInv, LinkObject
<1>3. \/ objects' = objects
      \/ \E b \in Archive, x \in Object : objects' = [objects EXCEPT ![b] = x]
  <2>1. [digest |-> worker[w].attempt, holds |-> worker[w].dump] \in Object
    BY <1>1, NoObjectTyped, ProcessFields
  <2> QED BY <1>1, <2>1 DEF LinkObject
<1>4. CASE worker' = [worker EXCEPT ![w].step = "verifying"]
  <2>3. PICK p : p = [worker[w] EXCEPT !.step = "verifying"]
    OBVIOUS
  <2>4. /\ p \in Process /\ p.step = "verifying" /\ p.op = worker[w].op
        /\ p.attempt = worker[w].attempt
    BY <1>1, <2>3 DEF Process
  <2>5. worker' = [worker EXCEPT ![w] = p]
    BY <1>4, <2>3 DEF TenantInv, TypeOK
  <2>6. worker' \in [Worker -> Process] /\ worker'[w] = p
    BY <2>4, <2>5 DEF TypeOK, TenantInv
  <2>7. WorkerInv(w)'
    BY <1>1, <2>4, <2>6 DEF WorkerInv, Done, Absent, TenantInv
  <2>8. Reported(w)
    BY <2>5, <2>6, <2>7 DEF Reported, TypeOK, TenantInv
  <2> QED BY <1>1, <1>2, <1>3, <2>8, FileStep DEF LinkObject
<1>5. CASE Reports(w, Failure(w, "retriable"))
  <2>1. Reported(w)
    BY <1>1, <1>5, FailureInv
  <2> QED BY <1>1, <1>2, <1>3, <2>1, FileStep DEF LinkObject
<1> QED
  BY <1>4, <1>5 DEF LinkObject

LEMMA VerifyObjectKeeps ==
  ASSUME TenantInv, NEW w \in Worker, VerifyObject(w)
  PROVE  TenantInv'
<1> DEFINE a == KeyOf(worker[w].op)
<1>1. /\ worker[w].step = "verifying" /\ worker[w].op \in Op /\ a \in Archive
      /\ Kind(worker[w].op) = "backup"
      /\ ops' = ops /\ UNCHANGED env /\ objects[a].digest \in 0..MaxAttempts
  BY KeysTyped, TablesTyped DEF VerifyObject, TenantInv, WorkerInv, Object
<1>2. CASE Reports(w, [Success EXCEPT !.digest = objects[a].digest])
  <2>1. /\ [Success EXCEPT !.digest = objects[a].digest] \in Report
        /\ [Success EXCEPT !.digest = objects[a].digest].state = "succeeded"
    BY <1>1, ReportsTyped
  <2>2. Reported(w)
    BY <1>1, <1>2, <2>1, ReportInv DEF Reported
  <2> QED BY <1>1, <2>2, OwnStep DEF VerifyObject
<1>3. CASE Reports(w, Failure(w, "failed"))
  <2>1. Reported(w)
    BY <1>1, <1>3, FailureInv
  <2> QED BY <1>1, <2>1, OwnStep DEF VerifyObject
<1> QED
  BY <1>2, <1>3 DEF VerifyObject, ReadBack

LEMMA VerifyFailsKeeps ==
  ASSUME TenantInv, NEW w \in Worker, VerifyFails(w)
  PROVE  TenantInv'
<1> DEFINE a == KeyOf(worker[w].op)
<1>1. /\ worker[w].step = "verifying" /\ worker[w].op \in Op /\ a \in Archive
      /\ Kind(worker[w].op) = "backup"
      /\ ops' = ops /\ objects[a].digest \in 0..MaxAttempts /\ removed \subseteq RemovedFile
  BY KeysTyped, TablesTyped DEF VerifyFails, TenantInv, WorkerInv, Object, TypeOK
<1>2. clock' = clock /\ trouble' \in 0..MaxTrouble
  BY TroubleEffect DEF TenantInv, VerifyFails
<1>3. removed' \subseteq RemovedFile
  <2>1. <<a, objects[a].digest>> \in RemovedFile
    BY <1>1 DEF RemovedFile
  <2> QED BY <1>1, <2>1 DEF VerifyFails
<1>4. Reported(w)
  BY <1>1, FailureInv DEF VerifyFails
<1>5. objects' = [objects EXCEPT ![a] = NoObject]
  BY DEF VerifyFails
<1> QED
  BY <1>1, <1>2, <1>3, <1>4, <1>5, NoObjectTyped, FileStep DEF VerifyFails

LEMMA ExpireKeeps ==
  ASSUME TenantInv, NEW w \in Worker, Expire(w)
  PROVE  TenantInv'
<1> DEFINE a == KeyOf(worker[w].op)
<1>1. /\ worker[w].step # "idle" /\ a \in Archive
      /\ Kind(worker[w].op) = "archive_expire" /\ ops' = ops /\ removed' \subseteq RemovedFile
  BY WorkingKind, KeysTyped DEF Expire, TenantInv, TypeOK
<1>2. CASE objects' = [objects EXCEPT ![a] = NoObject] /\ Ends(w, Success)
  <2>1. clock' = clock /\ trouble' \in 0..MaxTrouble /\ Reported(w)
    BY <1>1, <1>2, ReportsTyped, EndsInv
  <2> QED BY <1>1, <1>2, <2>1, NoObjectTyped, FileStep DEF Expire
<1>3. CASE Refuses(w) /\ UNCHANGED objects
  <2>1. clock' = clock /\ trouble' \in 0..MaxTrouble /\ Reported(w)
    BY <1>1, <1>3, RefusesInv
  <2> QED BY <1>1, <1>3, <2>1, FileStep DEF Expire
<1> QED
  BY <1>2, <1>3 DEF Expire

LEMMA RestoreIntoKeeps ==
  ASSUME TenantInv, NEW w \in Worker, worker[w].step # "idle",
         Kind(worker[w].op) # "migration_live_apply",
         NEW c \in Clone, NEW a, RestoreInto(w, c, a)
  PROVE  TenantInv'
<1>1. ops' = ops
  BY DEF RestoreInto
<1>2. clock' = clock /\ trouble' \in 0..MaxTrouble /\ Reported(w)
  <2>1. CASE Ends(w, Success)
    BY <1>1, <2>1, ReportsTyped, EndsInv
  <2>2. CASE Refuses(w)
    BY <1>1, <2>2, RefusesInv
  <2> QED BY <2>1, <2>2 DEF RestoreInto
<1>3. /\ clones' \subseteq Clone /\ objects' \in [Archive -> Object] /\ tenant' \in Tenant
      /\ removed' \subseteq RemovedFile
      /\ tenant'.applied = tenant.applied
  BY DEF RestoreInto, TenantInv, TypeOK
<1> QED
  BY <1>2, <1>3, ToolStep DEF Reported, RestoreInto

LEMMA RestoreKeeps ==
  ASSUME TenantInv, NEW w \in Worker, Restore(w) \/ Trial(w)
  PROVE  TenantInv'
<1>1. CASE Restore(w)
  <2>1. <<"recovery", KeyOf(worker[w].op)>> \in Clone
    BY <1>1, WorkingKind, KeysTyped DEF Restore, Clone
  <2> QED BY <1>1, <2>1, WorkingKind, RestoreIntoKeeps DEF Restore
<1>2. CASE Trial(w)
  <2>1. <<"migration", KeyOf(worker[w].op)>> \in Clone
    BY <1>2, WorkingKind, KeysTyped DEF Trial, Clone
  <2> QED BY <1>2, <2>1, WorkingKind, RestoreIntoKeeps DEF Trial
<1> QED
  BY <1>1, <1>2

LEMMA ObserveStorageKeeps ==
  ASSUME TenantInv, NEW w \in Worker, ObserveStorage(w)
  PROVE  TenantInv'
<1>1. PICK mode : mode = IF tenant.over THEN "read_only_over_limit" ELSE tenant.mode
  OBVIOUS
<1>2. tenant \in Tenant /\ mode \in Mode /\ tenant.over \in BOOLEAN
  BY <1>1, TablesTyped DEF TenantInv, Tenant, Mode
<1>3. PICK r : r = [Success EXCEPT !.over = tenant.over, !.mode = mode]
  OBVIOUS
<1>4. r \in Report /\ r.state = "succeeded"
  BY <1>2, <1>3, ReportsTyped DEF Report
<1>5. tenant' = [tenant EXCEPT !.mode = mode] /\ Ends(w, r)
  BY <1>1, <1>3 DEF ObserveStorage
<1>6. tenant' \in Tenant /\ tenant'.applied = tenant.applied
  BY <1>2, <1>5 DEF Tenant
<1>7. clock' = clock /\ trouble' \in 0..MaxTrouble /\ Reported(w)
  BY <1>4, <1>5, WorkingKind, EndsInv DEF ObserveStorage
<1>8. clones' \subseteq Clone /\ objects' \in [Archive -> Object] /\ removed' \subseteq RemovedFile
  BY DEF ObserveStorage, TenantInv, TypeOK
<1> QED
  BY <1>6, <1>7, <1>8, ToolStep DEF Reported, ObserveStorage

\* A live migration runs when it was validated and has not run.
LEMMA AppliedOnce ==
  ASSUME TenantInv, NEW m \in Migration, ~Absent(LiveOp(m)), migrations' = migrations,
         database' = database,
         tenant' = [tenant EXCEPT !.applied[m] = IF MustApply(m) THEN @ + 1 ELSE @]
  PROVE  /\ tenant' \in Tenant /\ MigratedOnce' /\ tenant'.applied[m] > 0
         /\ \A x \in Migration : tenant.applied[x] > 0 => tenant'.applied[x] > 0
<1>1. /\ tenant \in Tenant /\ tenant.applied \in [Migration -> Nat] /\ MigratedOnce
      /\ migrations[m].state \in Validated
  BY TablesTyped DEF TenantInv, RowsInv, MigrationInv, Tenant
<1>2. PICK n : n = IF tenant.applied[m] = 0 THEN tenant.applied[m] + 1 ELSE tenant.applied[m]
  OBVIOUS
<1>3. tenant.applied[m] \in Nat /\ tenant.applied[m] <= 1
  BY <1>1 DEF MigratedOnce
<1>4. n = 1
  BY <1>2, <1>3
<1>5. PICK f : f = [tenant.applied EXCEPT ![m] = n]
  OBVIOUS
<1>6. tenant' = [tenant EXCEPT !.applied = f]
  BY <1>2, <1>5, <1>1 DEF MustApply, Tenant
<1>7. f \in [Migration -> Nat] /\ f[m] = 1 /\ \A x \in Migration \ {m} : f[x] = tenant.applied[x]
  BY <1>1, <1>4, <1>5
<1>8. tenant' \in Tenant /\ tenant'.applied = f
  BY <1>1, <1>6, <1>7 DEF Tenant
<1>9. MigratedOnce'
  BY <1>1, <1>7, <1>8 DEF MigratedOnce, Validated
<1> QED
  BY <1>7, <1>8, <1>9

LEMMA LiveApplyKeeps ==
  ASSUME TenantInv, NEW w \in Worker, LiveApply(w)
  PROVE  TenantInv'
<1> DEFINE m == KeyOf(worker[w].op)
<1>1. /\ worker[w].step # "idle" /\ worker[w].op \in Op /\ m \in Migration
      /\ Kind(worker[w].op) = "migration_live_apply" /\ worker[w].op = LiveOp(m)
      /\ ~Absent(LiveOp(m)) /\ ops' = ops
  BY WorkingKind, KeysTyped DEF LiveApply, Absent
<1>2. /\ clones' \subseteq Clone /\ objects' \in [Archive -> Object] /\ removed' \subseteq RemovedFile
      /\ migrations' = migrations /\ database' = database
  BY DEF LiveApply, TenantInv, TypeOK, rows
<1>3. CASE tenant.mode = "writable"
  <2>1. /\ tenant' = [tenant EXCEPT !.applied[m] = IF MustApply(m) THEN @ + 1 ELSE @]
        /\ Ends(w, Success)
    BY <1>3 DEF LiveApply
  <2>2. /\ tenant' \in Tenant /\ MigratedOnce' /\ tenant'.applied[m] > 0
        /\ \A x \in Migration : tenant.applied[x] > 0 => tenant'.applied[x] > 0
    <3> HIDE DEF m
    <3> QED BY <1>1, <1>2, <2>1, AppliedOnce
  <2>3. clock' = clock /\ trouble' \in 0..MaxTrouble /\ Reported(w)
    BY <1>1, <2>1, <2>2, ReportsTyped, EndsInv
  <2> QED
    BY <1>2, <2>2, <2>3, WorkStep DEF Reported, LiveApply
<1>4. CASE tenant.mode # "writable"
  <2>1. Refuses(w) /\ tenant' = tenant
    BY <1>4 DEF LiveApply
  <2>2. clock' = clock /\ trouble' \in 0..MaxTrouble /\ Reported(w)
    BY <1>1, <2>1, RefusesInv
  <2>3. tenant' \in Tenant
    BY <2>1 DEF TenantInv, TypeOK
  <2> QED
    BY <1>2, <2>1, <2>2, <2>3, ToolStep DEF Reported, LiveApply
<1> QED
  BY <1>3, <1>4

-----------------------------------------------------------------------------
(* The steps of the others. *)

LEMMA WorkersKeep ==
  ASSUME TenantInv, worker' = worker, tenant'.applied = tenant.applied,
         \A o \in Op : ~Absent(o) => ops'[o].state # "absent"
  PROVE  \A w \in Worker : WorkerInv(w)'
BY WorkerSame DEF TenantInv

\* A step that touches neither rows nor operations.
LEMMA ElsewhereStep ==
  ASSUME TenantInv, UNCHANGED <<ops, before, rows, worker, objects, removed, clones>>,
         clock' \in Day, clock <= clock', trouble' \in 0..MaxTrouble,
         tenant' \in Tenant, tenant'.applied = tenant.applied
  PROVE  TenantInv'
<1>1. TypeOK'
  BY DEF TenantInv, TypeOK, rows
<1>2. RowsInv'
  BY RowsSame DEF TenantInv, Answers, Day
<1>3. MigratedOnce'
  BY MigratedSame DEF TenantInv, rows
<1>4. \A w \in Worker : WorkerInv(w)'
  BY WorkersKeep DEF Absent
<1> QED
  BY <1>1, <1>2, <1>3, <1>4 DEF TenantInv

LEMMA ResizeKeeps ==
  ASSUME TenantInv, Resize
  PROVE  TenantInv'
<1>1. tenant \in Tenant /\ clock \in Day /\ clock \in Nat
  BY TablesTyped DEF TenantInv
<1>2. tenant' \in Tenant /\ tenant'.applied = tenant.applied
  BY <1>1 DEF Resize, Tenant
<1>3. clock' = clock /\ trouble' \in 0..MaxTrouble
  BY TroubleEffect DEF Resize, TenantInv
<1> QED
  BY <1>1, <1>2, <1>3, ElsewhereStep DEF Resize

LEMMA AdvanceClockKeeps ==
  ASSUME TenantInv, AdvanceClock
  PROVE  TenantInv'
<1>1. tenant \in Tenant /\ clock \in Day /\ clock \in Nat /\ trouble \in 0..MaxTrouble
  BY TablesTyped DEF TenantInv
<1>2. clock' \in Day /\ clock <= clock'
  BY <1>1, BoundsTyped DEF AdvanceClock, Day
<1> QED
  BY <1>1, <1>2, ElsewhereStep DEF AdvanceClock, world

-----------------------------------------------------------------------------
(* The operations table. *)

LEMMA OperationsTyped ==
  ASSUME NEW table \in [Op -> OpRow], NEW created, created \subseteq Op \X Op,
         Operations(table, created)
  PROVE  ops' = table /\ ops' \in [Op -> OpRow] /\ before' \subseteq Op \X Op
BY DEF Operations

\* Steps of the table that no row can tell: leases and failures.
LEMMA QuietStep ==
  ASSUME TenantInv, ops' \in [Op -> OpRow], before' \subseteq Op \X Op,
         \A o \in Op : Answers(o), clock' = clock, trouble' \in 0..MaxTrouble,
         UNCHANGED <<rows, world, worker>>
  PROVE  TenantInv'
<1>1. TypeOK'
  BY DEF TenantInv, TypeOK, rows, world
<1>2. RowsInv'
  BY RowsSame, TablesTyped DEF TenantInv
<1>3. MigratedOnce'
  BY MigratedSame DEF TenantInv, rows, world
<1>4. \A w \in Worker : WorkerInv(w)'
  BY WorkersKeep DEF Absent, Answers, world
<1> QED
  BY <1>1, <1>2, <1>3, <1>4 DEF TenantInv

LEMMA ReapedTyped ==
  ASSUME TypeOK, NEW o \in Op
  PROVE  /\ ReapedRow(o) \in OpRow /\ ReapedRow(o).attempts \in 0..MaxAttempts
         /\ ReapedRow(o).attempts \in Nat
         /\ ReapedRow(o).state = "absent" <=> ops[o].state = "absent"
         /\ ReapedRow(o).state = "succeeded" <=> ops[o].state = "succeeded"
<1>1. ops[o] \in OpRow
  BY TablesTyped
<1>2. PICK s : s = IF ops[o].attempts >= MaxAttempts THEN "failed" ELSE "retriable"
  OBVIOUS
<1>3. s \in OpState /\ s \in {"failed", "retriable"}
  BY <1>2 DEF OpState, Settled
<1>4. CASE ops[o].state = "running" /\ ~ops[o].live
  <2>1. ReapedRow(o) = [ops[o] EXCEPT !.state = s]
    BY <1>2, <1>4 DEF ReapedRow
  <2> QED BY <1>1, <1>3, <1>4, <2>1, OpFields
<1>5. CASE ~(ops[o].state = "running" /\ ~ops[o].live)
  <2>1. ReapedRow(o) = ops[o]
    BY <1>5 DEF ReapedRow
  <2> QED BY <1>1, <2>1, OpFields
<1> QED
  BY <1>4, <1>5

\* The reaped table with another row for one waiting operation.
LEMMA LeaseTable ==
  ASSUME TenantInv, NEW o \in Oldest, NEW r \in OpRow, r.state \in {"running", "failed"},
         Operations([Reaped EXCEPT ![o] = r], before)
  PROVE  /\ o \in Op /\ ops' \in [Op -> OpRow] /\ before' \subseteq Op \X Op
         /\ \A x \in Op : Answers(x)
         /\ ops'[o] = r /\ ~Absent(o) /\ ~Succeeded(o)
<1>1. TypeOK /\ before \subseteq Op \X Op
  BY DEF TenantInv, TypeOK
<1>2. o \in Op /\ ReapedRow(o).state \in {"queued", "retriable"}
  BY DEF Oldest, Waiting
<1>3. Reaped \in [Op -> OpRow] /\ \A x \in Op : Reaped[x] = ReapedRow(x)
  BY <1>1, ReapedTyped DEF Reaped
<1>4. PICK table : table = [Reaped EXCEPT ![o] = r]
  OBVIOUS
<1>5. /\ table \in [Op -> OpRow] /\ table[o] = r
      /\ \A x \in Op \ {o} : table[x] = ReapedRow(x)
  BY <1>2, <1>3, <1>4
<1>6. ops' = table /\ before' \subseteq Op \X Op
  BY <1>1, <1>4, <1>5, OperationsTyped
<1>7. ~Absent(o) /\ ~Succeeded(o)
  BY <1>1, <1>2, ReapedTyped DEF Absent, Succeeded
<1>8. ASSUME NEW x \in Op PROVE Answers(x)
  <2>1. CASE x = o
    BY <1>5, <1>6, <1>7, <2>1 DEF Answers, Absent, Succeeded
  <2>2. CASE x # o
    BY <1>1, <1>5, <1>6, <2>2, ReapedTyped DEF Answers
  <2> QED BY <2>1, <2>2
<1> QED
  BY <1>2, <1>5, <1>6, <1>7, <1>8

LEMMA LeaseRunsOutKeeps ==
  ASSUME TenantInv, NEW o \in Op, LeaseRunsOut(o)
  PROVE  TenantInv'
<1>1. TypeOK /\ ops \in [Op -> OpRow] /\ ops[o] \in OpRow /\ before \subseteq Op \X Op
  BY TablesTyped DEF TenantInv, TypeOK
<1>2. PICK r : r = [ops[o] EXCEPT !.live = FALSE]
  OBVIOUS
<1>3. r \in OpRow /\ r.state = ops[o].state
  BY <1>1, <1>2, OpFields
<1>4. ops' = [ops EXCEPT ![o] = r]
  BY <1>1, <1>2 DEF LeaseRunsOut
<1>5. ops' \in [Op -> OpRow] /\ \A x \in Op : Answers(x)
  BY <1>1, <1>3, <1>4 DEF Answers
<1>6. clock' = clock /\ trouble' \in 0..MaxTrouble
  BY <1>1, TroubleEffect DEF LeaseRunsOut
<1> QED
  BY <1>1, <1>5, <1>6, QuietStep DEF LeaseRunsOut

LEMMA LeaseNoneKeeps ==
  ASSUME TenantInv, LeaseNone
  PROVE  TenantInv'
<1>1. TypeOK /\ before \subseteq Op \X Op
  BY DEF TenantInv, TypeOK
<1>2. Reaped \in [Op -> OpRow] /\ \A x \in Op : Reaped[x] = ReapedRow(x)
  BY <1>1, ReapedTyped DEF Reaped
<1>3. ops' = Reaped /\ ops' \in [Op -> OpRow] /\ before' \subseteq Op \X Op
  BY <1>1, <1>2, OperationsTyped DEF LeaseNone
<1>4. \A x \in Op : Answers(x)
  BY <1>1, <1>2, <1>3, ReapedTyped DEF Answers
<1>5. clock' = clock /\ trouble' \in 0..MaxTrouble
  BY <1>1, TroubleEffect DEF LeaseNone
<1> QED
  BY <1>3, <1>4, <1>5, QuietStep DEF LeaseNone

LEMMA LeaseExhaustedKeeps ==
  ASSUME TenantInv, NEW o \in Oldest, LeaseExhausted(o)
  PROVE  TenantInv'
<1>1. TypeOK /\ o \in Op
  BY DEF TenantInv, Oldest, Waiting
<1>2. Reaped \in [Op -> OpRow] /\ Reaped[o] = ReapedRow(o) /\ ReapedRow(o) \in OpRow
  BY <1>1, ReapedTyped DEF Reaped
<1>3. PICK r : r = [ReapedRow(o) EXCEPT !.state = "failed"]
  OBVIOUS
<1>4. "failed" \in OpState
  BY DEF OpState, Settled
<1>5. r \in OpRow /\ r.state = "failed"
  BY <1>2, <1>3, <1>4, OpFields
<1>6. Operations([Reaped EXCEPT ![o] = r], before)
  BY <1>1, <1>2, <1>3 DEF LeaseExhausted
<1>7. /\ ops' \in [Op -> OpRow] /\ before' \subseteq Op \X Op
      /\ \A x \in Op : Answers(x)
  BY <1>5, <1>6, LeaseTable
<1>8. clock' = clock /\ trouble' \in 0..MaxTrouble
  BY <1>1, TroubleEffect DEF LeaseExhausted
<1> QED
  BY <1>7, <1>8, QuietStep DEF LeaseExhausted

\* Rows that change in ways their operations cannot tell.
LEMMA RowsQuiet ==
  ASSUME TypeOK, RowsInv, clock' = clock, \A o \in Op : Answers(o),
         database'.state = "none" <=> database.state = "none",
         database'.state = "ready" <=> database.state = "ready",
         \A a \in Archive :
           /\ archives'[a].state = "absent" <=> archives[a].state = "absent"
           /\ archives'[a].state = "usable" <=> archives[a].state = "usable"
           /\ archives'[a].state = "deleted" <=> archives[a].state = "deleted"
           /\ archives'[a].expires = archives[a].expires,
         \A k \in Week :
           /\ recoveries'[k].state = "absent" <=> recoveries[k].state = "absent"
           /\ recoveries'[k].state = "validated" <=> recoveries[k].state = "validated",
         \A m \in Migration :
           /\ \A s \in {"absent", "trial_prepared", "isolated_validated", "applied"} :
                migrations'[m].state = s <=> migrations[m].state = s
           /\ migrations'[m].archive = migrations[m].archive
  PROVE  RowsInv'
<1>1. KeptStay
  BY DEF KeptStay, Kept
<1>2. DatabaseInv'
  BY DatabaseSame, OpsTyped DEF RowsInv
<1>3. ASSUME NEW a \in Archive PROVE ArchiveInv(a)'
  <2>1. clock \in Nat /\ archives[a].expires \in Nat
    BY TablesTyped DEF ArchiveRow
  <2> QED
    BY <2>1, ArchiveSame, OpsTyped DEF RowsInv
<1>4. ASSUME NEW k \in Week PROVE RecoveryInv(k)'
  BY RecoverySame, OpsTyped DEF RowsInv
<1>5. ASSUME NEW m \in Migration PROVE MigrationInv(m)'
  BY <1>1, MigrationSame, OpsTyped DEF RowsInv
<1> QED
  BY <1>2, <1>3, <1>4, <1>5 DEF RowsInv

LEMMA LeaseKeeps ==
  ASSUME TenantInv, NEW w \in Worker, NEW o \in Oldest, worker[w].step = "idle", Lease(w, o)
  PROVE  TenantInv'
<1>1. TypeOK /\ RowsInv /\ o \in Op /\ database \in DatabaseRow
  BY TablesTyped DEF TenantInv, Oldest, Waiting
<1>2. PICK n : n = ReapedRow(o).attempts + 1
  OBVIOUS
<1>3. n \in 0..MaxAttempts /\ n # 0
  BY <1>1, <1>2, ReapedTyped, BoundsTyped DEF Lease
<1>4. PICK r : r = [state |-> "running", attempts |-> n, live |-> TRUE]
  OBVIOUS
<1>5. r \in OpRow /\ r.state = "running"
  BY <1>3, <1>4, OpRowMade DEF OpState
<1>6. Operations([Reaped EXCEPT ![o] = r], before)
  BY <1>2, <1>4 DEF Lease
<1>7. /\ ops' \in [Op -> OpRow] /\ before' \subseteq Op \X Op
      /\ \A x \in Op : Answers(x)
      /\ ops'[o] = r
  BY <1>5, <1>6, LeaseTable
<1>8. /\ database' \in DatabaseRow /\ database'.data = database.data
      /\ database'.state = "none" <=> database.state = "none"
      /\ database'.state = "ready" <=> database.state = "ready"
  <2>1. PICK s : s = IF Kind(o) = "provision" /\ database.state = "provision_requested"
                     THEN "provisioning" ELSE database.state
    OBVIOUS
  <2>2. database' = [database EXCEPT !.state = s]
    BY <2>1 DEF Lease
  <2>3. CASE s = "provisioning" /\ database.state = "provision_requested"
    BY <1>1, <2>2, <2>3 DEF DatabaseRow
  <2>4. CASE s = database.state
    BY <1>1, <2>2, <2>4 DEF DatabaseRow
  <2> QED BY <2>1, <2>3, <2>4
<1>9. /\ recoveries' \in [Week -> RecoveryRow]
      /\ \A k \in Week :
           /\ recoveries'[k].state = "absent" <=> recoveries[k].state = "absent"
           /\ recoveries'[k].state = "validated" <=> recoveries[k].state = "validated"
  <2>1. recoveries' = [k \in Week |->
           IF o = <<"restore_drill", k>> /\ recoveries[k].state = "requested"
           THEN [recoveries[k] EXCEPT !.state = "restoring"] ELSE recoveries[k]]
    BY DEF Lease
  <2>2. ASSUME NEW k \in Week
        PROVE  /\ recoveries'[k] \in RecoveryRow
               /\ recoveries'[k].state = "absent" <=> recoveries[k].state = "absent"
               /\ recoveries'[k].state = "validated" <=> recoveries[k].state = "validated"
    <3>1. recoveries[k] \in RecoveryRow
      BY <1>1, TablesTyped
    <3>2. CASE o = <<"restore_drill", k>> /\ recoveries[k].state = "requested"
      <4>1. recoveries'[k] = [recoveries[k] EXCEPT !.state = "restoring"]
        BY <2>1, <3>2
      <4> QED BY <3>1, <3>2, <4>1 DEF RecoveryRow
    <3>3. CASE ~(o = <<"restore_drill", k>> /\ recoveries[k].state = "requested")
      <4>1. recoveries'[k] = recoveries[k]
        BY <2>1, <3>3
      <4> QED BY <3>1, <4>1
    <3> QED BY <3>2, <3>3
  <2> QED BY <2>1, <2>2
<1>10. PICK p : p = [Idle EXCEPT !.step = "leased", !.op = o, !.attempt = n]
  OBVIOUS
<1>11. p \in Process /\ p.step = "leased" /\ p.op = o /\ p.attempt = n
  BY <1>1, <1>3, <1>10, IdleTyped DEF Process
<1>12. worker' = [worker EXCEPT ![w] = p]
  BY <1>2, <1>10 DEF Lease
<1>13. /\ worker' \in [Worker -> Process] /\ worker'[w] = p
       /\ \A x \in Worker \ {w} : worker'[x] = worker[x]
  BY <1>1, <1>11, <1>12 DEF TypeOK
<1>14. WorkerInv(w)'
  BY <1>1, <1>3, <1>5, <1>7, <1>11, <1>13 DEF WorkerInv, Done, Absent
<1>15. ASSUME NEW x \in Worker PROVE WorkerInv(x)'
  <2>1. CASE x = w BY <1>14, <2>1
  <2>2. CASE x # w
    <3>1. tenant' = tenant /\ \A y \in Op : ~Absent(y) => ops'[y].state # "absent"
      BY <1>7 DEF Answers, Absent, Lease, world
    <3> QED BY <1>1, <1>13, <2>2, <3>1, WorkerSame DEF TenantInv
  <2> QED BY <2>1, <2>2
<1>16. clock' = clock /\ trouble' = trouble /\ archives' = archives /\ migrations' = migrations
       /\ tenant' = tenant /\ objects' = objects /\ removed' = removed /\ clones' = clones
  BY DEF Lease, env, world
<1>17. TypeOK'
  BY <1>1, <1>7, <1>8, <1>9, <1>13, <1>16 DEF TypeOK
<1>18. RowsInv'
  BY <1>1, <1>7, <1>8, <1>9, <1>16, RowsQuiet
<1>19. MigratedOnce'
  BY <1>8, <1>16, MigratedSame DEF TenantInv
<1> QED
  BY <1>15, <1>17, <1>18, <1>19 DEF TenantInv

\* A report that is accepted changes the row of its own, running operation.
LEMMA ClosesEffect ==
  ASSUME TenantInv, NEW w \in Worker, NEW o, o = worker[w].op, worker[w].step = "done",
         Live(o, worker[w].attempt), Closes(w)
  PROVE  /\ o \in Op /\ ~Absent(o) /\ ~Succeeded(o)
         /\ worker[w].report.state \in {"retriable", "succeeded", "failed"}
         /\ ops' \in [Op -> OpRow] /\ before' \subseteq Op \X Op
         /\ ops'[o].state = worker[w].report.state
         /\ \A x \in Op \ {o} : ops'[x] = ops[x]
<1>1. /\ TypeOK /\ ops \in [Op -> OpRow] /\ before \subseteq Op \X Op
      /\ worker[w].report \in Report /\ o \in Op /\ worker[w].report.state # "none"
  BY TablesTyped, ProcessFields DEF TenantInv, TypeOK, WorkerInv
<1>2. ops[o] \in OpRow /\ ops[o].state = "running"
  BY <1>1, TablesTyped DEF Live
<1>3. PICK s : s = worker[w].report.state
  OBVIOUS
<1>4. s \in {"retriable", "succeeded", "failed"}
  BY <1>1, <1>3, ReportFields DEF Settled
<1>5. PICK r : r = [ops[o] EXCEPT !.state = s, !.live = FALSE]
  OBVIOUS
<1>6. r \in OpRow /\ r.state = s
  BY <1>2, <1>4, <1>5 DEF OpRow, Settled
<1>7. PICK table : table = [ops EXCEPT ![o] = r]
  OBVIOUS
<1>8. Operations(table, before)
  BY <1>1, <1>3, <1>5, <1>7 DEF Closes
<1>9. table \in [Op -> OpRow] /\ table[o] = r /\ \A x \in Op \ {o} : table[x] = ops[x]
  BY <1>1, <1>6, <1>7
<1>10. ops' = table /\ ops' \in [Op -> OpRow] /\ before' \subseteq Op \X Op
  BY <1>1, <1>8, <1>9, OperationsTyped
<1> QED
  BY <1>1, <1>2, <1>3, <1>4, <1>6, <1>9, <1>10 DEF Absent, Succeeded

\* The workers after an answer.
LEMMA AnsweredInv ==
  ASSUME TenantInv, NEW w \in Worker, Answered(w), tenant' = tenant,
         \A o \in Op : ~Absent(o) => ops'[o].state # "absent"
  PROVE  worker' \in [Worker -> Process] /\ \A x \in Worker : WorkerInv(x)'
<1>1. TypeOK
  BY DEF TenantInv
<1>2. /\ worker' \in [Worker -> Process] /\ WorkerInv(w)'
      /\ \A x \in Worker \ {w} : worker'[x] = worker[x]
  BY <1>1, IdleEffect DEF Answered
<1>3. ASSUME NEW x \in Worker PROVE WorkerInv(x)'
  BY <1>1, <1>2, WorkerSame DEF TenantInv
<1> QED
  BY <1>2, <1>3

LEMMA CompleteFailureKeeps ==
  ASSUME TenantInv, NEW w \in Worker, CompleteFailure(w)
  PROVE  TenantInv'
<1>1. PICK o : o = worker[w].op
  OBVIOUS
<1>2. PICK r : r = worker[w].report
  OBVIOUS
<1>3. TypeOK /\ RowsInv
  BY DEF TenantInv
<1>4. /\ o \in Op /\ ~Absent(o) /\ ~Succeeded(o)
      /\ r.state \in {"retriable", "failed"}
      /\ ops' \in [Op -> OpRow] /\ before' \subseteq Op \X Op
      /\ ops'[o].state = r.state
      /\ \A x \in Op \ {o} : ops'[x] = ops[x]
  BY <1>1, <1>2, ClosesEffect DEF CompleteFailure
<1>5. \A x \in Op : Answers(x)
  BY <1>4 DEF Answers, Absent, Succeeded
<1>6. /\ database' \in DatabaseRow /\ database'.data = database.data
      /\ database'.state = "none" <=> database.state = "none"
      /\ database'.state = "ready" <=> database.state = "ready"
  <2>1. PICK s : s = IF Kind(o) = "provision" /\ r.retained
                     THEN "failed_resources_retained" ELSE database.state
    OBVIOUS
  <2>2. database' = [database EXCEPT !.state = s] /\ database \in DatabaseRow
    BY <1>1, <1>2, <1>3, <2>1, TablesTyped DEF CompleteFailure
  <2>3. CASE s = "failed_resources_retained" /\ Kind(o) = "provision"
    <3>1. database.state # "none" /\ database.state # "ready"
      BY <1>3, <1>4, <2>3, KeysTyped DEF RowsInv, DatabaseInv
    <3> QED BY <2>2, <2>3, <3>1 DEF DatabaseRow
  <2>4. CASE s = database.state
    BY <2>2, <2>4 DEF DatabaseRow
  <2> QED BY <2>1, <2>3, <2>4
<1>7. /\ archives' \in [Archive -> ArchiveRow]
      /\ \A a \in Archive :
           /\ archives'[a].state = "absent" <=> archives[a].state = "absent"
           /\ archives'[a].state = "usable" <=> archives[a].state = "usable"
           /\ archives'[a].state = "deleted" <=> archives[a].state = "deleted"
           /\ archives'[a].expires = archives[a].expires
  <2>1. archives' = [a \in Archive |->
           IF (Kind(o) = "backup" /\ r.state = "failed") /\ KeyOf(o) = a /\ archives[a].state = "creating"
           THEN [archives[a] EXCEPT !.state = "corrupt"] ELSE archives[a]]
    BY <1>1, <1>2 DEF CompleteFailure
  <2>2. ASSUME NEW a \in Archive
        PROVE  /\ archives'[a] \in ArchiveRow
               /\ archives'[a].state = "absent" <=> archives[a].state = "absent"
               /\ archives'[a].state = "usable" <=> archives[a].state = "usable"
               /\ archives'[a].state = "deleted" <=> archives[a].state = "deleted"
               /\ archives'[a].expires = archives[a].expires
    <3>1. archives[a] \in ArchiveRow
      BY <1>3, TablesTyped
    <3>2. \/ archives'[a] = archives[a]
          \/ archives'[a] = [archives[a] EXCEPT !.state = "corrupt"] /\ archives[a].state = "creating"
      BY <2>1
    <3> QED BY <3>1, <3>2 DEF ArchiveRow
  <2> QED BY <2>1, <2>2
<1>8. /\ recoveries' \in [Week -> RecoveryRow]
      /\ \A k \in Week :
           /\ recoveries'[k].state = "absent" <=> recoveries[k].state = "absent"
           /\ recoveries'[k].state = "validated" <=> recoveries[k].state = "validated"
  <2>1. recoveries' = [k \in Week |->
           IF (Kind(o) = "restore_drill" /\ r.state = "failed") /\ KeyOf(o) = k
           THEN [recoveries[k] EXCEPT !.state = "failed"] ELSE recoveries[k]]
    BY <1>1, <1>2 DEF CompleteFailure
  <2>2. ASSUME NEW k \in Week
        PROVE  /\ recoveries'[k] \in RecoveryRow
               /\ recoveries'[k].state = "absent" <=> recoveries[k].state = "absent"
               /\ recoveries'[k].state = "validated" <=> recoveries[k].state = "validated"
    <3>1. recoveries[k] \in RecoveryRow
      BY <1>3, TablesTyped
    <3>2. CASE recoveries'[k] = recoveries[k]
      BY <3>1, <3>2
    <3>3. CASE /\ recoveries'[k] = [recoveries[k] EXCEPT !.state = "failed"]
               /\ Kind(o) = "restore_drill" /\ KeyOf(o) = k
      <4>1. recoveries[k].state # "absent" /\ recoveries[k].state # "validated"
        BY <1>3, <1>4, <3>3, KeysTyped DEF RowsInv, RecoveryInv
      <4> QED BY <3>1, <3>3, <4>1 DEF RecoveryRow
    <3> QED BY <2>1, <3>2, <3>3
  <2> QED BY <2>1, <2>2
<1>9. /\ migrations' \in [Migration -> MigrationRow]
      /\ \A m \in Migration :
           /\ \A s \in {"absent", "trial_prepared", "isolated_validated", "applied"} :
                migrations'[m].state = s <=> migrations[m].state = s
           /\ migrations'[m].archive = migrations[m].archive
  <2>1. migrations' = [m \in Migration |->
           IF (Kind(o) = "migration_trial" /\ r.state = "failed") /\ KeyOf(o) = m /\ migrations[m].state = "planned"
           THEN [migrations[m] EXCEPT !.state = "failed"] ELSE migrations[m]]
    BY <1>1, <1>2 DEF CompleteFailure
  <2>2. ASSUME NEW m \in Migration
        PROVE  /\ migrations'[m] \in MigrationRow
               /\ \A s \in {"absent", "trial_prepared", "isolated_validated", "applied"} :
                    migrations'[m].state = s <=> migrations[m].state = s
               /\ migrations'[m].archive = migrations[m].archive
    <3>1. migrations[m] \in MigrationRow
      BY <1>3, TablesTyped
    <3>2. \/ migrations'[m] = migrations[m]
          \/ migrations'[m] = [migrations[m] EXCEPT !.state = "failed"] /\ migrations[m].state = "planned"
      BY <2>1
    <3> QED BY <3>1, <3>2 DEF MigrationRow
  <2> QED BY <2>1, <2>2
<1>10. /\ clock' = clock /\ trouble' = trouble
       /\ tenant' = tenant /\ objects' = objects /\ removed' = removed /\ clones' = clones
  BY DEF CompleteFailure, env, world
<1>11. worker' \in [Worker -> Process] /\ \A x \in Worker : WorkerInv(x)'
  <2>1. \A x \in Op : ~Absent(x) => ops'[x].state # "absent"
    BY <1>5 DEF Answers, Absent
  <2> QED BY <1>10, <2>1, AnsweredInv DEF CompleteFailure
<1>12. TypeOK'
  BY <1>3, <1>4, <1>6, <1>7, <1>8, <1>9, <1>10, <1>11 DEF TypeOK
<1>13. RowsInv'
  BY <1>3, <1>5, <1>6, <1>7, <1>8, <1>9, <1>10, RowsQuiet
<1>14. MigratedOnce'
  BY <1>6, <1>9, <1>10, MigratedSame DEF TenantInv, Validated
<1> QED
  BY <1>11, <1>12, <1>13, <1>14 DEF TenantInv

-----------------------------------------------------------------------------
(* New operations. *)

LEMMA InsertEffect ==
  ASSUME TenantInv, NEW new \in SUBSET Op, \A o \in new : Absent(o), InsertOperations(new)
  PROVE  /\ ops' \in [Op -> OpRow] /\ before' \subseteq Op \X Op
         /\ \A o \in new : ops'[o].state = "queued"
         /\ \A o \in Op \ new : ops'[o] = ops[o]
<1>1. TypeOK /\ ops \in [Op -> OpRow] /\ before \subseteq Op \X Op /\ ToDo \subseteq Op
  BY DEF TenantInv, TypeOK, ToDo
<1>2. PICK table : table = [o \in Op |-> IF o \in new THEN [ops[o] EXCEPT !.state = "queued"] ELSE ops[o]]
  OBVIOUS
<1>3. PICK created : created = before \cup (ToDo \X new)
  OBVIOUS
<1>4. created \subseteq Op \X Op
  BY <1>1, <1>3
<1>5. ASSUME NEW o \in new PROVE table[o] \in OpRow /\ table[o].state = "queued"
  <2>1. table[o] = [ops[o] EXCEPT !.state = "queued"] /\ ops[o] \in OpRow
    BY <1>1, <1>2
  <2> QED BY <2>1 DEF OpRow
<1>6. ASSUME NEW o \in Op \ new PROVE table[o] = ops[o] /\ table[o] \in OpRow
  BY <1>1, <1>2
<1>7. table \in [Op -> OpRow]
  BY <1>2, <1>5, <1>6
<1>8. Operations(table, created)
  BY <1>2, <1>3 DEF InsertOperations
<1>9. ops' = table /\ ops' \in [Op -> OpRow] /\ before' \subseteq Op \X Op
  BY <1>4, <1>7, <1>8, OperationsTyped
<1> QED
  BY <1>5, <1>6, <1>9

\* What the rows of new operations look like.
DatabaseAsked(new) ==
  IF ProvisionOp \in new THEN database'.state = "provision_requested" ELSE database' = database
ArchiveAsked(new, a) ==
  /\ IF BackupOp(a) \in new THEN archives'[a].state = "creating" ELSE archives'[a] = archives[a]
  /\ ExpireOp(a) \in new => archives[a].state = "usable" /\ Expired(a)
RecoveryAsked(new, k) ==
  IF DrillOp(k) \in new THEN recoveries'[k].state = "requested" ELSE recoveries'[k] = recoveries[k]
MigrationAsked(new, m) ==
  /\ IF LiveOp(m) \in new
     THEN /\ migrations[m].state = "trial_prepared"
          /\ migrations'[m].state = "isolated_validated"
          /\ migrations'[m].archive = migrations[m].archive
     ELSE migrations'[m] = migrations[m]
  /\ TrialOp(m) \in new => migrations[m].state = "planned"
Asked(new) ==
  /\ DatabaseAsked(new) /\ database'.data = database.data
  /\ \A a \in Archive : ArchiveAsked(new, a)
  /\ \A k \in Week : RecoveryAsked(new, k)
  /\ \A m \in Migration : MigrationAsked(new, m)

LEMMA InsertRows ==
  ASSUME TenantInv, NEW new \in SUBSET Op, \A o \in new : Absent(o), InsertOperations(new),
         Asked(new), clock' = clock
  PROVE  RowsInv'
<1>1. /\ TypeOK /\ RowsInv
      /\ \A o \in new : ops'[o].state = "queued" /\ ops[o].state = "absent"
      /\ \A o \in Op \ new : Answers(o)
  BY InsertEffect DEF TenantInv, Answers, Absent
<1>2. DatabaseInv'
  <2>1. CASE ProvisionOp \in new
    BY <1>1, <2>1 DEF Asked, DatabaseAsked, DatabaseInv, Absent, Succeeded
  <2>2. CASE ProvisionOp \notin new
    BY <1>1, <2>2, OpsTyped, DatabaseSame DEF Asked, DatabaseAsked, RowsInv
  <2> QED BY <2>1, <2>2
<1>3. ASSUME NEW a \in Archive PROVE ArchiveInv(a)'
  <2>1. ArchiveInv(a) /\ BackupOp(a) \in Op /\ ExpireOp(a) \in Op /\ ArchiveAsked(new, a)
    BY <1>1, OpsTyped DEF RowsInv, Asked
  <2>2. clock \in Nat /\ archives[a].expires \in Nat
    BY <1>1, TablesTyped DEF ArchiveRow
  <2>3. CASE BackupOp(a) \in new
    <3>1. archives'[a].state = "creating" /\ archives[a].state = "absent"
      BY <1>1, <2>1, <2>3 DEF ArchiveAsked, ArchiveInv, Absent
    <3>2. ExpireOp(a) \notin new /\ ops[ExpireOp(a)].state = "absent"
      BY <2>1, <3>1 DEF ArchiveAsked, ArchiveInv, Absent, Kept
    <3>3. ops'[ExpireOp(a)].state = "absent" /\ ops'[BackupOp(a)].state = "queued"
      BY <1>1, <2>1, <2>3, <3>2 DEF Answers
    <3> QED BY <3>1, <3>3 DEF ArchiveInv, Absent, Succeeded, Kept, ExpireOp, BackupOp
  <2>4. CASE BackupOp(a) \notin new /\ ExpireOp(a) \in new
    <3>1. archives'[a] = archives[a] /\ archives[a].state = "usable" /\ Expired(a)
      BY <2>1, <2>4 DEF ArchiveAsked
    <3>2. /\ ops'[ExpireOp(a)].state = "queued"
          /\ ops'[BackupOp(a)].state = "succeeded"
      BY <1>1, <2>1, <2>4, <3>1 DEF Answers, ArchiveInv, Kept, Succeeded
    <3>3. Expired(a)'
      BY <3>1 DEF Expired
    <3> QED BY <3>1, <3>2, <3>3 DEF ArchiveInv, Absent, Succeeded, Kept, ExpireOp, BackupOp
  <2>5. CASE BackupOp(a) \notin new /\ ExpireOp(a) \notin new
    BY <1>1, <2>1, <2>2, <2>5, ArchiveSame DEF ArchiveAsked
  <2> QED BY <2>3, <2>4, <2>5
<1>4. ASSUME NEW k \in Week PROVE RecoveryInv(k)'
  <2>1. RecoveryInv(k) /\ DrillOp(k) \in Op /\ RecoveryAsked(new, k)
    BY <1>1, OpsTyped DEF RowsInv, Asked
  <2>2. CASE DrillOp(k) \in new
    <3>1. recoveries'[k].state = "requested" /\ ops'[DrillOp(k)].state = "queued"
      BY <1>1, <2>1, <2>2 DEF RecoveryAsked
    <3> QED BY <3>1 DEF RecoveryInv, Absent, Succeeded, DrillOp
  <2>3. CASE DrillOp(k) \notin new
    BY <1>1, <2>1, <2>3, RecoverySame DEF RecoveryAsked
  <2> QED BY <2>2, <2>3
<1>5. KeptStay
  <2>1. ASSUME NEW a \in Archive, archives[a].state \in Kept PROVE archives'[a].state \in Kept
    <3>1. ~Absent(BackupOp(a)) /\ ArchiveAsked(new, a)
      BY <1>1, <2>1 DEF RowsInv, ArchiveInv, Kept, Asked
    <3> QED BY <2>1, <3>1 DEF ArchiveAsked
  <2> QED BY <2>1 DEF KeptStay
<1>6. ASSUME NEW m \in Migration PROVE MigrationInv(m)'
  <2>1. MigrationInv(m) /\ TrialOp(m) \in Op /\ LiveOp(m) \in Op /\ MigrationAsked(new, m)
    BY <1>1, OpsTyped DEF RowsInv, Asked
  <2>2. \A a \in Archive : migrations'[m].archive = a => archives'[a].state \in Kept
    BY <1>5, <2>1 DEF MigrationInv, MigrationAsked, KeptStay
  <2>3. CASE LiveOp(m) \in new
    <3>1. migrations[m].state = "trial_prepared" /\ migrations'[m].state = "isolated_validated"
      BY <2>1, <2>3 DEF MigrationAsked
    <3>2. TrialOp(m) \notin new /\ ops[TrialOp(m)].state = "succeeded"
      BY <2>1, <3>1 DEF MigrationAsked, MigrationInv, Succeeded
    <3>3. ops'[TrialOp(m)].state = "succeeded" /\ ops'[LiveOp(m)].state = "queued"
      BY <1>1, <2>1, <2>3, <3>2 DEF Answers
    <3> QED BY <2>2, <3>1, <3>3 DEF MigrationInv, Absent, Succeeded, Validated, TrialOp, LiveOp
  <2>4. CASE LiveOp(m) \notin new /\ TrialOp(m) \in new
    <3>1. migrations[m].state = "planned" /\ migrations'[m] = migrations[m]
      BY <2>1, <2>4 DEF MigrationAsked
    <3>2. /\ ops'[TrialOp(m)].state = "queued"
          /\ ops'[LiveOp(m)].state = "absent"
      BY <1>1, <2>1, <2>4, <3>1 DEF Answers, MigrationInv, Absent, Validated
    <3> QED BY <2>2, <3>1, <3>2 DEF MigrationInv, Absent, Succeeded, Validated, TrialOp, LiveOp
  <2>5. CASE LiveOp(m) \notin new /\ TrialOp(m) \notin new
    BY <1>1, <1>5, <2>1, <2>5, MigrationSame DEF MigrationAsked
  <2> QED BY <2>3, <2>4, <2>5
<1> QED
  BY <1>2, <1>3, <1>4, <1>6 DEF RowsInv

LEMMA InsertStep ==
  ASSUME TenantInv, NEW new \in SUBSET Op, \A o \in new : Absent(o), InsertOperations(new),
         Asked(new), UNCHANGED <<env, world, worker>>, database' \in DatabaseRow,
         archives' \in [Archive -> ArchiveRow], recoveries' \in [Week -> RecoveryRow],
         migrations' \in [Migration -> MigrationRow]
  PROVE  TenantInv'
<1>1. /\ clock' = clock /\ trouble' = trouble /\ tenant' = tenant /\ worker' = worker
      /\ objects' = objects /\ removed' = removed /\ clones' = clones
  BY DEF env, world
<1>2. RowsInv'
  BY <1>1, InsertRows
<1>3. /\ ops' \in [Op -> OpRow] /\ before' \subseteq Op \X Op
      /\ \A o \in Op : ~Absent(o) => ops'[o].state # "absent"
  BY InsertEffect DEF Absent
<1>4. TypeOK'
  BY <1>1, <1>3 DEF TenantInv, TypeOK
<1>5. MigratedOnce'
  <2>1. ASSUME NEW m \in Migration
        PROVE  /\ migrations'[m].state = "applied" <=> migrations[m].state = "applied"
               /\ migrations[m].state = "isolated_validated" => migrations'[m].state = "isolated_validated"
    BY DEF Asked, MigrationAsked
  <2>2. {m \in Migration : migrations'[m].state = "applied"}
          = {m \in Migration : migrations[m].state = "applied"}
    BY <2>1
  <2>3. database'.data = database.data /\ MigratedOnce
    BY DEF Asked, TenantInv
  <2> QED BY <1>1, <2>1, <2>2, <2>3 DEF MigratedOnce
<1>6. \A w \in Worker : WorkerInv(w)'
  BY <1>1, <1>3, WorkersKeep
<1> QED
  BY <1>2, <1>4, <1>5, <1>6 DEF TenantInv

LEMMA CreateDatabaseKeeps ==
  ASSUME TenantInv, CreateDatabase
  PROVE  TenantInv'
<1>1. PICK new : new = {ProvisionOp}
  OBVIOUS
<1>2. /\ new \in SUBSET Op /\ InsertOperations(new) /\ database \in DatabaseRow
      /\ Absent(ProvisionOp)
  BY <1>1, OpsTyped, TablesTyped DEF CreateDatabase, ProvisionOp, TenantInv, RowsInv, DatabaseInv
<1>3. /\ database' \in DatabaseRow /\ database'.state = "provision_requested"
      /\ database'.data = database.data
  BY <1>2 DEF CreateDatabase, DatabaseRow
<1>4. /\ archives' = archives /\ recoveries' = recoveries /\ migrations' = migrations
      /\ archives' \in [Archive -> ArchiveRow] /\ recoveries' \in [Week -> RecoveryRow]
      /\ migrations' \in [Migration -> MigrationRow]
  BY DEF CreateDatabase, TenantInv, TypeOK
<1>5. Asked(new)
  <2>1. DatabaseAsked(new)
    BY <1>1, <1>3 DEF DatabaseAsked
  <2>2. /\ \A x : BackupOp(x) \notin new /\ ExpireOp(x) \notin new /\ DrillOp(x) \notin new
      /\ \A x : TrialOp(x) \notin new /\ LiveOp(x) \notin new
    BY <1>1, OpsNamed
  <2> QED BY <1>3, <1>4, <2>1, <2>2 DEF Asked, ArchiveAsked, RecoveryAsked, MigrationAsked
<1> QED
  BY <1>1, <1>2, <1>3, <1>4, <1>5, InsertStep DEF CreateDatabase

LEMMA NewArchiveTyped ==
  ASSUME TypeOK, NEW days \in Nat
  PROVE  NewArchive(days) \in ArchiveRow /\ NewArchive(days).state = "creating"
<1>1. clock \in Day /\ clock + days \in Nat
  BY TablesTyped
<1> QED
  BY <1>1, BoundsTyped DEF NewArchive, ArchiveRow

LEMMA NewBackup ==
  ASSUME TenantInv, NEW a \in Archive, NEW days \in Nat, archives[a].state = "absent",
         archives' = [archives EXCEPT ![a] = NewArchive(days)], InsertOperations({BackupOp(a)}),
         UNCHANGED <<env, database, recoveries, migrations, world, worker>>
  PROVE  TenantInv'
<1>1. PICK new : new = {BackupOp(a)}
  OBVIOUS
<1>2. new \in SUBSET Op /\ InsertOperations(new) /\ TypeOK /\ Absent(BackupOp(a))
  BY <1>1, OpsTyped DEF TenantInv, RowsInv, ArchiveInv
<1>3. /\ archives' \in [Archive -> ArchiveRow] /\ archives'[a].state = "creating"
      /\ \A b \in Archive \ {a} : archives'[b] = archives[b]
  BY <1>2, NewArchiveTyped DEF TypeOK
<1>4. /\ database' = database /\ recoveries' = recoveries /\ migrations' = migrations
      /\ database' \in DatabaseRow /\ recoveries' \in [Week -> RecoveryRow]
      /\ migrations' \in [Migration -> MigrationRow]
  BY <1>2 DEF TypeOK
<1>5. Asked(new)
  <2>1. /\ \A x : ExpireOp(x) \notin new /\ DrillOp(x) \notin new
        /\ \A x : TrialOp(x) \notin new /\ LiveOp(x) \notin new
        /\ ProvisionOp \notin new
        /\ \A x : BackupOp(x) \in new <=> x = a
    BY <1>1, OpsNamed
  <2>2. ASSUME NEW b \in Archive PROVE ArchiveAsked(new, b)
    BY <1>3, <2>1 DEF ArchiveAsked
  <2> QED
    BY <1>4, <2>1, <2>2 DEF Asked, DatabaseAsked, RecoveryAsked, MigrationAsked
<1> QED
  BY <1>1, <1>2, <1>3, <1>4, <1>5, InsertStep

LEMMA NewBackupKeeps ==
  ASSUME TenantInv,
         (\E e \in Export : CreateExport(e)) \/ (\E m \in Migration : RequestBackup(m))
  PROVE  TenantInv'
<1>1. ASSUME NEW e \in Export, CreateExport(e) PROVE TenantInv'
  <2>1. PICK a : a = <<"export", e>>
    OBVIOUS
  <2>2. a \in Archive /\ ExportTTL \in Nat
    BY <2>1, ArchivesNamed, BoundsTyped
  <2> QED BY <1>1, <2>1, <2>2, NewBackup DEF CreateExport, BackupOp
<1>2. ASSUME NEW m \in Migration, RequestBackup(m) PROVE TenantInv'
  <2>1. PICK a : a = <<"pre_migration", <<m, database.data>>>>
    OBVIOUS
  <2>2. database.data \in Generation
    BY TablesTyped DEF TenantInv, DatabaseRow
  <2>3. a \in Archive /\ Retention \in Nat
    BY <2>1, <2>2, ArchivesNamed, BoundsTyped
  <2> QED BY <1>2, <2>1, <2>3, NewBackup DEF RequestBackup, BackupOp
<1> QED
  BY <1>1, <1>2

LEMMA WeekTyped ==
  ASSUME TypeOK
  PROVE  WeekOf(clock) \in Week
BY TablesTyped DEF Week

LEMMA CreateRecoveryKeeps ==
  ASSUME TenantInv, NEW a \in Archive, CreateRecovery(a)
  PROVE  TenantInv'
<1>1. PICK k : k = WeekOf(clock)
  OBVIOUS
<1>2. PICK new : new = {DrillOp(k)}
  OBVIOUS
<1>3. /\ k \in Week /\ new \in SUBSET Op /\ InsertOperations(new) /\ TypeOK
      /\ recoveries[k].state = "absent" /\ Absent(DrillOp(k))
  BY <1>1, <1>2, OpsTyped, WeekTyped DEF CreateRecovery, DrillOp, TenantInv, RowsInv, RecoveryInv
<1>4. PICK r : r = [state |-> "requested", archive |-> a]
  OBVIOUS
<1>5. r \in RecoveryRow /\ r.state = "requested"
  BY <1>4 DEF RecoveryRow
<1>6. /\ recoveries' \in [Week -> RecoveryRow] /\ recoveries'[k].state = "requested"
      /\ \A j \in Week \ {k} : recoveries'[j] = recoveries[j]
  BY <1>1, <1>3, <1>4, <1>5 DEF CreateRecovery, TypeOK
<1>7. /\ database' = database /\ archives' = archives /\ migrations' = migrations
      /\ database' \in DatabaseRow /\ archives' \in [Archive -> ArchiveRow]
      /\ migrations' \in [Migration -> MigrationRow]
  BY <1>3 DEF TypeOK, CreateRecovery
<1>8. Asked(new)
  <2>1. /\ \A x : ExpireOp(x) \notin new /\ BackupOp(x) \notin new
        /\ \A x : TrialOp(x) \notin new /\ LiveOp(x) \notin new
        /\ ProvisionOp \notin new
        /\ \A x : DrillOp(x) \in new <=> x = k
    BY <1>2, OpsNamed
  <2>2. ASSUME NEW j \in Week PROVE RecoveryAsked(new, j)
    BY <1>6, <2>1 DEF RecoveryAsked
  <2> QED
    BY <1>7, <2>1, <2>2 DEF Asked, DatabaseAsked, ArchiveAsked, MigrationAsked
<1> QED
  BY <1>2, <1>3, <1>6, <1>7, <1>8, InsertStep DEF CreateRecovery

LEMMA EnqueueTrialKeeps ==
  ASSUME TenantInv, NEW m \in Migration, EnqueueTrial(m)
  PROVE  TenantInv'
<1>1. PICK new : new = {TrialOp(m)}
  OBVIOUS
<1>2. /\ new \in SUBSET Op /\ InsertOperations(new) /\ TypeOK
      /\ migrations[m].state = "planned" /\ Absent(TrialOp(m))
  BY <1>1, OpsTyped DEF EnqueueTrial, TrialOp, TenantInv
<1>3. /\ database' = database /\ archives' = archives /\ recoveries' = recoveries
      /\ migrations' = migrations
      /\ database' \in DatabaseRow /\ archives' \in [Archive -> ArchiveRow]
      /\ recoveries' \in [Week -> RecoveryRow] /\ migrations' \in [Migration -> MigrationRow]
  BY <1>2 DEF TypeOK, EnqueueTrial, rows
<1>4. Asked(new)
  <2>1. /\ \A x : ExpireOp(x) \notin new /\ BackupOp(x) \notin new
        /\ \A x : DrillOp(x) \notin new /\ LiveOp(x) \notin new
        /\ ProvisionOp \notin new
        /\ \A x : TrialOp(x) \in new <=> x = m
    BY <1>1, OpsNamed
  <2> QED
    BY <1>2, <1>3, <2>1 DEF Asked, DatabaseAsked, ArchiveAsked, RecoveryAsked, MigrationAsked
<1> QED
  BY <1>1, <1>2, <1>3, <1>4, InsertStep DEF EnqueueTrial

LEMMA RecordValidationKeeps ==
  ASSUME TenantInv, NEW m \in Migration, RecordValidation(m)
  PROVE  TenantInv'
<1>1. PICK new : new = {LiveOp(m)}
  OBVIOUS
<1>2. /\ new \in SUBSET Op /\ InsertOperations(new) /\ TypeOK
      /\ migrations[m].state = "trial_prepared" /\ migrations[m] \in MigrationRow
      /\ Absent(LiveOp(m))
  BY <1>1, OpsTyped, TablesTyped
     DEF RecordValidation, LiveOp, TenantInv, RowsInv, MigrationInv, Validated
<1>3. PICK r : r = [migrations[m] EXCEPT !.state = "isolated_validated"]
  OBVIOUS
<1>4. r \in MigrationRow /\ r.state = "isolated_validated" /\ r.archive = migrations[m].archive
  BY <1>2, <1>3 DEF MigrationRow
<1>5. /\ migrations' \in [Migration -> MigrationRow] /\ migrations'[m] = r
      /\ \A x \in Migration \ {m} : migrations'[x] = migrations[x]
  BY <1>2, <1>3, <1>4 DEF RecordValidation, TypeOK
<1>6. /\ database' = database /\ archives' = archives /\ recoveries' = recoveries
      /\ database' \in DatabaseRow /\ archives' \in [Archive -> ArchiveRow]
      /\ recoveries' \in [Week -> RecoveryRow]
  BY <1>2 DEF TypeOK, RecordValidation
<1>7. Asked(new)
  <2>1. /\ \A x : ExpireOp(x) \notin new /\ BackupOp(x) \notin new
        /\ \A x : DrillOp(x) \notin new /\ TrialOp(x) \notin new
        /\ ProvisionOp \notin new
        /\ \A x : LiveOp(x) \in new <=> x = m
    BY <1>1, OpsNamed
  <2>2. ASSUME NEW x \in Migration PROVE MigrationAsked(new, x)
    BY <1>2, <1>4, <1>5, <2>1 DEF MigrationAsked
  <2> QED
    BY <1>6, <2>1, <2>2 DEF Asked, DatabaseAsked, ArchiveAsked, RecoveryAsked
<1> QED
  BY <1>1, <1>2, <1>5, <1>6, <1>7, InsertStep DEF RecordValidation

LEMMA PlanMigrationKeeps ==
  ASSUME TenantInv, NEW m \in Migration, PlanMigration(m)
  PROVE  TenantInv'
<1>1. PICK a : a = <<"pre_migration", <<m, database.data>>>>
  OBVIOUS
<1>2. TypeOK /\ RowsInv /\ MigratedOnce /\ database.data \in Generation
  BY TablesTyped DEF TenantInv, DatabaseRow
<1>3. /\ a \in Archive /\ archives[a].state = "usable" /\ migrations[m].state = "absent"
  BY <1>1, <1>2, ArchivesNamed DEF PlanMigration, Restorable
<1>4. PICK r : r = [state |-> "planned", archive |-> a, data |-> database.data]
  OBVIOUS
<1>5. r \in MigrationRow /\ r.state = "planned" /\ r.archive = a
  BY <1>2, <1>3, <1>4 DEF MigrationRow
<1>6. /\ migrations' \in [Migration -> MigrationRow] /\ migrations'[m] = r
      /\ \A x \in Migration \ {m} : migrations'[x] = migrations[x]
  BY <1>1, <1>2, <1>4, <1>5 DEF PlanMigration, TypeOK
<1>7. /\ clock' = clock /\ trouble' = trouble /\ ops' = ops /\ before' = before
      /\ database' = database /\ archives' = archives /\ recoveries' = recoveries
      /\ tenant' = tenant /\ objects' = objects /\ removed' = removed /\ clones' = clones /\ worker' = worker
  BY DEF PlanMigration, env, world
<1>8. TypeOK'
  BY <1>2, <1>6, <1>7 DEF TypeOK
<1>9. \A o \in Op : Answers(o)
  BY <1>7 DEF Answers
<1>10. MigrationInv(m)'
  BY <1>2, <1>3, <1>5, <1>6, <1>7 DEF RowsInv, MigrationInv, Absent, Succeeded, Validated, Kept
<1>11. ASSUME NEW x \in Migration PROVE MigrationInv(x)'
  <2>1. CASE x = m BY <1>10, <2>1
  <2>2. CASE x # m
    <3>1. KeptStay
      BY <1>7 DEF KeptStay
    <3> QED BY <1>2, <1>6, <1>9, <2>2, <3>1, MigrationSame, OpsTyped DEF RowsInv
  <2> QED BY <2>1, <2>2
<1>12. RowsInv'
  BY <1>2, <1>7, <1>11 DEF RowsInv, DatabaseInv, ArchiveInv, RecoveryInv, Absent, Succeeded, Expired
<1>13. MigratedOnce'
  <2>1. \A x \in Migration : \A s \in Validated : migrations'[x].state = s <=> migrations[x].state = s
    BY <1>3, <1>5, <1>6 DEF Validated
  <2> QED BY <1>2, <1>7, <2>1, MigratedSame
<1>14. \A w \in Worker : WorkerInv(w)'
  BY <1>7, WorkersKeep DEF Absent
<1> QED
  BY <1>8, <1>12, <1>13, <1>14 DEF TenantInv

LEMMA SchedulerTickKeeps ==
  ASSUME TenantInv, SchedulerTick
  PROVE  TenantInv'
<1> DEFINE today == <<"daily", clock>>
           k == WeekOf(clock)
           routine == IF Ready THEN {o \in {<<"backup", today>>, <<"observe_storage", clock>>} : Absent(o)}
                               ELSE {}
           due == {a \in Archive : archives[a].state = "usable" /\ Expired(a)
                                     /\ Absent(<<"archive_expire", a>>)}
           drilled == IF Ready /\ recoveries[k].state = "absent" THEN DrillSource ELSE {}
           drills == IF drilled = {} THEN {} ELSE {<<"restore_drill", k>>}
           new == routine \cup ({"archive_expire"} \X due) \cup drills
<1>1. /\ TypeOK /\ RowsInv /\ clock \in Day /\ today \in Archive /\ k \in Week
  BY TablesTyped, ArchivesNamed, WeekTyped DEF TenantInv
<1>2. /\ InsertOperations(new)
      /\ archives' = IF Ready /\ archives[today].state = "absent"
                     THEN [archives EXCEPT ![today] = NewArchive(Retention)] ELSE archives
      /\ recoveries' = [recoveries EXCEPT ![k] =
           IF drilled = {} THEN @
           ELSE [state |-> "requested", archive |-> CHOOSE a \in drilled : TRUE]]
      /\ UNCHANGED <<env, database, migrations, world, worker>>
  BY DEF SchedulerTick
<1>3. \A o \in new : \/ o = BackupOp(today) /\ Ready /\ Absent(o)
                     \/ o = ObserveOp(clock) /\ Absent(o)
                     \/ \E a \in Archive : /\ o = ExpireOp(a) /\ Absent(o)
                                           /\ archives[a].state = "usable" /\ Expired(a)
                     \/ o = DrillOp(k) /\ drilled # {}
  BY DEF BackupOp, ObserveOp, ExpireOp, DrillOp
<1>4. BackupOp(today) \in new <=> Ready /\ archives[today].state = "absent"
  <2>1. BackupOp(today) \in new <=> Ready /\ Absent(BackupOp(today))
    <3>1. Ready /\ Absent(BackupOp(today)) => BackupOp(today) \in new
      BY DEF BackupOp
    <3>2. BackupOp(today) \in new => Ready /\ Absent(BackupOp(today))
      <4> HIDE DEF new
      <4> QED BY <1>3, OpsNamed
    <3> QED BY <3>1, <3>2
  <2> QED BY <1>1, <2>1 DEF RowsInv, ArchiveInv
<1>5. DrillOp(k) \in new <=> drilled # {}
  <2>1. drilled # {} => DrillOp(k) \in new
    BY DEF DrillOp
  <2>2. DrillOp(k) \in new => drilled # {}
    <3> HIDE DEF new, drilled
    <3> QED BY <1>3, OpsNamed
  <2> QED BY <2>1, <2>2
<1>6. drilled # {} => /\ recoveries[k].state = "absent" /\ Absent(DrillOp(k))
                      /\ \A a \in drilled : a \in Archive
  <2>1. DrillSource \subseteq Archive
    BY DEF DrillSource, Archive
  <2> QED BY <1>1, <2>1 DEF RowsInv, RecoveryInv
<1> HIDE DEF new
<1>7. new \in SUBSET Op /\ \A o \in new : Absent(o)
  <2> HIDE DEF drilled, today, k
  <2> QED BY <1>1, <1>3, <1>6, OpsTyped
<1>8. /\ archives' \in [Archive -> ArchiveRow]
      /\ BackupOp(today) \in new => archives'[today].state = "creating"
      /\ BackupOp(today) \notin new => archives'[today] = archives[today]
      /\ \A b \in Archive \ {today} : archives'[b] = archives[b]
  <2>1. NewArchive(Retention) \in ArchiveRow /\ NewArchive(Retention).state = "creating"
    BY <1>1, BoundsTyped, NewArchiveTyped
  <2>2. archives \in [Archive -> ArchiveRow]
    BY <1>1 DEF TypeOK
  <2> HIDE DEF today
  <2> QED BY <1>1, <1>2, <1>4, <2>1, <2>2
<1>9. /\ recoveries' \in [Week -> RecoveryRow]
      /\ DrillOp(k) \in new => recoveries'[k].state = "requested"
      /\ DrillOp(k) \notin new => recoveries'[k] = recoveries[k]
      /\ \A j \in Week \ {k} : recoveries'[j] = recoveries[j]
  <2>1. recoveries \in [Week -> RecoveryRow]
    BY <1>1 DEF TypeOK
  <2>2. PICK b : b = CHOOSE a \in drilled : TRUE
    OBVIOUS
  <2> HIDE DEF drilled, k
  <2>3. CASE drilled = {}
    <3>1. recoveries' = recoveries
      BY <1>1, <1>2, <2>1, <2>3
    <3> QED BY <1>5, <2>1, <2>3, <3>1
  <2>4. CASE drilled # {}
    <3>1. b \in Archive
      BY <1>6, <2>2, <2>4
    <3>2. PICK r : r = [state |-> "requested", archive |-> b]
      OBVIOUS
    <3>3. r \in RecoveryRow /\ r.state = "requested"
      BY <3>1, <3>2 DEF RecoveryRow
    <3>4. recoveries' = [recoveries EXCEPT ![k] = r]
      BY <1>2, <2>2, <2>4, <3>2
    <3> QED BY <1>1, <1>5, <2>1, <2>4, <3>3, <3>4
  <2> QED BY <2>3, <2>4
<1>10. /\ database' = database /\ migrations' = migrations
       /\ database' \in DatabaseRow /\ migrations' \in [Migration -> MigrationRow]
  BY <1>1, <1>2 DEF TypeOK
<1>11. Asked(new)
  <2> HIDE DEF drilled, today, k
  <2>1. /\ \A x : TrialOp(x) \notin new /\ LiveOp(x) \notin new
        /\ ProvisionOp \notin new
        /\ \A x : BackupOp(x) \in new => x = today
        /\ \A x : DrillOp(x) \in new => x = k
        /\ \A x : ExpireOp(x) \in new => archives[x].state = "usable" /\ Expired(x)
    BY <1>3, OpsNamed
  <2>2. ASSUME NEW b \in Archive PROVE ArchiveAsked(new, b)
    BY <1>8, <2>1 DEF ArchiveAsked
  <2>3. ASSUME NEW j \in Week PROVE RecoveryAsked(new, j)
    BY <1>9, <2>1 DEF RecoveryAsked
  <2> QED
    BY <1>10, <2>1, <2>2, <2>3 DEF Asked, DatabaseAsked, MigrationAsked
<1> QED
  BY <1>2, <1>7, <1>8, <1>9, <1>10, <1>11, InsertStep

-----------------------------------------------------------------------------
(* A success, row by row. *)

LEMMA SuccessArchives ==
  ASSUME TypeOK, NEW o \in Op, NEW r \in Report, archives' = SuccessInArchives(o, r)
  PROVE  /\ archives' \in [Archive -> ArchiveRow]
         /\ \A a \in Archive :
              /\ archives'[a].expires = archives[a].expires
              /\ o = BackupOp(a) => archives'[a].state = "usable" /\ archives'[a].digest = r.digest
              /\ o = ExpireOp(a) /\ archives[a].state = "usable" =>
                   archives'[a].state = "deleted" /\ archives'[a].digest = archives[a].digest
              /\ o # BackupOp(a) /\ (o # ExpireOp(a) \/ archives[a].state # "usable") =>
                   archives'[a] = archives[a]
<1>1. archives \in [Archive -> ArchiveRow] /\ r.digest \in 0..MaxAttempts
  BY ReportFields DEF TypeOK
<1>2. CASE Kind(o) = "backup"
  <2>1. PICK b : b = KeyOf(o)
    OBVIOUS
  <2>2. b \in Archive /\ o = BackupOp(b) /\ archives[b] \in ArchiveRow
    BY <1>1, <1>2, <2>1, KeysTyped
  <2>3. PICK x : x = [archives[b] EXCEPT !.state = "usable", !.digest = r.digest]
    OBVIOUS
  <2>4. /\ x \in ArchiveRow /\ x.state = "usable" /\ x.digest = r.digest
        /\ x.expires = archives[b].expires
    BY <1>1, <2>2, <2>3 DEF ArchiveRow
  <2>5. archives' = [archives EXCEPT ![b] = x]
    <3>1. PICK A : A = [archives EXCEPT ![KeyOf(o)].state = "usable", ![KeyOf(o)].digest = r.digest]
      OBVIOUS
    <3>2. archives' = A
      BY <1>2, <3>1 DEF SuccessInArchives, Deletes
    <3> QED BY <1>1, <2>1, <2>2, <2>3, <3>1, <3>2
  <2>6. \A a \in Archive : o # ExpireOp(a) /\ (o = BackupOp(a) <=> a = b)
    BY <2>2, OpsNamed
  <2> QED BY <1>1, <2>2, <2>4, <2>5, <2>6
<1>3. CASE Deletes(o)
  <2>1. PICK b : b = KeyOf(o)
    OBVIOUS
  <2>2. /\ b \in Archive /\ o = ExpireOp(b) /\ archives[b] \in ArchiveRow
        /\ archives[b].state = "usable" /\ Kind(o) # "backup"
    BY <1>1, <1>3, <2>1, KeysTyped DEF Deletes
  <2>3. PICK x : x = [archives[b] EXCEPT !.state = "deleted"]
    OBVIOUS
  <2>4. /\ x \in ArchiveRow /\ x.state = "deleted" /\ x.digest = archives[b].digest
        /\ x.expires = archives[b].expires
    BY <1>1, <2>2, <2>3 DEF ArchiveRow
  <2>5. archives' = [archives EXCEPT ![b] = x]
    BY <1>1, <1>3, <2>1, <2>2, <2>3 DEF SuccessInArchives
  <2>6. \A a \in Archive : o # BackupOp(a) /\ (o = ExpireOp(a) <=> a = b)
    BY <2>2, OpsNamed
  <2> QED BY <1>1, <2>2, <2>4, <2>5, <2>6
<1>4. CASE Kind(o) # "backup" /\ ~Deletes(o)
  <2>1. archives' = archives
    BY <1>4 DEF SuccessInArchives
  <2>2. \A a \in Archive : o # BackupOp(a) /\ (o # ExpireOp(a) \/ archives[a].state # "usable")
    BY <1>4, OpsNamed DEF Deletes
  <2> QED BY <1>1, <2>1, <2>2
<1> QED
  BY <1>2, <1>3, <1>4

LEMMA SuccessRecoveries ==
  ASSUME TypeOK, NEW o \in Op, recoveries' = SuccessInRecoveries(o)
  PROVE  /\ recoveries' \in [Week -> RecoveryRow]
         /\ \A k \in Week : /\ o = DrillOp(k) => recoveries'[k].state = "validated"
                            /\ o # DrillOp(k) => recoveries'[k] = recoveries[k]
<1>1. recoveries \in [Week -> RecoveryRow]
  BY DEF TypeOK
<1>2. CASE Kind(o) = "restore_drill"
  <2>1. PICK j : j = KeyOf(o)
    OBVIOUS
  <2>2. j \in Week /\ o = DrillOp(j) /\ recoveries[j] \in RecoveryRow
    BY <1>1, <1>2, <2>1, KeysTyped
  <2>3. PICK x : x = [recoveries[j] EXCEPT !.state = "validated"]
    OBVIOUS
  <2>4. x \in RecoveryRow /\ x.state = "validated"
    BY <2>2, <2>3 DEF RecoveryRow
  <2>5. recoveries' = [recoveries EXCEPT ![j] = x]
    BY <1>1, <1>2, <2>1, <2>3 DEF SuccessInRecoveries
  <2>6. \A k \in Week : o = DrillOp(k) <=> k = j
    BY <2>2, OpsNamed
  <2> QED BY <1>1, <2>2, <2>4, <2>5, <2>6
<1>3. CASE Kind(o) # "restore_drill"
  BY <1>1, <1>3, OpsNamed DEF SuccessInRecoveries
<1> QED
  BY <1>2, <1>3

LEMMA SuccessMigrations ==
  ASSUME TypeOK, NEW o \in Op, migrations' = SuccessInMigrations(o)
  PROVE  /\ migrations' \in [Migration -> MigrationRow]
         /\ \A m \in Migration :
              /\ migrations'[m].archive = migrations[m].archive
              /\ o = TrialOp(m) => migrations'[m].state = "trial_prepared"
              /\ o = LiveOp(m) => migrations'[m].state = "applied"
              /\ o # TrialOp(m) /\ o # LiveOp(m) => migrations'[m] = migrations[m]
<1>1. migrations \in [Migration -> MigrationRow]
  BY DEF TypeOK
<1>2. ASSUME NEW s \in {"trial_prepared", "applied"}, NEW n \in Migration,
             migrations' = [migrations EXCEPT ![n].state = s]
      PROVE  /\ migrations' \in [Migration -> MigrationRow]
             /\ migrations'[n].state = s
             /\ \A m \in Migration : migrations'[m].archive = migrations[m].archive
             /\ \A m \in Migration \ {n} : migrations'[m] = migrations[m]
  <2>1. PICK x : x = [migrations[n] EXCEPT !.state = s]
    OBVIOUS
  <2>2. x \in MigrationRow /\ x.state = s /\ x.archive = migrations[n].archive
    BY <1>1, <2>1 DEF MigrationRow
  <2>3. migrations' = [migrations EXCEPT ![n] = x]
    BY <1>1, <1>2, <2>1
  <2> QED BY <1>1, <2>2, <2>3
<1>3. PICK n : n = KeyOf(o)
  OBVIOUS
<1>4. CASE Kind(o) = "migration_trial"
  <2>1. n \in Migration /\ \A m \in Migration : (o = TrialOp(m) <=> m = n) /\ o # LiveOp(m)
    BY <1>3, <1>4, KeysTyped, OpsNamed
  <2>2. migrations' = [migrations EXCEPT ![n].state = "trial_prepared"]
    BY <1>3, <1>4 DEF SuccessInMigrations
  <2> QED BY <1>2, <2>1, <2>2
<1>5. CASE Kind(o) = "migration_live_apply"
  <2>1. n \in Migration /\ \A m \in Migration : (o = LiveOp(m) <=> m = n) /\ o # TrialOp(m)
    BY <1>3, <1>5, KeysTyped, OpsNamed
  <2>2. migrations' = [migrations EXCEPT ![n].state = "applied"]
    BY <1>3, <1>5 DEF SuccessInMigrations
  <2> QED BY <1>2, <2>1, <2>2
<1>6. CASE Kind(o) \notin {"migration_trial", "migration_live_apply"}
  <2>1. migrations' = migrations /\ \A m \in Migration : o # LiveOp(m) /\ o # TrialOp(m)
    BY <1>6, OpsNamed DEF SuccessInMigrations
  <2> QED BY <1>1, <2>1
<1> QED
  BY <1>4, <1>5, <1>6

\* One more migration is applied.
LEMMA OneMoreApplied ==
  ASSUME TenantInv, NEW m \in Migration, migrations[m].state = "isolated_validated",
         migrations'[m].state = "applied", \A x \in Migration \ {m} : migrations'[x] = migrations[x]
  PROVE  /\ database.data \in Nat /\ database.data + 1 \in Generation
         /\ database.data + 1 = 1 + Cardinality({x \in Migration : migrations'[x].state = "applied"})
<1>1. PICK A : A = {x \in Migration : migrations[x].state = "applied"}
  OBVIOUS
<1>2. PICK B : B = {x \in Migration : migrations'[x].state = "applied"}
  OBVIOUS
<1>3. A \subseteq Migration /\ m \notin A /\ B = A \cup {m} /\ B \subseteq Migration
  BY <1>1, <1>2
<1>4. IsFiniteSet(A) /\ IsFiniteSet(B) /\ Cardinality(A) \in Nat /\ Cardinality(B) \in Nat
  BY <1>3, MigrationAssumption, FS_Subset, FS_CardinalityType
<1>5. Cardinality(B) = Cardinality(A) + 1
  BY <1>3, <1>4, FS_AddElement
<1>6. Cardinality(B) <= Cardinality(Migration)
  BY <1>3, MigrationAssumption, FS_Subset
<1>7. database.data = 1 + Cardinality(A)
  BY <1>1 DEF TenantInv, MigratedOnce
<1> QED
  BY <1>2, <1>4, <1>5, <1>6, <1>7, BoundsTyped DEF Generation

LEMMA SuccessDatabase ==
  ASSUME TenantInv, NEW o \in Op, NEW r \in Report, database' = SuccessInDatabase(o, r),
         migrations' = SuccessInMigrations(o), tenant' = tenant, Acceptable(o, r),
         Kind(o) = "migration_live_apply" => tenant.applied[KeyOf(o)] > 0
  PROVE  /\ database' \in DatabaseRow /\ MigratedOnce'
         /\ o = ProvisionOp => database'.state = "ready"
         /\ o # ProvisionOp => database'.state = database.state
<1>1. TypeOK /\ database \in DatabaseRow /\ MigratedOnce /\ r.mode \in Mode
  BY TablesTyped, ReportFields DEF TenantInv
<1>2. /\ \A m \in Migration :
              /\ o = TrialOp(m) => migrations'[m].state = "trial_prepared"
              /\ o = LiveOp(m) => migrations'[m].state = "applied"
              /\ o # TrialOp(m) /\ o # LiveOp(m) => migrations'[m] = migrations[m]
  BY <1>1, SuccessMigrations
<1>3. o = ProvisionOp <=> Kind(o) = "provision"
  BY KeysTyped, OpsNamed
<1>4. CASE Kind(o) = "migration_live_apply"
  <2>1. PICK m : m = KeyOf(o)
    OBVIOUS
  <2>2. /\ m \in Migration /\ o = LiveOp(m) /\ o # ProvisionOp
        /\ \A x \in Migration \ {m} : o # LiveOp(x) /\ o # TrialOp(x)
    BY <1>4, <2>1, KeysTyped, OpsNamed
  <2>3. migrations[m].state = "isolated_validated" /\ tenant.applied[m] > 0
    BY <1>4, <2>1 DEF Acceptable, Applicable
  <2>4. /\ migrations'[m].state = "applied"
        /\ \A x \in Migration \ {m} : migrations'[x] = migrations[x]
    BY <1>2, <2>2
  <2>5. /\ database.data + 1 \in Generation
        /\ database.data + 1 = 1 + Cardinality({x \in Migration : migrations'[x].state = "applied"})
    BY <2>2, <2>3, <2>4, OneMoreApplied
  <2>6. database' = [database EXCEPT !.data = database.data + 1]
    BY <1>4 DEF SuccessInDatabase
  <2>7. /\ database' \in DatabaseRow /\ database'.state = database.state
        /\ database'.data = database.data + 1
    BY <1>1, <2>5, <2>6 DEF DatabaseRow
  <2>8. tenant.applied[m] = 1
    <3>1. tenant.applied[m] \in Nat
      BY <1>1, <2>2, TablesTyped DEF Tenant
    <3> QED BY <1>1, <2>2, <2>3, <3>1 DEF MigratedOnce
  <2>9. MigratedOnce'
    BY <1>1, <2>2, <2>4, <2>5, <2>7, <2>8 DEF MigratedOnce
  <2> QED BY <2>2, <2>7, <2>9
<1>5. CASE Kind(o) # "migration_live_apply"
  <2>1. /\ database' \in DatabaseRow /\ database'.data = database.data
        /\ Kind(o) = "provision" => database'.state = "ready"
        /\ Kind(o) # "provision" => database'.state = database.state
    <3>1. CASE Kind(o) = "provision"
      BY <1>1, <3>1 DEF SuccessInDatabase, DatabaseRow
    <3>2. CASE Kind(o) = "observe_storage"
      BY <1>1, <3>2 DEF SuccessInDatabase, DatabaseRow
    <3>3. CASE Kind(o) \notin {"provision", "observe_storage"}
      BY <1>1, <1>5, <3>3 DEF SuccessInDatabase
    <3> QED BY <3>1, <3>2, <3>3
  <2>2. ASSUME NEW m \in Migration, NEW s \in Validated
        PROVE  migrations'[m].state = s <=> migrations[m].state = s
    <3>1. o # LiveOp(m)
      BY <1>5, OpsNamed
    <3>2. CASE o = TrialOp(m)
      <4>1. migrations[m].state = "planned"
        BY <3>2, OpsNamed DEF Acceptable
      <4> QED BY <1>2, <3>2, <4>1 DEF Validated
    <3>3. CASE o # TrialOp(m)
      BY <1>2, <3>1, <3>3
    <3> QED BY <3>2, <3>3
  <2>3. MigratedOnce'
    BY <1>1, <2>1, <2>2, MigratedSame
  <2> QED BY <1>3, <2>1, <2>3
<1> QED
  BY <1>4, <1>5

\* What a success is reported for, and how the table changes.
SuccessStep(w, o, r) ==
  /\ o \in Op /\ r \in Report /\ ~Absent(o) /\ ~Succeeded(o) /\ Acceptable(o, r)
  /\ ops' \in [Op -> OpRow] /\ before' \subseteq Op \X Op
  /\ ops'[o].state = "succeeded" /\ \A x \in Op \ {o} : ops'[x] = ops[x]
  /\ Kind(o) = "migration_live_apply" => tenant.applied[KeyOf(o)] > 0
  /\ database' = SuccessInDatabase(o, r) /\ archives' = SuccessInArchives(o, r)
  /\ recoveries' = SuccessInRecoveries(o) /\ migrations' = SuccessInMigrations(o)
  /\ clock' = clock /\ trouble' = trouble
  /\ tenant' = tenant /\ objects' = objects /\ removed' = removed /\ clones' = clones

LEMMA CompleteSuccessEffect ==
  ASSUME TenantInv, NEW w \in Worker, CompleteSuccess(w)
  PROVE  SuccessStep(w, worker[w].op, worker[w].report)
<1>1. PICK o : o = worker[w].op
  OBVIOUS
<1>2. /\ o \in Op /\ ~Absent(o) /\ ~Succeeded(o)
      /\ ops' \in [Op -> OpRow] /\ before' \subseteq Op \X Op
      /\ ops'[o].state = "succeeded"
      /\ \A x \in Op \ {o} : ops'[x] = ops[x]
  BY <1>1, ClosesEffect DEF CompleteSuccess
<1>3. worker[w].report \in Report
  BY TablesTyped, ProcessFields DEF TenantInv
<1>4. Kind(o) = "migration_live_apply" => tenant.applied[KeyOf(o)] > 0
  BY <1>1 DEF CompleteSuccess, TenantInv, WorkerInv, Done
<1>5. /\ clock' = clock /\ trouble' = trouble
      /\ tenant' = tenant /\ objects' = objects /\ removed' = removed /\ clones' = clones
  BY DEF CompleteSuccess, env, world
<1> QED
  BY <1>1, <1>2, <1>3, <1>4, <1>5 DEF SuccessStep, CompleteSuccess

LEMMA SuccessArchiveInv ==
  ASSUME TenantInv, NEW w, NEW o, NEW r, SuccessStep(w, o, r), NEW a \in Archive
  PROVE  ArchiveInv(a)' /\ (archives[a].state \in Kept => archives'[a].state \in Kept)
<1>1. /\ TypeOK /\ ArchiveInv(a) /\ BackupOp(a) \in Op /\ ExpireOp(a) \in Op
      /\ BackupOp(a) # ExpireOp(a) /\ o \in Op
  BY OpsTyped, OpsNamed DEF TenantInv, RowsInv, SuccessStep
<1>2. /\ archives'[a].expires = archives[a].expires
      /\ o = BackupOp(a) => archives'[a].state = "usable"
      /\ o = ExpireOp(a) /\ archives[a].state = "usable" => archives'[a].state = "deleted"
      /\ o # BackupOp(a) /\ (o # ExpireOp(a) \/ archives[a].state # "usable") =>
            archives'[a] = archives[a]
  BY <1>1, SuccessArchives DEF SuccessStep
<1>3. Expired(a)' <=> Expired(a)
  BY <1>2 DEF Expired, SuccessStep
<1>4. CASE o = BackupOp(a)
  <2>1. archives[a].state = "creating" /\ archives'[a].state = "usable"
    BY <1>2, <1>4, OpsNamed DEF SuccessStep, Acceptable
  <2>2. ops[ExpireOp(a)].state = "absent"
    BY <1>1, <2>1 DEF ArchiveInv, Absent, Kept
  <2>3. ops'[ExpireOp(a)].state = "absent" /\ ops'[BackupOp(a)].state = "succeeded"
    BY <1>1, <1>4, <2>2 DEF SuccessStep
  <2> QED BY <2>1, <2>3 DEF ArchiveInv, Absent, Succeeded, Kept, BackupOp, ExpireOp
<1>5. CASE o = ExpireOp(a)
  <2>1. archives[a].state = "usable" /\ Expired(a)
    BY <1>1, <1>5 DEF SuccessStep, ArchiveInv, Kept
  <2>2. archives'[a].state = "deleted" /\ Expired(a)'
    BY <1>2, <1>3, <1>5, <2>1
  <2>3. ops'[BackupOp(a)].state = "succeeded" /\ ops'[ExpireOp(a)].state = "succeeded"
    BY <1>1, <1>5, <2>1 DEF SuccessStep, ArchiveInv, Kept, Succeeded
  <2> QED BY <2>2, <2>3 DEF ArchiveInv, Absent, Succeeded, Kept, BackupOp, ExpireOp
<1>6. CASE o # BackupOp(a) /\ o # ExpireOp(a)
  <2>1. archives'[a] = archives[a] /\ clock' = clock /\ clock \in Nat /\ archives[a].expires \in Nat
    BY <1>1, <1>2, <1>6, TablesTyped DEF SuccessStep, ArchiveRow
  <2>2. Answers(BackupOp(a)) /\ Answers(ExpireOp(a))
    BY <1>1, <1>6 DEF SuccessStep, Answers
  <2> QED BY <1>1, <2>1, <2>2, ArchiveSame
<1> QED
  BY <1>4, <1>5, <1>6

LEMMA SuccessMigrationInv ==
  ASSUME TenantInv, NEW w, NEW o, NEW r, SuccessStep(w, o, r), KeptStay, NEW m \in Migration
  PROVE  MigrationInv(m)'
<1>1. /\ TypeOK /\ MigrationInv(m) /\ TrialOp(m) \in Op /\ LiveOp(m) \in Op
      /\ TrialOp(m) # LiveOp(m) /\ o \in Op
  BY OpsTyped, OpsNamed DEF TenantInv, RowsInv, SuccessStep
<1>2. /\ migrations'[m].archive = migrations[m].archive
      /\ o = TrialOp(m) => migrations'[m].state = "trial_prepared"
      /\ o = LiveOp(m) => migrations'[m].state = "applied"
      /\ o # TrialOp(m) /\ o # LiveOp(m) => migrations'[m] = migrations[m]
  BY <1>1, SuccessMigrations DEF SuccessStep
<1>3. \A a \in Archive : migrations'[m].archive = a => archives'[a].state \in Kept
  BY <1>1, <1>2 DEF MigrationInv, KeptStay
<1>4. CASE o = TrialOp(m)
  <2>1. migrations[m].state = "planned" /\ migrations'[m].state = "trial_prepared"
    BY <1>2, <1>4, OpsNamed DEF SuccessStep, Acceptable
  <2>2. ops[LiveOp(m)].state = "absent"
    BY <1>1, <2>1 DEF MigrationInv, Absent, Validated
  <2>3. ops'[TrialOp(m)].state = "succeeded" /\ ops'[LiveOp(m)].state = "absent"
    BY <1>1, <1>4, <2>2 DEF SuccessStep
  <2> QED BY <1>3, <2>1, <2>3 DEF MigrationInv, Absent, Succeeded, Validated, TrialOp, LiveOp
<1>5. CASE o = LiveOp(m)
  <2>1. migrations[m].state = "isolated_validated" /\ migrations'[m].state = "applied"
    BY <1>2, <1>5, OpsNamed DEF SuccessStep, Acceptable, Applicable
  <2>2. ops[TrialOp(m)].state = "succeeded"
    BY <1>1, <2>1 DEF MigrationInv, Succeeded, Validated
  <2>3. ops'[TrialOp(m)].state = "succeeded" /\ ops'[LiveOp(m)].state = "succeeded"
    BY <1>1, <1>5, <2>2 DEF SuccessStep
  <2> QED BY <1>3, <2>1, <2>3 DEF MigrationInv, Absent, Succeeded, Validated, TrialOp, LiveOp
<1>6. CASE o # TrialOp(m) /\ o # LiveOp(m)
  <2>1. Answers(TrialOp(m)) /\ Answers(LiveOp(m)) /\ migrations'[m] = migrations[m]
    BY <1>1, <1>2, <1>6 DEF SuccessStep, Answers
  <2> QED BY <1>1, <2>1, MigrationSame
<1> QED
  BY <1>4, <1>5, <1>6

LEMMA CompleteSuccessKeeps ==
  ASSUME TenantInv, NEW w \in Worker, CompleteSuccess(w)
  PROVE  TenantInv'
<1>1. PICK o : o = worker[w].op
  OBVIOUS
<1>2. PICK r : r = worker[w].report
  OBVIOUS
<1>3. SuccessStep(w, o, r) /\ TypeOK /\ RowsInv
  BY <1>1, <1>2, CompleteSuccessEffect DEF TenantInv
<1>4. \A a \in Archive : ArchiveInv(a)' /\ (archives[a].state \in Kept => archives'[a].state \in Kept)
  BY <1>3, SuccessArchiveInv
<1>5. \A m \in Migration : MigrationInv(m)'
  <2>1. KeptStay
    BY <1>4 DEF KeptStay
  <2> QED BY <1>3, <2>1, SuccessMigrationInv
<1>6. /\ database' \in DatabaseRow /\ MigratedOnce'
      /\ o = ProvisionOp => database'.state = "ready"
      /\ o # ProvisionOp => database'.state = database.state
  BY <1>3, SuccessDatabase DEF SuccessStep
<1>7. DatabaseInv'
  <2>1. CASE o = ProvisionOp
    BY <1>3, <1>6, <2>1 DEF SuccessStep, DatabaseInv, Absent, Succeeded
  <2>2. CASE o # ProvisionOp
    <3>1. Answers(ProvisionOp)
      BY <1>3, <2>2, OpsTyped DEF SuccessStep, Answers
    <3> QED BY <1>3, <1>6, <2>2, <3>1, DatabaseSame DEF RowsInv
  <2> QED BY <2>1, <2>2
<1>8. /\ recoveries' \in [Week -> RecoveryRow]
      /\ \A k \in Week : /\ o = DrillOp(k) => recoveries'[k].state = "validated"
                         /\ o # DrillOp(k) => recoveries'[k] = recoveries[k]
  BY <1>3, SuccessRecoveries DEF SuccessStep
<1>9. ASSUME NEW k \in Week PROVE RecoveryInv(k)'
  <2>1. CASE o = DrillOp(k)
    BY <1>3, <1>8, <2>1 DEF SuccessStep, RecoveryInv, Absent, Succeeded
  <2>2. CASE o # DrillOp(k)
    <3>1. Answers(DrillOp(k))
      BY <1>3, <2>2, OpsTyped DEF SuccessStep, Answers
    <3> QED BY <1>3, <1>8, <2>2, <3>1, RecoverySame DEF RowsInv
  <2> QED BY <2>1, <2>2
<1>10. RowsInv'
  BY <1>4, <1>5, <1>7, <1>9 DEF RowsInv
<1>11. archives' \in [Archive -> ArchiveRow] /\ migrations' \in [Migration -> MigrationRow]
  BY <1>3, SuccessArchives, SuccessMigrations DEF SuccessStep
<1>12. worker' \in [Worker -> Process] /\ \A x \in Worker : WorkerInv(x)'
  <2>1. tenant' = tenant /\ \A x \in Op : ~Absent(x) => ops'[x].state # "absent"
    BY <1>3 DEF SuccessStep, Absent
  <2> QED BY <2>1, AnsweredInv DEF CompleteSuccess
<1>13. TypeOK'
  BY <1>3, <1>6, <1>8, <1>11, <1>12 DEF TypeOK, SuccessStep
<1> QED
  BY <1>6, <1>10, <1>12, <1>13 DEF TenantInv

-----------------------------------------------------------------------------
(* The invariant holds. *)

LEMMA InitTenant ==
  ASSUME Init
  PROVE  TenantInv
<1>1. TypeOK
  <2>1. clock \in Day /\ trouble \in 0..MaxTrouble
    BY BoundsTyped DEF Init
  <2>2. /\ database \in DatabaseRow /\ tenant \in Tenant /\ before \subseteq Op \X Op
        /\ clones \subseteq Clone /\ removed \subseteq RemovedFile
    BY BoundsTyped DEF Init, DatabaseRow, Tenant, Mode
  <2>3. ops \in [Op -> OpRow]
    BY BoundsTyped DEF Init, OpRow
  <2>4. archives \in [Archive -> ArchiveRow]
    BY BoundsTyped DEF Init, ArchiveRow
  <2>5. recoveries \in [Week -> RecoveryRow] /\ migrations \in [Migration -> MigrationRow]
    BY DEF Init, RecoveryRow, MigrationRow
  <2>6. objects \in [Archive -> Object] /\ worker \in [Worker -> Process]
    BY NoObjectTyped, IdleTyped DEF Init
  <2> QED BY <2>1, <2>2, <2>3, <2>4, <2>5, <2>6 DEF TypeOK
<1>2. \A o \in Op : Absent(o) /\ ~Succeeded(o)
  BY DEF Init, Absent, Succeeded
<1>3. DatabaseInv
  BY <1>2, OpsTyped DEF Init, DatabaseInv
<1>4. \A a \in Archive : ArchiveInv(a)
  BY <1>2, OpsTyped DEF Init, ArchiveInv, Kept
<1>5. \A k \in Week : RecoveryInv(k)
  BY <1>2, OpsTyped DEF Init, RecoveryInv
<1>6. \A m \in Migration : MigrationInv(m)
  BY <1>2, OpsTyped, ArchivesNamed DEF Init, MigrationInv, Validated
<1>7. MigratedOnce
  <2>1. {m \in Migration : migrations[m].state = "applied"} = {}
    BY DEF Init
  <2>2. Cardinality({}) = 0
    BY FS_EmptySet
  <2>3. /\ database.data = 1
        /\ \A m \in Migration : tenant.applied[m] = 0 /\ migrations[m].state = "absent"
    BY DEF Init
  <2>4. database.data = 1 + Cardinality({m \in Migration : migrations[m].state = "applied"})
    <3>1. Cardinality({m \in Migration : migrations[m].state = "applied"}) = 0
      BY <2>1, <2>2
    <3> QED BY <2>3, <3>1
  <2>5. \A m \in Migration :
          /\ tenant.applied[m] <= 1
          /\ tenant.applied[m] = 1 => migrations[m].state \in {"isolated_validated", "applied"}
          /\ migrations[m].state = "applied" => tenant.applied[m] = 1
    BY <2>3
  <2> QED BY <2>4, <2>5 DEF MigratedOnce
<1>8. \A w \in Worker : WorkerInv(w)
  BY IdleTyped DEF Init, WorkerInv, Done
<1> QED
  BY <1>1, <1>3, <1>4, <1>5, <1>6, <1>7, <1>8 DEF TenantInv, RowsInv

LEMMA StutterTenant ==
  ASSUME TenantInv, UNCHANGED vars
  PROVE  TenantInv'
<1>1. /\ UNCHANGED <<ops, before, rows, worker, objects, removed, clones>> /\ tenant' = tenant
      /\ clock' = clock /\ trouble' = trouble
  BY DEF vars, env, rows, world
<1> QED
  BY <1>1, ElsewhereStep, TablesTyped DEF TenantInv

LEMMA NextTenant ==
  ASSUME TenantInv, [Next]_vars
  PROVE  TenantInv'
<1>1. CASE Request
  BY <1>1, CreateDatabaseKeeps, SchedulerTickKeeps, AdvanceClockKeeps, ResizeKeeps, NewBackupKeeps,
     CreateRecoveryKeeps, PlanMigrationKeeps, EnqueueTrialKeeps, RecordValidationKeeps DEF Request
<1>2. CASE \E o \in Op : LeaseRunsOut(o)
  BY <1>2, LeaseRunsOutKeeps
<1>3. ASSUME NEW w \in Worker, Poll(w) PROVE TenantInv'
  BY <1>3, LeaseNoneKeeps, LeaseExhaustedKeeps, LeaseKeeps DEF Poll
<1>4. ASSUME NEW w \in Worker, Work(w) PROVE TenantInv'
  BY <1>4, ResolveCredentialsKeeps, WorkerFailsKeeps, ProvisionKeeps, DumpAndFindKeeps,
     LinkObjectKeeps, VerifyObjectKeeps, VerifyFailsKeeps, RestoreKeeps, LiveApplyKeeps, ObserveStorageKeeps,
     ExpireKeeps, CompleteSuccessKeeps, CompleteFailureKeeps, StopKeeps DEF Work
<1>5. ASSUME NEW w \in Worker, Stop(w) PROVE TenantInv'
  BY <1>5, StopKeeps
<1>6. CASE UNCHANGED vars
  BY <1>6, StutterTenant
<1> QED
  BY <1>1, <1>2, <1>3, <1>4, <1>5, <1>6 DEF Next

LEMMA TenantInvHolds == Spec => []TenantInv
<1>1. Init => TenantInv
  BY InitTenant
<1>2. TenantInv /\ [Next]_vars => TenantInv'
  BY NextTenant
<1> QED
  BY <1>1, <1>2, PTL DEF Spec

\* Every variable keeps its type: rows, operations and their order, files,
\* clones and worker processes (tenant_databases.rs, worker.rs).
THEOREM TypeCorrect == Spec => []TypeOK
<1>1. TenantInv => TypeOK
  BY DEF TenantInv
<1> QED
  BY <1>1, TenantInvHolds, PTL

\* A migration runs at most once in the tenant's database, only once validated,
\* and is recorded as applied only when it ran (apply_migration,
\* record_migration_applied_once), whether or not sealed files read back.
THEOREM MigrationSafety == Spec => []MigratedOnce
<1>1. TenantInv => MigratedOnce
  BY DEF TenantInv
<1> QED
  BY <1>1, TenantInvHolds, PTL

\* A row says that its operation succeeded exactly when the operation did
\* (complete_operation, apply_completion, apply_unsuccessful_completion).
THEOREM SuccessSafety == Spec => []SuccessIsRecorded
<1>1. TenantInv => SuccessIsRecorded
  <2> SUFFICES ASSUME TenantInv PROVE SuccessIsRecorded
    OBVIOUS
  <2>1. ops[<<"provision", "initial">>].state = "succeeded" <=> Ready
    BY DEF TenantInv, RowsInv, DatabaseInv, Succeeded, ProvisionOp, Ready
  <2>2. \A a \in Archive :
          /\ ops[<<"backup", a>>].state = "succeeded" <=> archives[a].state \in {"usable", "deleted"}
          /\ ops[<<"archive_expire", a>>].state = "succeeded" <=> archives[a].state = "deleted"
    BY DEF TenantInv, RowsInv, ArchiveInv, Succeeded, BackupOp, ExpireOp, Kept
  <2>3. \A k \in Week : ops[<<"restore_drill", k>>].state = "succeeded" <=> recoveries[k].state = "validated"
    BY DEF TenantInv, RowsInv, RecoveryInv, Succeeded, DrillOp
  <2>4. \A m \in Migration :
          /\ ops[<<"migration_trial", m>>].state = "succeeded" <=>
               migrations[m].state \in {"trial_prepared", "isolated_validated", "applied"}
          /\ ops[<<"migration_live_apply", m>>].state = "succeeded" <=> migrations[m].state = "applied"
    BY DEF TenantInv, RowsInv, MigrationInv, Succeeded, TrialOp, LiveOp, Validated
  <2> QED BY <2>1, <2>2, <2>3, <2>4 DEF SuccessIsRecorded
<1> QED
  BY <1>1, TenantInvHolds, PTL

-----------------------------------------------------------------------------
(* Attempts. *)

\* An attempt that is not live never is again, and no removal is forgotten.
OpMoves(o) ==
  \/ ops'[o].attempts > ops[o].attempts
  \/ /\ ops'[o].attempts = ops[o].attempts
     /\ ops'[o].state = "running" /\ ops'[o].live => ops[o].state = "running" /\ ops[o].live
Moves == (\A o \in Op : OpMoves(o)) /\ removed \subseteq removed'

LEMMA InsertMoves ==
  ASSUME TypeOK, NEW new, InsertOperations(new)
  PROVE  \A o \in Op : OpMoves(o)
<1>1. ops' = [o \in Op |-> IF o \in new THEN [ops[o] EXCEPT !.state = "queued"] ELSE ops[o]]
  BY DEF InsertOperations, Operations
<1>2. ASSUME NEW o \in Op PROVE OpMoves(o)
  <2>1. ops[o] \in OpRow /\ "queued" \in OpState
    BY TablesTyped DEF OpState
  <2>2. CASE ops'[o] = [ops[o] EXCEPT !.state = "queued"]
    BY <2>1, <2>2, OpFields DEF OpMoves
  <2>3. CASE ops'[o] = ops[o]
    BY <2>3 DEF OpMoves
  <2> QED BY <1>1, <2>2, <2>3
<1> QED BY <1>2

LEMMA ReapedMoves ==
  ASSUME TypeOK, NEW o \in Op, ops'[o] = ReapedRow(o)
  PROVE  OpMoves(o)
<1>1. ops[o] \in OpRow
  BY TablesTyped
<1>2. PICK s : s = IF ops[o].attempts >= MaxAttempts THEN "failed" ELSE "retriable"
  OBVIOUS
<1>3. s \in OpState /\ s # "running"
  BY <1>2 DEF OpState, Settled
<1>4. CASE ops'[o] = [ops[o] EXCEPT !.state = s]
  BY <1>1, <1>3, <1>4, OpFields DEF OpMoves
<1>5. CASE ops'[o] = ops[o]
  BY <1>5 DEF OpMoves
<1> QED
  BY <1>2, <1>4, <1>5 DEF ReapedRow

\* A lease gives the operation an attempt nobody has had.
LEMMA LeaseMoves ==
  ASSUME TypeOK, NEW w \in Worker, NEW o \in Oldest, Lease(w, o)
  PROVE  /\ \A x \in Op : OpMoves(x)
         /\ o \in Op /\ ops'[o].attempts > ops[o].attempts
         /\ worker'[w].op = o /\ worker'[w].attempt = ops'[o].attempts
         /\ \A x \in Worker \ {w} : worker'[x] = worker[x]
<1>1. o \in Op /\ ops[o] \in OpRow
  BY TablesTyped DEF Oldest, Waiting
<1>2. ReapedRow(o).attempts = ops[o].attempts /\ ops[o].attempts \in Nat
  <2>1. PICK s : s = IF ops[o].attempts >= MaxAttempts THEN "failed" ELSE "retriable"
    OBVIOUS
  <2>2. s \in OpState
    BY <2>1 DEF OpState, Settled
  <2>3. ReapedRow(o) = [ops[o] EXCEPT !.state = s] \/ ReapedRow(o) = ops[o]
    BY <2>1 DEF ReapedRow
  <2> QED BY <1>1, <2>2, <2>3, OpFields
<1>3. PICK n : n = ReapedRow(o).attempts + 1
  OBVIOUS
<1>4. PICK r : r = [state |-> "running", attempts |-> n, live |-> TRUE]
  OBVIOUS
<1>5. r.attempts = n /\ n > ops[o].attempts
  BY <1>2, <1>3, <1>4
<1>6. ops' = [Reaped EXCEPT ![o] = r]
  BY <1>3, <1>4 DEF Lease, Operations
<1>7. ops'[o] = r /\ \A x \in Op \ {o} : ops'[x] = ReapedRow(x)
  BY <1>1, <1>6 DEF Reaped
<1>8. OpMoves(o)
  BY <1>5, <1>7 DEF OpMoves
<1>9. PICK p : p = [Idle EXCEPT !.step = "leased", !.op = o, !.attempt = n]
  OBVIOUS
<1>10. p.op = o /\ p.attempt = n
  BY <1>9, IdleTyped DEF Process
<1>11. worker' = [worker EXCEPT ![w] = p]
  BY <1>3, <1>9 DEF Lease
<1>12. worker'[w] = p /\ \A x \in Worker \ {w} : worker'[x] = worker[x]
  BY <1>11 DEF TypeOK
<1> QED
  BY <1>1, <1>5, <1>7, <1>8, <1>10, <1>12, ReapedMoves

LEMMA PollMoves ==
  ASSUME TenantInv, NEW w \in Worker, Poll(w)
  PROVE  \A o \in Op : OpMoves(o)
<1>1. TypeOK
  BY DEF TenantInv
<1>2. CASE LeaseNone
  <2>1. ops' = [o \in Op |-> ReapedRow(o)]
    BY <1>2 DEF LeaseNone, Operations, Reaped
  <2> QED BY <1>1, <2>1, ReapedMoves
<1>3. ASSUME NEW o \in Oldest, LeaseExhausted(o) PROVE \A x \in Op : OpMoves(x)
  <2>1. /\ o \in Op /\ ReapedRow(o) \in OpRow /\ Reaped[o] = ReapedRow(o) /\ "failed" \in OpState
        /\ ReapedRow(o).attempts = ops[o].attempts
    <3>1. o \in Op /\ ops[o] \in OpRow
      BY <1>1, TablesTyped DEF Oldest, Waiting
    <3>2. PICK s : s = IF ops[o].attempts >= MaxAttempts THEN "failed" ELSE "retriable"
      OBVIOUS
    <3>3. s \in OpState /\ "failed" \in OpState
      BY <3>2 DEF OpState, Settled
    <3>4. ReapedRow(o) = [ops[o] EXCEPT !.state = s] \/ ReapedRow(o) = ops[o]
      BY <3>2 DEF ReapedRow
    <3>5. ReapedRow(o).attempts = ops[o].attempts
      BY <3>1, <3>3, <3>4, OpFields
    <3>6. ReapedRow(o) \in OpRow /\ Reaped[o] = ReapedRow(o)
      BY <1>1, <3>1, ReapedTyped DEF Reaped
    <3> QED BY <3>1, <3>3, <3>5, <3>6
  <2>2. PICK r : r = [ReapedRow(o) EXCEPT !.state = "failed"]
    OBVIOUS
  <2>3. r.state = "failed" /\ r.attempts = ops[o].attempts
    BY <2>1, <2>2, OpFields
  <2>4. ops' = [Reaped EXCEPT ![o] = r]
    BY <1>3, <2>1, <2>2 DEF LeaseExhausted, Operations
  <2>5. ops'[o] = r /\ \A x \in Op \ {o} : ops'[x] = ReapedRow(x)
    BY <2>1, <2>4 DEF Reaped
  <2>6. OpMoves(o)
    BY <2>3, <2>5 DEF OpMoves
  <2> QED BY <1>1, <2>5, <2>6, ReapedMoves
<1>4. ASSUME NEW o \in Oldest, Lease(w, o) PROVE \A x \in Op : OpMoves(x)
  BY <1>1, <1>4, LeaseMoves
<1> QED
  BY <1>2, <1>3, <1>4 DEF Poll

LEMMA WorkMoves ==
  ASSUME TenantInv, NEW w \in Worker, Work(w) \/ Stop(w)
  PROVE  Moves
<1>1. TypeOK /\ ops \in [Op -> OpRow]
  BY DEF TenantInv, TypeOK
<1>2. ASSUME ops' = ops, removed \subseteq removed' PROVE Moves
  BY <1>2 DEF Moves, OpMoves
<1>3. CASE CompleteSuccess(w) \/ CompleteFailure(w)
  <2>1. PICK o : o = worker[w].op
    OBVIOUS
  <2>2. /\ o \in Op /\ ops[o] \in OpRow /\ \A x \in Op \ {o} : ops'[x] = ops[x]
    BY <1>1, <1>3, <2>1, ClosesEffect DEF CompleteSuccess, CompleteFailure
  <2>3. PICK r : r = [ops[o] EXCEPT !.state = worker[w].report.state, !.live = FALSE]
    OBVIOUS
  <2>4. r.live = FALSE /\ r.attempts = ops[o].attempts
    BY <2>2, <2>3 DEF OpRow
  <2>5. ops'[o] = r
    BY <1>1, <1>3, <2>1, <2>2, <2>3 DEF CompleteSuccess, CompleteFailure, Closes, Operations
  <2>6. OpMoves(o) /\ \A x \in Op \ {o} : OpMoves(x)
    BY <2>2, <2>4, <2>5 DEF OpMoves
  <2> QED BY <1>3, <2>6 DEF Moves, CompleteSuccess, CompleteFailure, world
<1>4. CASE ResolveCredentials(w) \/ NoCredentials(w) \/ WorkFails(w) \/ Provision(w) \/ Stop(w)
             \/ DumpAndFind(w) \/ VerifyObject(w) \/ CompleteRefused(w)
  BY <1>2, <1>4 DEF ResolveCredentials, NoCredentials, WorkFails, Provision, Stop, DumpAndFind,
     VerifyObject, CompleteRefused, world
<1>5. CASE LinkObject(w) \/ VerifyFails(w) \/ Restore(w) \/ Trial(w) \/ LiveApply(w)
             \/ ObserveStorage(w) \/ Expire(w)
  BY <1>2, <1>5 DEF LinkObject, VerifyFails, Restore, Trial, RestoreInto, LiveApply, ObserveStorage, Expire
<1> QED
  BY <1>3, <1>4, <1>5 DEF Work

LEMMA RequestMoves ==
  ASSUME TenantInv, Request
  PROVE  Moves
<1>1. TypeOK
  BY DEF TenantInv
<1>2. \A o \in Op : OpMoves(o)
  <2>1. ASSUME NEW new, InsertOperations(new) PROVE \A o \in Op : OpMoves(o)
    BY <1>1, <2>1, InsertMoves
  <2>2. CASE ops' = ops
    BY <2>2 DEF OpMoves
  <2>3. (\E new : InsertOperations(new)) \/ ops' = ops
    BY DEF Request, CreateDatabase, SchedulerTick, AdvanceClock, Resize, CreateExport, CreateRecovery,
       RequestBackup, PlanMigration, EnqueueTrial, RecordValidation
  <2> QED BY <2>1, <2>2, <2>3
<1>3. removed' = removed
  BY DEF Request, CreateDatabase, SchedulerTick, AdvanceClock, Resize, CreateExport, CreateRecovery,
     RequestBackup, PlanMigration, EnqueueTrial, RecordValidation, world
<1> QED
  BY <1>2, <1>3 DEF Moves

LEMMA NextMoves ==
  ASSUME TenantInv, [Next]_vars
  PROVE  Moves
<1>1. TypeOK /\ ops \in [Op -> OpRow]
  BY DEF TenantInv, TypeOK
<1>2. ASSUME NEW o \in Op, LeaseRunsOut(o) PROVE Moves
  <2>1. PICK r : r = [ops[o] EXCEPT !.live = FALSE]
    OBVIOUS
  <2>2. r.live = FALSE /\ r.attempts = ops[o].attempts
    BY <1>1, <2>1 DEF OpRow
  <2>3. ops'[o] = r /\ \A x \in Op \ {o} : ops'[x] = ops[x]
    BY <1>1, <1>2, <2>1 DEF LeaseRunsOut
  <2>4. OpMoves(o) /\ \A x \in Op \ {o} : OpMoves(x)
    BY <2>2, <2>3 DEF OpMoves
  <2> QED BY <1>2, <2>4 DEF LeaseRunsOut, Moves, world
<1>3. ASSUME NEW w \in Worker, Poll(w) PROVE Moves
  <2>1. removed' = removed
    BY <1>3 DEF Poll, LeaseNone, LeaseExhausted, Lease, world
  <2> QED BY <1>3, <2>1, PollMoves DEF Moves
<1>4. CASE UNCHANGED vars
  BY <1>4 DEF Moves, OpMoves, vars, world
<1> QED
  BY <1>2, <1>3, <1>4, RequestMoves, WorkMoves DEF Next

\* Every worker keeps the attempt it has, or drops it.
KeepsOwn ==
  \A x \in Worker :
    \/ worker'[x].step = "idle"
    \/ /\ worker[x].step # "idle"
       /\ worker'[x].op = worker[x].op /\ worker'[x].attempt = worker[x].attempt

LEMMA OneKeepsOwn ==
  ASSUME TypeOK, NEW w \in Worker, worker[w].step # "idle", NEW p, worker' = [worker EXCEPT ![w] = p],
         p.step = "idle" \/ (p.op = worker[w].op /\ p.attempt = worker[w].attempt)
  PROVE  KeepsOwn
BY DEF KeepsOwn, TypeOK

LEMMA ReportsKeepsOwn ==
  ASSUME TypeOK, NEW w \in Worker, worker[w].step # "idle", NEW r, Reports(w, r)
  PROVE  KeepsOwn
<1>1. PICK p : p = [worker[w] EXCEPT !.step = "done", !.report = r]
  OBVIOUS
<1>2. p.op = worker[w].op /\ p.attempt = worker[w].attempt
  BY <1>1 DEF TypeOK, Process
<1>3. worker' = [worker EXCEPT ![w] = p]
  BY <1>1 DEF Reports, TypeOK
<1> QED BY <1>2, <1>3, OneKeepsOwn

LEMMA WorkKeepsOwn ==
  ASSUME TypeOK, NEW w \in Worker, Work(w) \/ Stop(w)
  PROVE  KeepsOwn
<1>1. CASE worker[w].step # "idle" /\ \E r : Reports(w, r)
  BY <1>1, ReportsKeepsOwn
<1>2. CASE worker[w].step # "idle" /\ worker' = [worker EXCEPT ![w] = Idle]
  BY <1>2, OneKeepsOwn, IdleTyped
<1>3. CASE ResolveCredentials(w)
  <2>1. PICK p : p = [worker[w] EXCEPT !.step = "working"]
    OBVIOUS
  <2>2. p.op = worker[w].op /\ p.attempt = worker[w].attempt
    BY <2>1 DEF TypeOK, Process
  <2>3. CASE worker' = [worker EXCEPT ![w] = p]
    BY <1>3, <2>2, <2>3, OneKeepsOwn DEF ResolveCredentials
  <2>4. worker' = [worker EXCEPT ![w] = p] \/ worker' = [worker EXCEPT ![w] = Idle]
    BY <1>3, <2>1 DEF ResolveCredentials
  <2> QED BY <1>2, <1>3, <2>3, <2>4 DEF ResolveCredentials
<1>4. CASE DumpAndFind(w)
  <2>1. PICK p : p = [worker[w] EXCEPT !.step = "linking", !.dump = {m \in Migration : tenant.applied[m] > 0}]
    OBVIOUS
  <2>2. p.op = worker[w].op /\ p.attempt = worker[w].attempt
    BY <2>1 DEF TypeOK, Process
  <2>3. CASE worker' = [worker EXCEPT ![w].step = "linking",
                         ![w].dump = {m \in Migration : tenant.applied[m] > 0}]
    <3>1. worker' = [worker EXCEPT ![w] = p]
      BY <2>1, <2>3 DEF TypeOK
    <3> QED BY <1>4, <2>2, <3>1, OneKeepsOwn DEF DumpAndFind, Working
  <2> QED BY <1>1, <1>4, <2>3 DEF DumpAndFind, Working
<1>5. CASE LinkObject(w)
  <2>1. PICK p : p = [worker[w] EXCEPT !.step = "verifying"]
    OBVIOUS
  <2>2. p.op = worker[w].op /\ p.attempt = worker[w].attempt
    BY <2>1 DEF TypeOK, Process
  <2>3. CASE worker' = [worker EXCEPT ![w].step = "verifying"]
    <3>1. worker' = [worker EXCEPT ![w] = p]
      BY <2>1, <2>3 DEF TypeOK
    <3> QED BY <1>5, <2>2, <3>1, OneKeepsOwn DEF LinkObject
  <2> QED BY <1>1, <1>5, <2>3 DEF LinkObject
<1>6. CASE NoCredentials(w) \/ WorkFails(w) \/ Provision(w) \/ VerifyObject(w) \/ VerifyFails(w)
  BY <1>1, <1>6 DEF NoCredentials, WorkFails, Provision, Working, VerifyObject, VerifyFails
<1>7. CASE Restore(w) \/ Trial(w) \/ LiveApply(w) \/ ObserveStorage(w) \/ Expire(w)
  BY <1>1, <1>7 DEF Restore, Trial, RestoreInto, LiveApply, ObserveStorage, Expire, Working, Ends, Refuses
<1>8. CASE CompleteSuccess(w) \/ CompleteFailure(w) \/ CompleteRefused(w) \/ Stop(w)
  BY <1>2, <1>8 DEF CompleteSuccess, CompleteFailure, CompleteRefused, Stop, Answered
<1> QED
  BY <1>3, <1>4, <1>5, <1>6, <1>7, <1>8 DEF Work

LEMMA NextAttempts ==
  ASSUME TenantInv, AttemptsInv, [Next]_vars
  PROVE  AttemptsInv'
<1>1. /\ TypeOK /\ Moves /\ \A w \in Worker : worker[w].step # "idle" => worker[w].op \in Op
      /\ \A w \in Worker : worker[w].attempt \in Nat
  <2>1. \A w \in Worker : worker[w].attempt \in Nat
    BY TablesTyped, ProcessFields, BoundsTyped DEF TenantInv
  <2> QED BY <2>1, NextMoves DEF TenantInv, WorkerInv
<1>2. /\ \A o \in Op : ops[o].attempts \in Nat /\ ops'[o].attempts >= ops[o].attempts
  <2>1. TypeOK'
    BY NextTenant DEF TenantInv
  <2>2. \A o \in Op : ops[o].attempts \in Nat
    BY <1>1, TablesTyped, OpFields
  <2>3. \A o \in Op : ops'[o] \in OpRow
    BY <2>1 DEF TypeOK
  <2>4. \A o \in Op : ops'[o].attempts \in Nat
    BY <2>3, OpFields
  <2> QED BY <1>1, <2>2, <2>4 DEF Moves, OpMoves
<1>3. ASSUME KeepsOwn PROVE AttemptsInv'
  <2>1. ASSUME NEW w \in Worker, worker'[w].step # "idle"
        PROVE  worker'[w].attempt <= ops'[worker'[w].op].attempts
    <3>1. /\ worker[w].step # "idle" /\ worker'[w].op = worker[w].op
          /\ worker'[w].attempt = worker[w].attempt
      BY <1>3, <2>1 DEF KeepsOwn
    <3>2. worker[w].attempt <= ops[worker[w].op].attempts /\ worker[w].op \in Op
      BY <1>1, <3>1 DEF AttemptsInv
    <3>3. /\ ops[worker[w].op].attempts \in Nat /\ worker[w].attempt \in Nat
          /\ ops'[worker[w].op].attempts >= ops[worker[w].op].attempts
      BY <1>1, <1>2, <3>2
    <3>4. ops'[worker[w].op].attempts \in Nat
      <4>1. TypeOK'
        BY NextTenant DEF TenantInv
      <4>2. ops'[worker[w].op] \in OpRow
        BY <3>2, <4>1 DEF TypeOK
      <4> QED BY <4>2, OpFields
    <3> QED BY <3>1, <3>2, <3>3, <3>4
  <2>2. ASSUME NEW w \in Worker, NEW x \in Worker, w # x, worker'[w].step # "idle",
               worker'[x].step # "idle", worker'[w].op = worker'[x].op
        PROVE  worker'[w].attempt # worker'[x].attempt
    BY <1>3, <2>2 DEF KeepsOwn, AttemptsInv
  <2> QED BY <2>1, <2>2 DEF AttemptsInv
<1>4. ASSUME NEW w \in Worker, NEW o \in Oldest, Lease(w, o) PROVE AttemptsInv'
  <2>1. /\ o \in Op /\ ops'[o].attempts > ops[o].attempts
        /\ worker'[w].op = o /\ worker'[w].attempt = ops'[o].attempts
        /\ \A x \in Worker \ {w} : worker'[x] = worker[x]
    BY <1>1, <1>4, LeaseMoves
  <2>2. ASSUME NEW x \in Worker \ {w}, worker[x].step # "idle"
        PROVE  /\ worker[x].attempt <= ops[worker[x].op].attempts
               /\ worker[x].attempt <= ops'[worker[x].op].attempts
               /\ worker[x].op = o => worker[x].attempt # ops'[o].attempts
    <3>1. worker[x].op \in Op /\ worker[x].attempt <= ops[worker[x].op].attempts
      BY <1>1, <2>2 DEF AttemptsInv
    <3>2. ops'[worker[x].op] \in OpRow /\ ops'[o] \in OpRow
      BY <2>1, <3>1, NextTenant DEF TenantInv, TypeOK
    <3>3. ops'[worker[x].op].attempts \in Nat /\ ops'[o].attempts \in Nat
      BY <3>2, OpFields
    <3> QED BY <1>1, <1>2, <2>1, <3>1, <3>3
  <2>3. ops'[o].attempts <= ops'[o].attempts
    <3>1. ops'[o] \in OpRow
      BY <2>1, NextTenant DEF TenantInv, TypeOK
    <3> QED BY <3>1, OpFields
  <2>4. \A x \in Worker : worker'[x].step # "idle" => worker'[x].attempt <= ops'[worker'[x].op].attempts
    BY <2>1, <2>2, <2>3
  <2>5. ASSUME NEW y \in Worker, NEW x \in Worker, y # x, worker'[y].step # "idle",
               worker'[x].step # "idle", worker'[y].op = worker'[x].op
        PROVE  worker'[y].attempt # worker'[x].attempt
    <3>1. CASE y = w BY <2>1, <2>2, <2>5, <3>1
    <3>2. CASE x = w BY <2>1, <2>2, <2>5, <3>2
    <3>3. CASE y # w /\ x # w BY <2>1, <2>5, <3>3 DEF AttemptsInv
    <3> QED BY <3>1, <3>2, <3>3
  <2> QED BY <2>4, <2>5 DEF AttemptsInv
<1>5. ASSUME worker' = worker PROVE KeepsOwn
  BY <1>5 DEF KeepsOwn
<1>6. CASE Request \/ (\E o \in Op : LeaseRunsOut(o)) \/ UNCHANGED vars
  <2>1. worker' = worker
    BY <1>6 DEF Request, CreateDatabase, SchedulerTick, AdvanceClock, Resize, CreateExport, CreateRecovery,
       RequestBackup, PlanMigration, EnqueueTrial, RecordValidation, LeaseRunsOut, vars
  <2> QED BY <1>3, <1>5, <2>1
<1>7. ASSUME NEW w \in Worker, Poll(w) PROVE AttemptsInv'
  <2>1. CASE worker' = worker BY <1>3, <1>5, <2>1
  <2>2. worker' = worker \/ \E o \in Oldest : Lease(w, o)
    BY <1>7 DEF Poll, LeaseNone, LeaseExhausted
  <2> QED BY <1>4, <2>1, <2>2
<1>8. ASSUME NEW w \in Worker, Work(w) \/ Stop(w) PROVE AttemptsInv'
  BY <1>1, <1>3, <1>8, WorkKeepsOwn
<1> QED
  BY <1>6, <1>7, <1>8 DEF Next

-----------------------------------------------------------------------------
(* The backup repository. *)

FilesSafe == UsableRestores /\ (\A a \in Archive : FileInv(a)) /\ \A w \in Worker : BackupInv(w)

\* An operation, once there, stays.
OpsStay == \A o \in Op : ~Absent(o) => ops'[o].state # "absent"
AppliedStay == \A m \in Migration : tenant.applied[m] > 0 => tenant'.applied[m] > 0

LEMMA FilesFacts ==
  ASSUME FilesInv
  PROVE  /\ TenantInv /\ TypeOK /\ RowsInv /\ UsableRestores /\ AttemptsInv
         /\ \A a \in Archive : FileInv(a) /\ objects[a] \in Object
         /\ \A w \in Worker : BackupInv(w) /\ WorkerInv(w) /\ worker[w] \in Process
BY TablesTyped DEF FilesInv, TenantInv

\* A late attempt stays late.
LEMMA LateStays ==
  ASSUME FilesInv, Moves, NEW w \in Worker, worker[w].step # "idle",
         ~Live(worker[w].op, worker[w].attempt), worker'[w] = worker[w]
  PROVE  ~Live(worker[w].op, worker[w].attempt)'
<1>1. PICK o : o = worker[w].op
  OBVIOUS
<1>2. PICK n : n = worker[w].attempt
  OBVIOUS
<1>3. /\ o \in Op /\ n <= ops[o].attempts /\ OpMoves(o)
      /\ ops[o].attempts \in Nat /\ n \in Nat
  <2>1. o \in Op /\ n <= ops[o].attempts /\ ops[o] \in OpRow /\ worker[w] \in Process
    BY <1>1, <1>2, FilesFacts, TablesTyped DEF WorkerInv, AttemptsInv
  <2>2. n \in Nat
    BY <1>2, <2>1, ProcessFields, BoundsTyped
  <2> QED BY <2>1, <2>2, OpFields DEF Moves
<1>4. ~(ops[o].state = "running" /\ ops[o].attempts = n /\ ops[o].live)
  BY <1>1, <1>2 DEF Live
<1>5. ~(ops'[o].state = "running" /\ ops'[o].attempts = n /\ ops'[o].live)
  BY <1>3, <1>4 DEF OpMoves
<1> QED
  BY <1>1, <1>2, <1>5 DEF Live

LEMMA BackupSame ==
  ASSUME FilesInv, Moves, NEW w \in Worker, worker'[w] = worker[w], OpsStay, AppliedStay,
         \A a \in Archive : \/ objects'[a] = objects[a] \/ objects[a] = NoObject
                            \/ ops'[ExpireOp(a)].state # "absent"
                            \/ <<a, objects[a].digest>> \in removed'
                            \/ worker[w].step # "idle" /\ worker[w].op = BackupOp(a)
                                 => ~Live(worker[w].op, worker[w].attempt)
  PROVE  BackupInv(w)'
<1>1. BackupInv(w) /\ WorkerInv(w) /\ worker[w] \in Process
  BY FilesFacts
<1>2. \A m \in worker'[w].dump : tenant'.applied[m] > 0
  BY <1>1, ProcessFields DEF BackupInv, AppliedStay
<1>3. ASSUME Done(w, "backup")
      PROVE  Backed(w, KeyOf(worker[w].op), worker[w].report.digest)'
  <2>1. PICK a : a = KeyOf(worker[w].op)
    OBVIOUS
  <2>2. PICK d : d = worker[w].report.digest
    OBVIOUS
  <2>3. /\ a \in Archive /\ ExpireOp(a) \in Op /\ worker[w].op = BackupOp(a)
        /\ worker[w].step # "idle"
    BY <1>1, <1>3, <2>1, KeysTyped, OpsTyped DEF Done, WorkerInv
  <2>4. d # 0 /\ Backed(w, a, d)
    BY <1>1, <1>3, <2>1, <2>2 DEF BackupInv
  <2>5. ~Live(worker[w].op, worker[w].attempt) => ~Live(worker[w].op, worker[w].attempt)'
    BY <2>3, LateStays
  <2>6. ~Absent(ExpireOp(a)) => ops'[ExpireOp(a)].state # "absent"
    BY <2>3 DEF OpsStay
  <2>7. <<a, d>> \in removed => <<a, d>> \in removed'
    BY DEF Moves
  <2>8. objects[a].digest = d => objects[a] # NoObject
    BY <2>4, NoObjectTyped
  <2>9. \/ objects'[a].digest = d \/ ops'[ExpireOp(a)].state # "absent"
        \/ <<a, d>> \in removed' \/ ~Live(worker[w].op, worker[w].attempt)'
    BY <2>3, <2>4, <2>5, <2>6, <2>7, <2>8 DEF Backed
  <2> QED BY <2>1, <2>2, <2>9 DEF Backed, Absent, ExpireOp
<1> QED
  BY <1>1, <1>2, <1>3 DEF BackupInv, Done

\* What UsableRestores says of one archive.
Restores(a) ==
  \/ /\ Authentic(a)
     /\ \A m \in Migration : migrations[m].archive = a => m \notin objects[a].holds
  \/ <<a, archives[a].digest>> \in removed

LEMMA RestoresAll ==
  UsableRestores <=> \A a \in Archive : Restorable(a) => Restores(a)
BY DEF UsableRestores, Restores

\* Steps that leave the files alone.
LEMMA FilesStay ==
  ASSUME FilesInv, Moves, objects' = objects, OpsStay, AppliedStay,
         \A a \in Archive : Restorable(a)' => Restorable(a) /\ archives'[a].digest = archives[a].digest,
         \A m \in Migration : migrations'[m].archive = migrations[m].archive,
         \A w \in Worker : worker'[w] = worker[w] \/ BackupInv(w)'
  PROVE  FilesSafe'
<1>1. UsableRestores /\ \A a \in Archive : FileInv(a) /\ objects[a] \in Object
  BY FilesFacts
<1>2. ASSUME NEW a \in Archive, Restorable(a)' PROVE Restores(a)'
  <2>1. Restores(a) /\ archives'[a].digest = archives[a].digest
    BY <1>1, <1>2, RestoresAll
  <2> QED BY <2>1 DEF Authentic, Restores, Moves
<1>4. UsableRestores'
  BY <1>2, RestoresAll DEF UsableRestores, Restores
<1>5. ASSUME NEW a \in Archive PROVE FileInv(a)'
  <2>1. FileInv(a) /\ \A m \in objects[a].holds : m \in Migration
    BY <1>1 DEF Object
  <2> QED BY <2>1 DEF FileInv, AppliedStay
<1>6. ASSUME NEW w \in Worker PROVE BackupInv(w)'
  BY <1>6, BackupSame
<1> QED
  BY <1>4, <1>5, <1>6 DEF FilesSafe

\* Steps on one file that no restore may start from, or that was removed.
LEMMA FileChanged ==
  ASSUME FilesInv, Moves, NEW b \in Archive, NEW x \in Object, objects' = [objects EXCEPT ![b] = x],
         ~Restorable(b) \/ <<b, archives[b].digest>> \in removed',
         NEW w \in Worker,
         \/ objects[b] = NoObject \/ ~Absent(ExpireOp(b)) \/ <<b, objects[b].digest>> \in removed'
         \/ \A y \in Worker \ {w} : worker[y].step # "idle" /\ worker[y].op = BackupOp(b)
              => ~Live(worker[y].op, worker[y].attempt),
         UNCHANGED <<ops, rows, tenant>>, clock' = clock,
         x = NoObject <=> x.digest = 0, \A m \in x.holds : tenant.applied[m] > 0,
         BackupInv(w)', \A y \in Worker \ {w} : worker'[y] = worker[y]
  PROVE  FilesSafe'
<1>1. UsableRestores /\ \A a \in Archive : FileInv(a) /\ objects[a] \in Object
  BY FilesFacts
<1>2. /\ objects'[b] = x /\ \A a \in Archive \ {b} : objects'[a] = objects[a]
      /\ archives' = archives /\ migrations' = migrations
  BY FilesFacts DEF TypeOK, rows
<1>3. \A a \in Archive : Restorable(a)' <=> Restorable(a)
  BY <1>2 DEF Restorable, Expired
<1>4. UsableRestores'
  <2>1. ASSUME NEW a \in Archive, Restorable(a)' PROVE Restores(a)'
    <3>1. Restorable(a) /\ Restores(a)
      BY <1>1, <1>3, <2>1, RestoresAll
    <3>2. CASE a = b
      BY <1>2, <3>1, <3>2 DEF Restores
    <3>3. CASE a # b
      BY <1>2, <3>1, <3>3 DEF Restores, Authentic, Moves
    <3> QED BY <3>2, <3>3
  <2> QED BY <2>1 DEF UsableRestores, Restores
<1>5. ASSUME NEW a \in Archive PROVE FileInv(a)'
  <2>1. CASE a = b BY <1>2, <2>1 DEF FileInv
  <2>2. CASE a # b BY <1>1, <1>2, <2>2 DEF FileInv
  <2> QED BY <2>1, <2>2
<1>6. ASSUME NEW y \in Worker PROVE BackupInv(y)'
  <2>1. CASE y = w BY <2>1
  <2>2. CASE y # w
    <3>1. OpsStay /\ AppliedStay
      BY DEF OpsStay, AppliedStay, Absent
    <3>2. ASSUME NEW a \in Archive
          PROVE \/ objects'[a] = objects[a] \/ objects[a] = NoObject
                \/ ops'[ExpireOp(a)].state # "absent"
                \/ <<a, objects[a].digest>> \in removed'
                \/ worker[y].step # "idle" /\ worker[y].op = BackupOp(a)
                     => ~Live(worker[y].op, worker[y].attempt)
      BY <1>2, <2>2 DEF Absent
    <3>3. worker'[y] = worker[y]
      BY <2>2
    <3> QED BY <3>1, <3>2, <3>3, BackupSame
  <2> QED BY <2>1, <2>2
<1> QED
  BY <1>4, <1>5, <1>6 DEF FilesSafe

LEMMA InsertStays ==
  ASSUME TypeOK, NEW new, InsertOperations(new)
  PROVE  OpsStay
<1>1. ops \in [Op -> OpRow]
  BY DEF TypeOK
<1>2. ops' = [o \in Op |-> IF o \in new THEN [ops[o] EXCEPT !.state = "queued"] ELSE ops[o]]
  BY DEF InsertOperations, Operations
<1>3. ASSUME NEW o \in Op, ~Absent(o) PROVE ops'[o].state # "absent"
  <2>1. ops[o] \in OpRow /\ (ops'[o] = [ops[o] EXCEPT !.state = "queued"] \/ ops'[o] = ops[o])
    BY <1>1, <1>2
  <2> QED BY <1>3, <2>1 DEF OpRow, Absent
<1> QED
  BY <1>3 DEF OpsStay

\* The requests: no file, no worker and no archive that is kept changes.
LEMMA RequestFiles ==
  ASSUME FilesInv, Moves, objects' = objects, worker' = worker, tenant'.applied = tenant.applied, OpsStay,
         clock' \in Nat, clock <= clock',
         \A a \in Archive : archives'[a] = archives[a] \/ archives'[a].state = "creating",
         \A m \in Migration : migrations'[m].archive = migrations[m].archive
  PROVE  FilesSafe'
<1>1. ASSUME NEW a \in Archive, Restorable(a)'
      PROVE  Restorable(a) /\ archives'[a].digest = archives[a].digest
  <2>1. archives'[a] = archives[a]
    BY <1>1 DEF Restorable
  <2>2. clock \in Nat /\ archives[a].expires \in Nat
    BY FilesFacts, TablesTyped DEF ArchiveRow
  <2> QED BY <1>1, <2>1, <2>2 DEF Restorable, Expired
<1>2. AppliedStay
  BY DEF AppliedStay
<1> QED
  BY <1>1, <1>2, FilesStay

LEMMA RequestKeepsFiles ==
  ASSUME FilesInv, Moves, Request, \A m \in Migration : ~PlanMigration(m)
  PROVE  FilesSafe'
<1>1. /\ TypeOK /\ clock \in Nat /\ clock \in Day /\ archives \in [Archive -> ArchiveRow]
      /\ migrations \in [Migration -> MigrationRow]
  BY FilesFacts, TablesTyped DEF TypeOK
<1>2. CASE CreateDatabase
  <2>1. OpsStay
    BY <1>1, <1>2, InsertStays DEF CreateDatabase
  <2> QED BY <1>1, <1>2, <2>1, RequestFiles DEF CreateDatabase, env, world
<1>3. CASE SchedulerTick
  <2>1. OpsStay
    BY <1>1, <1>3, InsertStays DEF SchedulerTick
  <2>2. /\ UNCHANGED <<env, database, migrations, world, worker>>
        /\ \/ archives' = archives
           \/ archives' = [archives EXCEPT ![<<"daily", clock>>] = NewArchive(Retention)]
    BY <1>3 DEF SchedulerTick
  <2>3. \A a \in Archive : archives'[a] = archives[a] \/ archives'[a].state = "creating"
    BY <1>1, <2>2, NewArchiveTyped, BoundsTyped
  <2> QED BY <1>1, <2>1, <2>2, <2>3, RequestFiles DEF env, world
<1>4. CASE AdvanceClock
  <2>1. OpsStay /\ clock' \in Nat /\ clock <= clock'
    BY <1>1, <1>4 DEF AdvanceClock, OpsStay, Absent
  <2> QED BY <1>1, <1>4, <2>1, RequestFiles DEF AdvanceClock, rows, world
<1>5. CASE Resize
  <2>1. tenant'.applied = tenant.applied /\ OpsStay /\ clock' = clock
    <3>1. tenant \in Tenant
      BY <1>1, TablesTyped
    <3> QED BY <1>5, <3>1 DEF Resize, OpsStay, Absent, Trouble, Tenant
  <2> QED BY <1>1, <1>5, <2>1, RequestFiles DEF Resize, rows
<1>6. ASSUME NEW e \in Export, CreateExport(e) PROVE FilesSafe'
  <2>1. OpsStay
    BY <1>1, <1>6, InsertStays DEF CreateExport
  <2>2. \A a \in Archive : archives'[a] = archives[a] \/ archives'[a].state = "creating"
    BY <1>1, <1>6, NewArchiveTyped, BoundsTyped DEF CreateExport
  <2> QED BY <1>1, <1>6, <2>1, <2>2, RequestFiles DEF CreateExport, env, world
<1>7. ASSUME NEW b \in Archive, CreateRecovery(b) PROVE FilesSafe'
  <2>1. OpsStay
    BY <1>1, <1>7, InsertStays DEF CreateRecovery
  <2> QED BY <1>1, <1>7, <2>1, RequestFiles DEF CreateRecovery, env, world
<1>8. ASSUME NEW m \in Migration, RequestBackup(m) PROVE FilesSafe'
  <2>1. OpsStay
    BY <1>1, <1>8, InsertStays DEF RequestBackup
  <2>2. \A a \in Archive : archives'[a] = archives[a] \/ archives'[a].state = "creating"
    BY <1>1, <1>8, NewArchiveTyped, BoundsTyped DEF RequestBackup
  <2> QED BY <1>1, <1>8, <2>1, <2>2, RequestFiles DEF RequestBackup, env, world
<1>9. ASSUME NEW m \in Migration, EnqueueTrial(m) PROVE FilesSafe'
  <2>1. OpsStay
    BY <1>1, <1>9, InsertStays DEF EnqueueTrial
  <2> QED BY <1>1, <1>9, <2>1, RequestFiles DEF EnqueueTrial, env, rows, world
<1>10. ASSUME NEW m \in Migration, RecordValidation(m) PROVE FilesSafe'
  <2>1. OpsStay
    BY <1>1, <1>10, InsertStays DEF RecordValidation
  <2>2. \A x \in Migration : migrations'[x].archive = migrations[x].archive
    <3>1. PICK r : r = [migrations[m] EXCEPT !.state = "isolated_validated"]
      OBVIOUS
    <3>2. r.archive = migrations[m].archive
      BY <1>1, <3>1 DEF MigrationRow
    <3>3. migrations' = [migrations EXCEPT ![m] = r]
      BY <1>1, <1>10, <3>1 DEF RecordValidation
    <3> QED BY <1>1, <3>2, <3>3
  <2> QED BY <1>1, <1>10, <2>1, <2>2, RequestFiles DEF RecordValidation, env, world
<1> QED
  BY <1>2, <1>3, <1>4, <1>5, <1>6, <1>7, <1>8, <1>9, <1>10 DEF Request

\* A migration is planned before it runs, so no backup can hold it yet.
LEMMA PlanMigrationKeepsFiles ==
  ASSUME FilesInv, Moves, NEW m \in Migration, PlanMigration(m)
  PROVE  FilesSafe'
<1>1. /\ UsableRestores /\ TypeOK /\ MigratedOnce /\ migrations[m].state = "absent"
      /\ \A a \in Archive : FileInv(a) /\ objects[a] \in Object
  BY FilesFacts DEF TenantInv, PlanMigration
<1>2. tenant.applied[m] = 0
  <2>1. tenant.applied[m] \in Nat
    BY <1>1, TablesTyped DEF Tenant
  <2> QED BY <1>1, <2>1 DEF MigratedOnce
<1>3. \A a \in Archive : m \notin objects[a].holds
  BY <1>1, <1>2 DEF FileInv
<1>4. /\ objects' = objects /\ archives' = archives /\ clock' = clock /\ tenant' = tenant
      /\ worker' = worker /\ ops' = ops
      /\ \A x \in Migration \ {m} : migrations'[x] = migrations[x]
  BY <1>1 DEF PlanMigration, env, world, TypeOK
<1>5. UsableRestores'
  <2>1. ASSUME NEW a \in Archive, Restorable(a)' PROVE Restores(a)'
    <3>1. Restorable(a) /\ (Authentic(a) => Authentic(a)') /\ removed \subseteq removed'
      BY <1>4, <2>1 DEF Restorable, Expired, Authentic, Moves
    <3>2. Restores(a)
      BY <1>1, <3>1, RestoresAll
    <3>3. CASE <<a, archives[a].digest>> \in removed
      BY <1>4, <3>1, <3>3 DEF Restores
    <3>4. CASE Authentic(a) /\ \A x \in Migration : migrations[x].archive = a => x \notin objects[a].holds
      <4>1. ASSUME NEW x \in Migration, migrations'[x].archive = a PROVE x \notin objects'[a].holds
        BY <1>3, <1>4, <3>4, <4>1
      <4> QED BY <3>1, <3>4, <4>1 DEF Restores
    <3> QED BY <3>2, <3>3, <3>4 DEF Restores
  <2> QED BY <2>1 DEF UsableRestores, Restores
<1>6. \A a \in Archive : FileInv(a)'
  BY <1>1, <1>4 DEF FileInv
<1>7. ASSUME NEW w \in Worker PROVE BackupInv(w)'
  <2>1. OpsStay /\ AppliedStay
    BY <1>4 DEF OpsStay, AppliedStay, Absent
  <2> QED BY <1>4, <2>1, BackupSame
<1> QED
  BY <1>5, <1>6, <1>7 DEF FilesSafe

\* Leases: rows of archives and migrations stay, a worker starts with no dump.
LEMMA LeaseFiles ==
  ASSUME FilesInv, Moves, UNCHANGED <<archives, migrations, world>>, clock' = clock, OpsStay,
         \A w \in Worker : worker'[w] = worker[w] \/ BackupInv(w)'
  PROVE  FilesSafe'
<1>1. /\ objects' = objects /\ AppliedStay
      /\ \A a \in Archive : Restorable(a)' => Restorable(a) /\ archives'[a].digest = archives[a].digest
      /\ \A m \in Migration : migrations'[m].archive = migrations[m].archive
  BY DEF world, AppliedStay, Restorable, Expired
<1> QED
  BY <1>1, FilesStay

LEMMA LeaseRunsOutKeepsFiles ==
  ASSUME FilesInv, Moves, NEW o \in Op, LeaseRunsOut(o)
  PROVE  FilesSafe'
<1>1. TypeOK /\ ops \in [Op -> OpRow] /\ ops[o] \in OpRow
  BY FilesFacts DEF TypeOK
<1>2. OpsStay
  <2>1. PICK r : r = [ops[o] EXCEPT !.live = FALSE]
    OBVIOUS
  <2>2. r.state = ops[o].state
    BY <1>1, <2>1, OpFields
  <2>3. ops' = [ops EXCEPT ![o] = r]
    BY <1>1, <2>1 DEF LeaseRunsOut
  <2> QED BY <1>1, <2>2, <2>3 DEF OpsStay, Absent
<1>3. clock' = clock
  BY <1>1, TroubleEffect DEF LeaseRunsOut
<1> QED
  BY <1>2, <1>3, LeaseFiles DEF LeaseRunsOut, rows

LEMMA PollKeepsFiles ==
  ASSUME FilesInv, Moves, NEW w \in Worker, Poll(w)
  PROVE  FilesSafe'
<1>1. TenantInv /\ TypeOK
  BY FilesFacts
<1>2. CASE LeaseNone
  <2>1. OpsStay
    <3>1. ops' = [o \in Op |-> ReapedRow(o)]
      BY <1>2 DEF LeaseNone, Operations, Reaped
    <3> QED BY <1>1, <3>1, ReapedTyped DEF OpsStay, Absent
  <2> QED BY <1>2, <2>1, LeaseFiles DEF LeaseNone, env, rows
<1>3. ASSUME NEW o \in Oldest, LeaseExhausted(o) PROVE FilesSafe'
  <2>1. o \in Op
    BY DEF Oldest, Waiting
  <2>2. Reaped \in [Op -> OpRow] /\ Reaped[o] = ReapedRow(o) /\ ReapedRow(o) \in OpRow
    BY <1>1, <2>1, ReapedTyped DEF Reaped
  <2>3. PICK r : r = [ReapedRow(o) EXCEPT !.state = "failed"]
    OBVIOUS
  <2>4. "failed" \in OpState
    BY DEF OpState, Settled
  <2>5. r \in OpRow /\ r.state = "failed"
    BY <2>2, <2>3, <2>4, OpFields
  <2>6. Operations([Reaped EXCEPT ![o] = r], before)
    BY <1>3, <2>1, <2>2, <2>3 DEF LeaseExhausted
  <2>7. \A x \in Op : Answers(x)
    BY <1>1, <2>5, <2>6, LeaseTable
  <2>8. OpsStay
    BY <2>7 DEF OpsStay, Answers, Absent
  <2> QED BY <1>3, <2>8, LeaseFiles DEF LeaseExhausted, env, rows
<1>4. ASSUME NEW o \in Oldest, Lease(w, o) PROVE FilesSafe'
  <2>1. o \in Op
    BY DEF Oldest, Waiting
  <2>2. PICK n : n = ReapedRow(o).attempts + 1
    OBVIOUS
  <2>3. n \in 0..MaxAttempts
    BY <1>1, <1>4, <2>1, <2>2, ReapedTyped, BoundsTyped DEF Lease
  <2>4. PICK r : r = [state |-> "running", attempts |-> n, live |-> TRUE]
    OBVIOUS
  <2>5. r \in OpRow /\ r.state = "running"
    BY <2>3, <2>4, OpRowMade DEF OpState
  <2>6. Operations([Reaped EXCEPT ![o] = r], before)
    BY <1>4, <2>2, <2>4 DEF Lease
  <2>7. \A x \in Op : Answers(x)
    BY <1>1, <2>5, <2>6, LeaseTable
  <2>8. OpsStay
    BY <2>7 DEF OpsStay, Answers, Absent
  <2>9. PICK p : p = [Idle EXCEPT !.step = "leased", !.op = o, !.attempt = n]
    OBVIOUS
  <2>10. p.step = "leased" /\ p.dump = {}
    BY <2>9, IdleTyped DEF Process
  <2>11. worker' = [worker EXCEPT ![w] = p] /\ worker \in [Worker -> Process]
    BY <1>1, <1>4, <2>2, <2>9 DEF Lease, TypeOK
  <2>12. worker'[w] = p /\ \A x \in Worker \ {w} : worker'[x] = worker[x]
    BY <2>11
  <2>13. BackupInv(w)'
    BY <2>10, <2>12 DEF BackupInv, Done
  <2> QED BY <1>4, <2>8, <2>12, <2>13, LeaseFiles DEF Lease, env
<1> QED
  BY <1>2, <1>3, <1>4 DEF Poll

\* A report leaves the dump; what is left is the digest of a backup.
LEMMA BackupReported ==
  ASSUME FilesInv, Moves, NEW w \in Worker, NEW r \in Report, Reports(w, r), AppliedStay,
         r.state = "succeeded" /\ Kind(worker[w].op) = "backup" =>
           r.digest # 0 /\ objects'[KeyOf(worker[w].op)].digest = r.digest
  PROVE  BackupInv(w)' /\ \A x \in Worker : worker'[x] = worker[x] \/ BackupInv(x)'
<1>1. TypeOK /\ BackupInv(w) /\ worker[w] \in Process
  BY FilesFacts
<1>2. /\ \A x \in Worker \ {w} : worker'[x] = worker[x]
      /\ worker'[w].report = r /\ worker'[w].op = worker[w].op /\ worker'[w].dump = worker[w].dump
  BY <1>1, ReportsEffect
<1>3. \A m \in worker'[w].dump : tenant'.applied[m] > 0
  BY <1>1, <1>2, ProcessFields DEF BackupInv, AppliedStay
<1>4. BackupInv(w)'
  BY <1>2, <1>3 DEF BackupInv, Done, Backed
<1> QED
  BY <1>2, <1>4

LEMMA FailureFiles ==
  ASSUME FilesInv, Moves, NEW w \in Worker, NEW s \in {"retriable", "failed"},
         Reports(w, Failure(w, s)), AppliedStay
  PROVE  BackupInv(w)' /\ \A x \in Worker : worker'[x] = worker[x] \/ BackupInv(x)'
<1>1. Failure(w, s) \in Report /\ Failure(w, s).state = s
  BY ReportsTyped
<1> QED
  BY <1>1, BackupReported

LEMMA EndsFiles ==
  ASSUME FilesInv, Moves, NEW w \in Worker, NEW r \in Report, Ends(w, r) \/ Refuses(w), AppliedStay,
         Kind(worker[w].op) # "backup"
  PROVE  /\ BackupInv(w)' /\ \A x \in Worker : worker'[x] = worker[x] \/ BackupInv(x)'
         /\ clock' = clock
<1>1. clock' = clock
  BY FilesFacts, TroubleEffect DEF Ends, Refuses
<1>2. CASE Reports(w, r)
  BY <1>1, <1>2, BackupReported
<1>3. CASE \E s \in {"retriable", "failed"} : Reports(w, Failure(w, s))
  BY <1>1, <1>3, FailureFiles
<1> QED
  BY <1>2, <1>3, FaultsAssumption DEF Ends, Refuses

\* The worker's steps that leave the files alone.
LEMMA WorkFiles ==
  ASSUME FilesInv, Moves, objects' = objects, UNCHANGED <<ops, rows>>, clock' = clock, AppliedStay,
         \A x \in Worker : worker'[x] = worker[x] \/ BackupInv(x)'
  PROVE  FilesSafe'
<1>1. /\ OpsStay
      /\ \A a \in Archive : Restorable(a)' => Restorable(a) /\ archives'[a].digest = archives[a].digest
      /\ \A m \in Migration : migrations'[m].archive = migrations[m].archive
  BY DEF OpsStay, Absent, rows, Restorable, Expired
<1> QED
  BY <1>1, FilesStay

LEMMA OwnFiles ==
  ASSUME FilesInv, Moves, UNCHANGED <<ops, rows, world>>, Trouble \/ UNCHANGED env,
         \A x \in Worker : worker'[x] = worker[x] \/ BackupInv(x)'
  PROVE  FilesSafe'
<1>1. objects' = objects /\ clock' = clock /\ AppliedStay
  BY FilesFacts, TroubleEffect DEF world, AppliedStay
<1> QED
  BY <1>1, WorkFiles

LEMMA IdleFiles ==
  ASSUME FilesInv, Moves, NEW w \in Worker, worker' = [worker EXCEPT ![w] = Idle]
  PROVE  \A x \in Worker : worker'[x] = worker[x] \/ BackupInv(x)'
<1>1. worker'[w] = Idle /\ \A x \in Worker \ {w} : worker'[x] = worker[x]
  BY FilesFacts DEF TypeOK
<1>2. BackupInv(w)'
  BY <1>1, IdleTyped DEF BackupInv, Done
<1> QED
  BY <1>1, <1>2

LEMMA OwnStepKeepsFiles ==
  ASSUME FilesInv, Moves, NEW w \in Worker,
         \/ ResolveCredentials(w) \/ NoCredentials(w) \/ WorkFails(w) \/ Provision(w)
         \/ Stop(w) \/ CompleteRefused(w)
  PROVE  FilesSafe'
<1>1. /\ TypeOK /\ TenantInv /\ worker \in [Worker -> Process] /\ worker[w] \in Process
      /\ BackupInv(w)
  BY FilesFacts DEF TypeOK
<1>2. CASE ResolveCredentials(w)
  <2>1. CASE Live(worker[w].op, worker[w].attempt)
    <3>1. PICK p : p = [worker[w] EXCEPT !.step = "working"]
      OBVIOUS
    <3>2. p.step = "working" /\ p.dump = worker[w].dump
      BY <1>1, <3>1 DEF Process
    <3>3. worker' = [worker EXCEPT ![w] = p]
      BY <1>2, <2>1, <3>1 DEF ResolveCredentials
    <3>4. worker'[w] = p /\ \A x \in Worker \ {w} : worker'[x] = worker[x]
      BY <1>1, <3>3
    <3>5. tenant' = tenant
      BY <1>2 DEF ResolveCredentials, world
    <3>6. BackupInv(w)'
      BY <1>1, <3>2, <3>4, <3>5 DEF BackupInv, Done
    <3> QED BY <1>2, <3>4, <3>6, OwnFiles DEF ResolveCredentials
  <2>2. CASE ~Live(worker[w].op, worker[w].attempt)
    BY <1>2, <2>2, IdleFiles, OwnFiles DEF ResolveCredentials
  <2> QED BY <2>1, <2>2
<1>3. CASE NoCredentials(w)
  <2>1. PICK s \in Faults : Reports(w, [NoReport EXCEPT !.state = s])
    BY <1>3 DEF NoCredentials
  <2>2. [NoReport EXCEPT !.state = s] \in Report /\ [NoReport EXCEPT !.state = s].state = s
    BY ReportsTyped
  <2>3. AppliedStay
    BY <1>3 DEF NoCredentials, world, AppliedStay
  <2>4. \A x \in Worker : worker'[x] = worker[x] \/ BackupInv(x)'
    BY <2>1, <2>2, <2>3, BackupReported, FaultsAssumption
  <2> QED BY <1>3, <2>4, OwnFiles DEF NoCredentials
<1>4. CASE WorkFails(w)
  <2>1. AppliedStay
    BY <1>4 DEF WorkFails, world, AppliedStay
  <2>2. \A x \in Worker : worker'[x] = worker[x] \/ BackupInv(x)'
    BY <1>4, <2>1, FailureFiles, FaultsAssumption DEF WorkFails
  <2> QED BY <1>4, <2>2, OwnFiles DEF WorkFails
<1>5. CASE Provision(w)
  <2>1. AppliedStay
    BY <1>5 DEF Provision, world, AppliedStay
  <2>2. \A x \in Worker : worker'[x] = worker[x] \/ BackupInv(x)'
    BY <1>5, <2>1, BackupReported, ReportsTyped DEF Provision, Working
  <2> QED BY <1>5, <2>2, OwnFiles DEF Provision
<1>6. CASE Stop(w)
  BY <1>6, IdleFiles, OwnFiles DEF Stop
<1>7. CASE CompleteRefused(w)
  BY <1>7, IdleFiles, OwnFiles DEF CompleteRefused, Answered
<1> QED
  BY <1>2, <1>3, <1>4, <1>5, <1>6, <1>7

LEMMA ToolKeepsFiles ==
  ASSUME FilesInv, Moves, NEW w \in Worker,
         Restore(w) \/ Trial(w) \/ LiveApply(w) \/ ObserveStorage(w)
  PROVE  FilesSafe'
<1>1. TypeOK /\ TenantInv /\ tenant \in Tenant /\ tenant.applied \in [Migration -> Nat]
  BY FilesFacts, TablesTyped DEF Tenant
<1>2. ASSUME NEW c, NEW a, RestoreInto(w, c, a), Kind(worker[w].op) # "backup" PROVE FilesSafe'
  <2>1. AppliedStay /\ objects' = objects
    BY <1>2 DEF RestoreInto, AppliedStay
  <2>2. Ends(w, Success) \/ Refuses(w)
    BY <1>2 DEF RestoreInto
  <2>3. clock' = clock /\ \A x \in Worker : worker'[x] = worker[x] \/ BackupInv(x)'
    BY <1>2, <2>1, <2>2, EndsFiles, ReportsTyped
  <2> QED BY <1>2, <2>1, <2>3, WorkFiles DEF RestoreInto
<1>3. CASE Restore(w) \/ Trial(w)
  BY <1>2, <1>3 DEF Restore, Trial, Working
<1>4. CASE LiveApply(w)
  <2>1. PICK m : m = KeyOf(worker[w].op)
    OBVIOUS
  <2>2. /\ m \in Migration /\ worker[w].op = LiveOp(m) /\ ~Absent(LiveOp(m))
        /\ Kind(worker[w].op) # "backup"
    BY <1>1, <1>4, <2>1, WorkingKind, KeysTyped DEF LiveApply, Absent
  <2>3. AppliedStay
    <3>1. CASE tenant' = tenant
      BY <3>1 DEF AppliedStay
    <3>2. CASE tenant' = [tenant EXCEPT !.applied[m] = IF MustApply(m) THEN @ + 1 ELSE @]
      <4>1. migrations' = migrations /\ database' = database
        BY <1>4 DEF LiveApply, rows
      <4> QED BY <1>1, <2>2, <3>2, <4>1, AppliedOnce DEF AppliedStay
    <3> QED BY <1>4, <2>1, <3>1, <3>2 DEF LiveApply
  <2>4. (Ends(w, Success) \/ Refuses(w)) /\ objects' = objects
    BY <1>4 DEF LiveApply
  <2>5. clock' = clock /\ \A x \in Worker : worker'[x] = worker[x] \/ BackupInv(x)'
    BY <2>2, <2>3, <2>4, EndsFiles, ReportsTyped
  <2> QED BY <1>4, <2>3, <2>4, <2>5, WorkFiles DEF LiveApply
<1>5. CASE ObserveStorage(w)
  <2>1. PICK mode : mode = IF tenant.over THEN "read_only_over_limit" ELSE tenant.mode
    OBVIOUS
  <2>2. mode \in Mode /\ tenant.over \in BOOLEAN
    BY <1>1, <2>1 DEF Tenant, Mode
  <2>3. PICK r : r = [Success EXCEPT !.over = tenant.over, !.mode = mode]
    OBVIOUS
  <2>4. r \in Report
    BY <2>2, <2>3, ReportsTyped DEF Report
  <2>5. /\ tenant' = [tenant EXCEPT !.mode = mode] /\ Ends(w, r) /\ objects' = objects
        /\ Kind(worker[w].op) # "backup"
    BY <1>5, <2>1, <2>3 DEF ObserveStorage, Working
  <2>6. AppliedStay
    BY <1>1, <2>5 DEF Tenant, AppliedStay
  <2>7. clock' = clock /\ \A x \in Worker : worker'[x] = worker[x] \/ BackupInv(x)'
    BY <2>4, <2>5, <2>6, EndsFiles
  <2> QED BY <1>5, <2>5, <2>6, <2>7, WorkFiles DEF ObserveStorage
<1> QED
  BY <1>3, <1>4, <1>5

LEMMA DumpAndFindKeepsFiles ==
  ASSUME FilesInv, Moves, NEW w \in Worker, DumpAndFind(w)
  PROVE  FilesSafe'
<1> DEFINE a == KeyOf(worker[w].op)
           found == objects[a].digest
<1>1. /\ TypeOK /\ TenantInv /\ worker \in [Worker -> Process] /\ worker[w] \in Process
  BY FilesFacts DEF TypeOK
<1>2. a \in Archive /\ found \in 0..MaxAttempts /\ Kind(worker[w].op) = "backup"
  BY <1>1, WorkingKind, KeysTyped, TablesTyped DEF DumpAndFind, Object
<1>3. tenant' = tenant /\ objects' = objects /\ AppliedStay
  BY DEF DumpAndFind, world, AppliedStay
<1>4. CASE found # 0
  <2>1. /\ [Success EXCEPT !.digest = found] \in Report
        /\ [Success EXCEPT !.digest = found].digest = found
    BY <1>2, ReportsTyped
  <2>2. Reports(w, [Success EXCEPT !.digest = found])
    BY <1>4 DEF DumpAndFind
  <2>3. \A x \in Worker : worker'[x] = worker[x] \/ BackupInv(x)'
    BY <1>3, <1>4, <2>1, <2>2, BackupReported
  <2> QED BY <2>3, OwnFiles DEF DumpAndFind
<1>5. CASE found = 0
  <2>1. PICK d : d = {m \in Migration : tenant.applied[m] > 0}
    OBVIOUS
  <2>2. PICK p : p = [worker[w] EXCEPT !.step = "linking", !.dump = d]
    OBVIOUS
  <2>3. p.step = "linking" /\ p.dump = d
    BY <1>1, <2>2 DEF Process
  <2>4. worker' = [worker EXCEPT ![w] = p]
    BY <1>1, <1>5, <2>1, <2>2 DEF DumpAndFind
  <2>5. worker'[w] = p /\ \A x \in Worker \ {w} : worker'[x] = worker[x]
    BY <1>1, <2>4
  <2>6. BackupInv(w)'
    BY <1>3, <2>1, <2>3, <2>5 DEF BackupInv, Done
  <2> QED BY <2>5, <2>6, OwnFiles DEF DumpAndFind
<1> QED
  BY <1>4, <1>5

\* Linking never replaces a file, so nothing that is restorable changes.
LEMMA LinkObjectKeepsFiles ==
  ASSUME FilesInv, Moves, NEW w \in Worker, LinkObject(w)
  PROVE  FilesSafe'
<1> DEFINE a == KeyOf(worker[w].op)
<1>1. /\ TypeOK /\ TenantInv /\ worker \in [Worker -> Process] /\ worker[w] \in Process
      /\ WorkerInv(w) /\ BackupInv(w) /\ UsableRestores
  BY FilesFacts DEF TypeOK
<1>2. a \in Archive /\ worker[w].attempt # 0
  BY <1>1, KeysTyped DEF LinkObject, WorkerInv
<1>3. /\ tenant' = tenant /\ clock' = clock /\ AppliedStay /\ UNCHANGED <<ops, rows, tenant>>
      /\ removed' = removed
  BY <1>1, TroubleEffect DEF LinkObject, AppliedStay
<1>6. ASSUME MayLink(a), BackupInv(w)', \A y \in Worker \ {w} : worker'[y] = worker[y]
      PROVE  FilesSafe'
  <2>1. PICK x : x = [digest |-> worker[w].attempt, holds |-> worker[w].dump]
    OBVIOUS
  <2>2. /\ x \in Object /\ objects' = [objects EXCEPT ![a] = x]
        /\ x.digest = worker[w].attempt /\ x.holds = worker[w].dump
    BY <1>1, <1>2, <1>6, <2>1, NoObjectTyped, ProcessFields DEF LinkObject
  <2>3. objects[a] = NoObject
    BY <1>6 DEF MayLink
  <2>4. ~Restorable(a) \/ <<a, archives[a].digest>> \in removed'
    <3>1. Restorable(a) => Restores(a)
      BY <1>1, <1>2, RestoresAll
    <3> QED BY <1>3, <2>3, <3>1 DEF Restores, Authentic
  <2>5. (x = NoObject <=> x.digest = 0) /\ \A m \in x.holds : tenant.applied[m] > 0
    BY <1>1, <1>2, <2>2, NoObjectTyped DEF BackupInv
  <2> HIDE DEF a
  <2> QED BY <1>2, <1>3, <1>6, <2>2, <2>3, <2>4, <2>5, FileChanged
<1>4. CASE Reports(w, Failure(w, "retriable"))
  <2>1. BackupInv(w)' /\ \A x \in Worker : worker'[x] = worker[x] \/ BackupInv(x)'
    BY <1>3, <1>4, FailureFiles
  <2>2. \A y \in Worker \ {w} : worker'[y] = worker[y]
    BY <1>1, <1>4 DEF Reports
  <2>3. CASE MayLink(a)
    BY <2>1, <2>2, <2>3, <1>6
  <2>4. CASE ~MayLink(a)
    <3>1. objects' = objects
      BY <2>4 DEF LinkObject
    <3> QED BY <1>3, <2>1, <3>1, WorkFiles
  <2> QED BY <2>3, <2>4
<1>5. CASE worker' = [worker EXCEPT ![w].step = "verifying"] /\ MayLink(a)
  <2>1. PICK p : p = [worker[w] EXCEPT !.step = "verifying"]
    OBVIOUS
  <2>2. p.step = "verifying" /\ p.dump = worker[w].dump
    BY <1>1, <2>1 DEF Process
  <2>3. worker' = [worker EXCEPT ![w] = p]
    BY <1>1, <1>5, <2>1
  <2>4. worker'[w] = p /\ \A y \in Worker \ {w} : worker'[y] = worker[y]
    BY <1>1, <2>3
  <2>5. BackupInv(w)'
    BY <1>1, <1>3, <2>2, <2>4 DEF BackupInv, Done
  <2> QED BY <1>5, <1>6, <2>4, <2>5
<1> QED
  BY <1>4, <1>5 DEF LinkObject

\* The file that is there is reported; nothing changes but the worker.
LEMMA VerifyObjectKeepsFiles ==
  ASSUME FilesInv, Moves, NEW w \in Worker, VerifyObject(w)
  PROVE  FilesSafe'
<1> DEFINE a == KeyOf(worker[w].op)
<1>1. /\ TypeOK /\ TenantInv /\ WorkerInv(w)
  BY FilesFacts
<1>2. a \in Archive /\ objects[a].digest \in 0..MaxAttempts /\ FileInv(a)
  BY <1>1, KeysTyped, FilesFacts DEF VerifyObject, WorkerInv, Object
<1>3. tenant' = tenant /\ objects' = objects /\ AppliedStay
  BY DEF VerifyObject, world, AppliedStay
<1>4. CASE Reports(w, [Success EXCEPT !.digest = objects[a].digest])
  <2>1. /\ [Success EXCEPT !.digest = objects[a].digest] \in Report
        /\ [Success EXCEPT !.digest = objects[a].digest].digest = objects[a].digest
    BY <1>2, ReportsTyped
  <2>2. objects[a].digest # 0
    BY <1>2 DEF FileInv, VerifyObject
  <2>3. \A x \in Worker : worker'[x] = worker[x] \/ BackupInv(x)'
    BY <1>3, <1>4, <2>1, <2>2, BackupReported
  <2> QED BY <2>3, OwnFiles DEF VerifyObject
<1>5. CASE Reports(w, Failure(w, "failed"))
  <2>1. \A x \in Worker : worker'[x] = worker[x] \/ BackupInv(x)'
    BY <1>3, <1>5, FailureFiles
  <2> QED BY <2>1, OwnFiles DEF VerifyObject
<1> QED
  BY <1>4, <1>5 DEF VerifyObject, ReadBack

\* A live attempt removes what is not recorded yet and nobody else may report; what
\* a late one removes is remembered.
LEMMA VerifyFailsKeepsFiles ==
  ASSUME FilesInv, Moves, NEW w \in Worker, VerifyFails(w)
  PROVE  FilesSafe'
<1> DEFINE a == KeyOf(worker[w].op)
<1>1. /\ TypeOK /\ TenantInv /\ RowsInv /\ WorkerInv(w) /\ AttemptsInv /\ worker \in [Worker -> Process]
  BY FilesFacts DEF TypeOK
<1>2. a \in Archive /\ worker[w].op = BackupOp(a) /\ worker[w].step = "verifying"
  BY <1>1, KeysTyped DEF VerifyFails, WorkerInv
<1>3. /\ clock' = clock /\ AppliedStay /\ UNCHANGED <<ops, rows, tenant>>
      /\ objects' = [objects EXCEPT ![a] = NoObject] /\ Reports(w, Failure(w, "failed"))
  BY <1>1, TroubleEffect DEF VerifyFails, AppliedStay
<1>4. BackupInv(w)'
  BY <1>3, FailureFiles
<1>5. \A y \in Worker \ {w} : worker'[y] = worker[y]
  BY <1>1, <1>3 DEF Reports
<1>6. (NoObject = NoObject <=> NoObject.digest = 0) /\ \A m \in NoObject.holds : tenant.applied[m] > 0
  BY NoObjectTyped
<1>7. CASE objects[a] = NoObject
  <2>1. objects' = objects
    BY <1>1, <1>2, <1>3, <1>7 DEF TypeOK
  <2>2. \A x \in Worker : worker'[x] = worker[x] \/ BackupInv(x)'
    BY <1>4, <1>5
  <2> QED BY <1>3, <2>1, <2>2, WorkFiles
<1>8. CASE Live(worker[w].op, worker[w].attempt)
  <2>1. ~Restorable(a)
    BY <1>1, <1>2, <1>8 DEF Live, RowsInv, ArchiveInv, Succeeded, Kept, Restorable
  <2>2. ASSUME NEW y \in Worker \ {w}, worker[y].step # "idle", worker[y].op = BackupOp(a)
        PROVE  ~Live(worker[y].op, worker[y].attempt)
    <3>1. worker[y].attempt # worker[w].attempt
      BY <1>1, <1>2, <2>2 DEF AttemptsInv
    <3> QED BY <1>2, <1>8, <2>2, <3>1 DEF Live
  <2> HIDE DEF a
  <2> QED BY <1>2, <1>3, <1>4, <1>5, <1>6, <2>1, <2>2, NoObjectTyped, FileChanged
<1>9. CASE objects[a] # NoObject /\ ~Live(worker[w].op, worker[w].attempt)
  <2>1. <<a, objects[a].digest>> \in removed'
    BY <1>9 DEF VerifyFails
  <2>2. ~Restorable(a) \/ <<a, archives[a].digest>> \in removed'
    <3>1. ASSUME Restorable(a) PROVE <<a, archives[a].digest>> \in removed'
      <4>1. Restores(a)
        BY <1>2, <3>1, FilesFacts, RestoresAll
      <4> QED BY <2>1, <4>1 DEF Restores, Authentic, Moves
    <3> QED BY <3>1
  <2> HIDE DEF a
  <2> QED BY <1>2, <1>3, <1>4, <1>5, <1>6, <2>1, <2>2, NoObjectTyped, FileChanged
<1> QED
  BY <1>7, <1>8, <1>9

\* Only a file that is past its time is removed.
LEMMA ExpireKeepsFiles ==
  ASSUME FilesInv, Moves, NEW w \in Worker, Expire(w)
  PROVE  FilesSafe'
<1> DEFINE a == KeyOf(worker[w].op)
<1>1. TypeOK /\ TenantInv /\ RowsInv
  BY FilesFacts
<1>2. /\ a \in Archive /\ worker[w].op = ExpireOp(a) /\ ~Absent(ExpireOp(a))
      /\ Kind(worker[w].op) # "backup"
  BY <1>1, WorkingKind, KeysTyped DEF Expire, Absent
<1>3. ~Restorable(a)
  BY <1>1, <1>2 DEF RowsInv, ArchiveInv, Restorable
<1>4. AppliedStay /\ UNCHANGED <<ops, rows, tenant>>
  BY DEF Expire, AppliedStay
<1>5. /\ clock' = clock /\ BackupInv(w)'
      /\ \A x \in Worker : worker'[x] = worker[x] \/ BackupInv(x)'
  BY <1>2, <1>4, EndsFiles, ReportsTyped DEF Expire
<1>6. \A x \in Worker \ {w} : worker'[x] = worker[x]
  BY <1>1 DEF Expire, Ends, Refuses, Reports, TypeOK
<1>7. CASE objects' = [objects EXCEPT ![a] = NoObject]
  <2> HIDE DEF a
  <2> QED BY <1>2, <1>3, <1>4, <1>5, <1>6, <1>7, NoObjectTyped, FileChanged
<1>8. CASE objects' = objects
  BY <1>4, <1>5, <1>8, WorkFiles
<1> QED
  BY <1>7, <1>8 DEF Expire

\* A backup is recorded with the digest of its file, which nothing has expired.
LEMMA CompleteSuccessKeepsFiles ==
  ASSUME FilesInv, Moves, NEW w \in Worker, CompleteSuccess(w)
  PROVE  FilesSafe'
<1>1. PICK o : o = worker[w].op
  OBVIOUS
<1>2. PICK r : r = worker[w].report
  OBVIOUS
<1>3. /\ TypeOK /\ TenantInv /\ RowsInv /\ UsableRestores /\ BackupInv(w)
      /\ \A a \in Archive : FileInv(a)
  BY FilesFacts
<1>4. SuccessStep(w, o, r)
  BY <1>1, <1>2, <1>3, CompleteSuccessEffect
<1>5. /\ objects' = objects /\ clock' = clock /\ tenant' = tenant /\ o \in Op
      /\ \A m \in Migration : migrations'[m].archive = migrations[m].archive
      /\ \A a \in Archive :
           /\ archives'[a].expires = archives[a].expires
           /\ o = BackupOp(a) => archives'[a].state = "usable" /\ archives'[a].digest = r.digest
           /\ o = ExpireOp(a) /\ archives[a].state = "usable" => archives'[a].state = "deleted"
           /\ o # BackupOp(a) /\ (o # ExpireOp(a) \/ archives[a].state # "usable") =>
                archives'[a] = archives[a]
  BY <1>3, <1>4, SuccessArchives, SuccessMigrations DEF SuccessStep
<1>6. OpsStay /\ AppliedStay
  BY <1>4 DEF SuccessStep, OpsStay, AppliedStay, Absent
<1>7. \A x \in Worker : worker'[x] = worker[x] \/ BackupInv(x)'
  BY IdleFiles DEF CompleteSuccess, Answered
<1>8. ASSUME NEW a \in Archive, o = BackupOp(a)
      PROVE  Restores(a)'
  <2>1. archives[a].state = "creating"
    BY <1>4, <1>8, OpsNamed DEF SuccessStep, Acceptable
  <2>2. Absent(ExpireOp(a)) /\ \A m \in Migration : migrations[m].archive # a
    BY <1>3, <2>1 DEF RowsInv, ArchiveInv, MigrationInv, Kept
  <2>3. Done(w, "backup") /\ KeyOf(worker[w].op) = a
    BY <1>1, <1>8, OpsNamed DEF CompleteSuccess, Done
  <2>4. r.digest # 0 /\ Backed(w, a, r.digest)
    BY <1>2, <1>3, <2>3 DEF BackupInv
  <2>5. objects'[a] = objects[a] /\ archives'[a].digest = r.digest
    BY <1>5, <1>8
  <2>6. CASE objects[a].digest = r.digest
    <3>1. objects[a] # NoObject
      BY <2>4, <2>6, NoObjectTyped
    <3>2. Authentic(a)'
      BY <2>5, <2>6, <3>1 DEF Authentic
    <3> QED BY <1>5, <2>2, <3>2 DEF Restores
  <2>7. CASE <<a, r.digest>> \in removed
    BY <2>5, <2>7 DEF Restores, Moves
  <2>8. Live(worker[w].op, worker[w].attempt)
    BY DEF CompleteSuccess
  <2> QED BY <2>2, <2>4, <2>6, <2>7, <2>8 DEF Backed
<1>9. ASSUME NEW a \in Archive, o # BackupOp(a), Restorable(a)'
      PROVE  Restorable(a) /\ archives'[a] = archives[a]
  <2>1. archives'[a] = archives[a]
    BY <1>5, <1>9 DEF Restorable
  <2> QED BY <1>5, <1>9, <2>1 DEF Restorable, Expired
<1>10. UsableRestores'
  <2>1. ASSUME NEW a \in Archive, Restorable(a)' PROVE Restores(a)'
    <3>1. CASE o = BackupOp(a) BY <1>8, <3>1
    <3>2. CASE o # BackupOp(a)
      <4>1. Restores(a) /\ archives'[a] = archives[a] /\ removed \subseteq removed'
        BY <1>3, <1>9, <2>1, <3>2, RestoresAll DEF Moves
      <4> QED BY <1>5, <4>1 DEF Restores, Authentic
    <3> QED BY <3>1, <3>2
  <2> QED BY <2>1 DEF UsableRestores, Restores
<1>11. \A a \in Archive : FileInv(a)'
  BY <1>3, <1>5 DEF FileInv
<1>12. ASSUME NEW x \in Worker PROVE BackupInv(x)'
  BY <1>5, <1>6, <1>7, <1>12, BackupSame
<1> QED
  BY <1>10, <1>11, <1>12 DEF FilesSafe

LEMMA CompleteFailureKeepsFiles ==
  ASSUME FilesInv, Moves, NEW w \in Worker, CompleteFailure(w)
  PROVE  FilesSafe'
<1>1. TypeOK /\ TenantInv
  BY FilesFacts
<1>2. PICK o : o = worker[w].op
  OBVIOUS
<1>3. OpsStay
  <2>1. /\ o \in Op /\ ops'[o].state \in {"retriable", "succeeded", "failed"}
        /\ \A x \in Op \ {o} : ops'[x] = ops[x]
    BY <1>1, <1>2, ClosesEffect DEF CompleteFailure
  <2> QED BY <2>1 DEF OpsStay, Absent
<1>4. objects' = objects /\ clock' = clock /\ AppliedStay
  BY DEF CompleteFailure, env, world, AppliedStay
<1>5. ASSUME NEW a \in Archive, Restorable(a)'
      PROVE  Restorable(a) /\ archives'[a].digest = archives[a].digest
  <2>1. archives[a] \in ArchiveRow
    BY <1>1, TablesTyped
  <2>2. archives'[a] = archives[a] \/ archives'[a] = [archives[a] EXCEPT !.state = "corrupt"]
    BY DEF CompleteFailure
  <2>3. archives'[a] = archives[a]
    BY <1>5, <2>1, <2>2 DEF Restorable, ArchiveRow
  <2> QED BY <1>4, <1>5, <2>3 DEF Restorable, Expired
<1>6. ASSUME NEW m \in Migration PROVE migrations'[m].archive = migrations[m].archive
  <2>1. migrations[m] \in MigrationRow
    BY <1>1, TablesTyped
  <2>2. migrations'[m] = migrations[m] \/ migrations'[m] = [migrations[m] EXCEPT !.state = "failed"]
    BY DEF CompleteFailure
  <2> QED BY <2>1, <2>2 DEF MigrationRow
<1>7. \A x \in Worker : worker'[x] = worker[x] \/ BackupInv(x)'
  BY IdleFiles DEF CompleteFailure, Answered
<1> QED
  BY <1>3, <1>4, <1>5, <1>6, <1>7, FilesStay

LEMMA InitFiles ==
  ASSUME Init
  PROVE  FilesInv
<1>1. TenantInv
  BY InitTenant
<1>2. UsableRestores /\ AttemptsInv
  BY ArchivesNamed, IdleTyped DEF Init, UsableRestores, Restorable, AttemptsInv
<1>3. \A a \in Archive : FileInv(a)
  BY NoObjectTyped DEF Init, FileInv
<1>4. \A w \in Worker : BackupInv(w)
  BY IdleTyped DEF Init, BackupInv, Done
<1> QED
  BY <1>1, <1>2, <1>3, <1>4 DEF FilesInv

LEMMA NextFiles ==
  ASSUME FilesInv, [Next]_vars
  PROVE  FilesInv'
<1>1. TenantInv' /\ AttemptsInv' /\ Moves
  BY FilesFacts, NextTenant, NextAttempts, NextMoves
<1>2. ASSUME Request PROVE FilesSafe'
  BY <1>1, <1>2, RequestKeepsFiles, PlanMigrationKeepsFiles
<1>3. ASSUME NEW o \in Op, LeaseRunsOut(o) PROVE FilesSafe'
  BY <1>1, <1>3, LeaseRunsOutKeepsFiles
<1>4. ASSUME NEW w \in Worker, Poll(w) \/ Work(w) \/ Stop(w) PROVE FilesSafe'
  BY <1>1, <1>4, PollKeepsFiles, OwnStepKeepsFiles, ToolKeepsFiles, DumpAndFindKeepsFiles,
     LinkObjectKeepsFiles, VerifyObjectKeepsFiles, VerifyFailsKeepsFiles, ExpireKeepsFiles, CompleteSuccessKeepsFiles,
     CompleteFailureKeepsFiles DEF Work
<1>5. ASSUME UNCHANGED vars PROVE FilesSafe'
  <2>1. UNCHANGED <<ops, rows, world>> /\ UNCHANGED env /\ worker' = worker
    BY <1>5 DEF vars
  <2> QED BY <1>1, <2>1, OwnFiles
<1>6. FilesSafe'
  BY <1>2, <1>3, <1>4, <1>5 DEF Next
<1> QED
  BY <1>1, <1>6 DEF FilesInv, FilesSafe

\* A backup that control offers for a restore is there with the digest it recorded,
\* unless an attempt without its lease failed to read back that very file and
\* removed it; and the one a migration was planned with does not hold that
\* migration (Repository::seal, Repository::expire, scheduler_tick,
\* enqueue_migration_trial).
THEOREM RestoreSafety == Spec => []UsableRestores
<1>1. Init => FilesInv
  BY InitFiles
<1>2. FilesInv /\ [Next]_vars => FilesInv'
  BY NextFiles
<1>3. FilesInv => UsableRestores
  BY DEF FilesInv
<1> QED
  BY <1>1, <1>2, <1>3, PTL DEF Spec

-----------------------------------------------------------------------------
(* What is settled stays settled. *)

\* An operation that succeeded or failed keeps its row.
SettledStays == \A o \in Op : ops[o].state \in Settled => ops'[o] = ops[o]

LEMMA InsertSettled ==
  ASSUME TypeOK, NEW new, InsertOperations(new), \A o \in new : o \in Op => Absent(o)
  PROVE  SettledStays
<1>1. ops' = [o \in Op |-> IF o \in new THEN [ops[o] EXCEPT !.state = "queued"] ELSE ops[o]]
  BY DEF InsertOperations, Operations
<1> QED
  BY <1>1 DEF SettledStays, Settled, Absent

LEMMA RequestSettled ==
  ASSUME TenantInv, Request
  PROVE  SettledStays
<1>1. TypeOK /\ RowsInv /\ clock \in Day
  BY TablesTyped DEF TenantInv
<1>2. CASE CreateDatabase
  <2>1. Absent(ProvisionOp) /\ InsertOperations({ProvisionOp})
    BY <1>1, <1>2 DEF CreateDatabase, RowsInv, DatabaseInv, ProvisionOp
  <2> QED BY <1>1, <2>1, InsertSettled
<1>3. CASE SchedulerTick
  <2> DEFINE today == <<"daily", clock>>
             k == WeekOf(clock)
             routine == IF Ready THEN {o \in {<<"backup", today>>, <<"observe_storage", clock>>} : Absent(o)}
                                 ELSE {}
             due == {a \in Archive : archives[a].state = "usable" /\ Expired(a)
                                       /\ Absent(<<"archive_expire", a>>)}
             drilled == IF Ready /\ recoveries[k].state = "absent" THEN DrillSource ELSE {}
             drills == IF drilled = {} THEN {} ELSE {<<"restore_drill", k>>}
             new == routine \cup ({"archive_expire"} \X due) \cup drills
  <2>1. InsertOperations(new)
    BY <1>3 DEF SchedulerTick
  <2>2. \A o \in routine \cup ({"archive_expire"} \X due) : Absent(o)
    OBVIOUS
  <2>3. drilled # {} => Absent(<<"restore_drill", k>>)
    <3>1. k \in Week
      BY <1>1, WeekTyped
    <3> QED BY <1>1, <3>1 DEF RowsInv, RecoveryInv, DrillOp
  <2>4. \A o \in new : Absent(o)
    BY <2>2, <2>3
  <2> HIDE DEF new
  <2> QED BY <1>1, <2>1, <2>4, InsertSettled
<1>4. CASE AdvanceClock \/ Resize \/ \E m \in Migration : PlanMigration(m)
  BY <1>4 DEF AdvanceClock, Resize, PlanMigration, SettledStays
<1>5. ASSUME NEW e \in Export, CreateExport(e) PROVE SettledStays
  <2>1. PICK a : a = <<"export", e>>
    OBVIOUS
  <2>2. a \in Archive /\ archives[a].state = "absent" /\ InsertOperations({BackupOp(a)})
    BY <1>5, <2>1, ArchivesNamed DEF CreateExport, BackupOp
  <2> QED BY <1>1, <2>2, InsertSettled DEF RowsInv, ArchiveInv
<1>6. ASSUME NEW a \in Archive, CreateRecovery(a) PROVE SettledStays
  <2>1. PICK k : k = WeekOf(clock)
    OBVIOUS
  <2>2. k \in Week /\ recoveries[k].state = "absent" /\ InsertOperations({DrillOp(k)})
    BY <1>1, <1>6, <2>1, WeekTyped DEF CreateRecovery, DrillOp
  <2> QED BY <1>1, <2>2, InsertSettled DEF RowsInv, RecoveryInv
<1>7. ASSUME NEW m \in Migration, RequestBackup(m) PROVE SettledStays
  <2>1. PICK a : a = <<"pre_migration", <<m, database.data>>>>
    OBVIOUS
  <2>2. a \in Archive /\ archives[a].state = "absent" /\ InsertOperations({BackupOp(a)})
    BY <1>1, <1>7, <2>1, ArchivesNamed, TablesTyped DEF RequestBackup, BackupOp, DatabaseRow
  <2> QED BY <1>1, <2>2, InsertSettled DEF RowsInv, ArchiveInv
<1>8. ASSUME NEW m \in Migration, EnqueueTrial(m) PROVE SettledStays
  BY <1>1, <1>8, InsertSettled DEF EnqueueTrial
<1>9. ASSUME NEW m \in Migration, RecordValidation(m) PROVE SettledStays
  <2>1. Absent(LiveOp(m)) /\ InsertOperations({LiveOp(m)})
    BY <1>1, <1>9 DEF RecordValidation, LiveOp, RowsInv, MigrationInv, Validated
  <2> QED BY <1>1, <2>1, InsertSettled
<1> QED
  BY <1>2, <1>3, <1>4, <1>5, <1>6, <1>7, <1>8, <1>9 DEF Request

LEMMA ReapedSettled ==
  ASSUME NEW o \in Op, ops[o].state \in Settled
  PROVE  ReapedRow(o) = ops[o]
BY DEF ReapedRow, Settled

LEMMA PollSettled ==
  ASSUME TenantInv, NEW w \in Worker, Poll(w)
  PROVE  SettledStays
<1>1. ASSUME NEW o \in Oldest, NEW table, ops' = table, \A x \in Op \ {o} : table[x] = ReapedRow(x)
      PROVE  SettledStays
  <2>1. ReapedRow(o).state \in {"queued", "retriable"} /\ o \in Op
    BY DEF Oldest, Waiting
  <2>2. ops[o].state \notin Settled
    BY <2>1, ReapedSettled DEF Settled
  <2> QED BY <1>1, <2>2, ReapedSettled DEF SettledStays
<1>2. CASE LeaseNone
  <2>1. ops' = [o \in Op |-> ReapedRow(o)]
    BY <1>2 DEF LeaseNone, Operations, Reaped
  <2> QED BY <2>1, ReapedSettled DEF SettledStays
<1>3. ASSUME NEW o \in Oldest, LeaseExhausted(o) PROVE SettledStays
  <2>1. /\ ops' = [Reaped EXCEPT ![o].state = "failed"] /\ o \in Op
    BY <1>3 DEF LeaseExhausted, Operations, Oldest, Waiting
  <2>2. \A x \in Op \ {o} : ops'[x] = ReapedRow(x)
    BY <2>1 DEF Reaped
  <2> QED BY <1>1, <2>2
<1>4. ASSUME NEW o \in Oldest, Lease(w, o) PROVE SettledStays
  <2>1. PICK r : ops' = [Reaped EXCEPT ![o] = r]
    BY <1>4 DEF Lease, Operations
  <2>2. \A x \in Op \ {o} : ops'[x] = ReapedRow(x)
    BY <2>1 DEF Reaped
  <2> QED BY <1>1, <2>2
<1> QED
  BY <1>2, <1>3, <1>4 DEF Poll

LEMMA NextSettled ==
  ASSUME TenantInv, [Next]_vars
  PROVE  SettledStays
<1>1. CASE ops' = ops
  BY <1>1 DEF SettledStays
<1>2. CASE Request
  BY <1>2, RequestSettled
<1>3. ASSUME NEW o \in Op, LeaseRunsOut(o) PROVE SettledStays
  <2>1. ops \in [Op -> OpRow] /\ ops' = [ops EXCEPT ![o].live = FALSE] /\ ops[o].state = "running"
    BY <1>3 DEF LeaseRunsOut, TenantInv, TypeOK
  <2> QED BY <2>1 DEF SettledStays, Settled
<1>4. ASSUME NEW w \in Worker, CompleteSuccess(w) \/ CompleteFailure(w) PROVE SettledStays
  <2>1. PICK o : o = worker[w].op
    OBVIOUS
  <2>2. \A x \in Op \ {o} : ops'[x] = ops[x]
    BY <1>4, <2>1, ClosesEffect DEF CompleteSuccess, CompleteFailure
  <2>3. ops[o].state = "running"
    BY <1>4, <2>1 DEF CompleteSuccess, CompleteFailure, Live
  <2> QED BY <2>2, <2>3 DEF SettledStays, Settled
<1>5. ASSUME NEW w \in Worker, Work(w), ~CompleteSuccess(w), ~CompleteFailure(w) PROVE ops' = ops
  BY <1>5 DEF Work, ResolveCredentials, NoCredentials, WorkFails, Provision, DumpAndFind, LinkObject,
     VerifyObject, VerifyFails, Restore, Trial, RestoreInto, LiveApply, ObserveStorage, Expire, CompleteRefused
<1>6. ASSUME NEW w \in Worker, Stop(w) PROVE ops' = ops
  BY <1>6 DEF Stop
<1>7. CASE UNCHANGED vars
  BY <1>1, <1>7 DEF vars
<1> QED
  BY <1>1, <1>2, <1>3, <1>4, <1>5, <1>6, <1>7, PollSettled DEF Next

\* A late report, a lease or a tick never reopens or overturns an operation that
\* is settled (complete_operation, lease_operation, reap_expired_operations,
\* insert_operation).
THEOREM SettledForGood == Spec => [][SettledStays]_vars
<1>1. TenantInv /\ [Next]_vars => SettledStays
  BY NextSettled
<1> QED
  BY <1>1, TenantInvHolds, PTL DEF Spec
=============================================================================
