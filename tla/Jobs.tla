------------------------------- MODULE Jobs --------------------------------
(***************************************************************************)
(* The durable job queue of the control plane (crates/control/src/jobs.rs) *)
(* over its PostgreSQL tables jobs, job_attempts, job_effects and          *)
(* idempotency_records (crates/control/src/intent.rs,                      *)
(* migrations/0003_jobs_secrets.sql).                                      *)
(*                                                                         *)
(* A worker knows only the identities it was leased, so a request is an    *)
(* attempt number of a job, sent at any time and any number of times: late *)
(* and duplicated requests are the ordinary case here.  A transaction that *)
(* checks the clock (renew, complete) takes the row lock, checks, and      *)
(* commits in a later step; time passes and other requests queue up or     *)
(* skip the row in between.  Every other handler is one step.              *)
(*                                                                         *)
(* Time is kept as the number of ticks a lease still has, so no clock      *)
(* bound is needed: 0 is an expired lease, NoLease is SQL NULL.            *)
(***************************************************************************)
EXTENDS Integers, FiniteSets, Sequences

CONSTANTS
  Job,           \* job ids
  Worker,        \* worker ids
  NoWorker,      \* not a worker id
  Key,           \* Idempotency-Key values
  Payload,       \* request hashes
  MaxAttempts,   \* jobs.max_attempts, and the literal 3 of the handlers
  LeaseSeconds   \* FoundationState.worker_lease_seconds, in ticks

ASSUME NoWorkerAssumption == NoWorker \notin Worker
ASSUME MaxAttemptsAssumption == MaxAttempts \in Nat \ {0}
ASSUME LeaseSecondsAssumption == LeaseSeconds \in Nat \ {0}

VARIABLES
  jobs,      \* the jobs table
  attempts,  \* the job_attempts table, by job and attempt number
  effects,   \* the job_effects table: at most one row a job
  replays,   \* the idempotency_records table, by operation and key
  order,     \* job ids in created_at order
  txn,       \* the open transaction that holds the job's row lock
  answers,   \* completions answered 200 OK so far (history)
  dead       \* workers that crashed

vars == <<jobs, attempts, effects, replays, order, txn, answers, dead>>

-----------------------------------------------------------------------------
(* Rows. *)

NoLease == -1
NoAttempt == 0
AttemptNo == 1..MaxAttempts

Outcome == {"succeeded", "failed", "retriable"}
Terminal == {"succeeded", "failed", "canceled"}
JobState == {"absent", "queued", "running", "retriable"} \cup Terminal
AttemptState == {"absent", "running", "expired", "canceled"} \cup Outcome

JobRow == [state : JobState, revision : Nat, attempt_count : 0..MaxAttempts,
           current_attempt : 0..MaxAttempts, current_fence : Nat,
           lease : NoLease..LeaseSeconds]
AttemptRow == [state : AttemptState, fence : Nat, worker : Worker \cup {NoWorker},
               lease : NoLease..LeaseSeconds, hash : Outcome \cup {"none"}]
EffectRow == [state : {"none", "succeeded", "failed"}, attempt : 0..MaxAttempts,
              fence : Nat, hash : Outcome \cup {"none"},
              body : {"none", "complete_response", "exhausted_object"}]
Op == {"create"} \X {"any"} \cup {"cancel"} \X Job
ReplayRow == [hash : Payload, job : Job]
NoTxn == [op |-> "none", attempt |-> NoAttempt, outcome |-> "none"]
TxnRow == {NoTxn}
            \cup [op : {"renew"}, attempt : AttemptNo, outcome : {"none"}]
            \cup [op : {"complete"}, attempt : AttemptNo, outcome : Outcome]

AbsentJob == [state |-> "absent", revision |-> 0, attempt_count |-> 0,
              current_attempt |-> NoAttempt, current_fence |-> 0, lease |-> NoLease]
AbsentAttempt == [state |-> "absent", fence |-> 0, worker |-> NoWorker,
                  lease |-> NoLease, hash |-> "none"]
NoEffect == [state |-> "none", attempt |-> NoAttempt, fence |-> 0,
             hash |-> "none", body |-> "none"]

Init ==
  /\ jobs     = [j \in Job |-> AbsentJob]
  /\ attempts = [j \in Job |-> [n \in AttemptNo |-> AbsentAttempt]]
  /\ effects  = [j \in Job |-> NoEffect]
  /\ replays  = <<>>
  /\ order    = <<>>
  /\ txn      = [j \in Job |-> NoTxn]
  /\ answers  = {}
  /\ dead     = {}

\* No other transaction holds the row: FOR UPDATE proceeds, SKIP LOCKED sees it.
UnlockedIgnored(j) == TRUE
Unlocked(j) == txn[j] = NoTxn

\* revision = revision + 1
NextRevision(r) == r + 1

\* UPDATE jobs SET state, revision + 1, attempt_count, current_attempt_id,
\* current_fence, lease_expires_at: every handler but renew_job ends in one.
Moved(row, s, count, n, fence, lease) ==
  [state |-> s, revision |-> NextRevision(row.revision), attempt_count |-> count,
   current_attempt |-> n, current_fence |-> fence, lease |-> lease]

\* UPDATE job_attempts SET state, completion_hash ... WHERE state = 'running',
\* and, in reap_expired and complete_job, under the fence the row was leased with.
Closed(rows, n, s, hash) ==
  IF n \in AttemptNo /\ rows[n].state = "running"
  THEN [rows EXCEPT ![n] = [state |-> s, fence |-> rows[n].fence,
                            worker |-> rows[n].worker, lease |-> rows[n].lease,
                            hash |-> hash]]
  ELSE rows

\* current_fence + 1
NextFence(f) == f + 1

-----------------------------------------------------------------------------
(* Owner requests. *)

\* intent::replay: an operation and key already recorded answer from the record.
ReplayMiss(op, k) == <<op, k>> \notin DOMAIN replays

StoreReplay(op, k, p, j) ==
  replays' = [r \in DOMAIN replays \cup {<<op, k>>} |->
                IF r = <<op, k>> THEN [hash |-> p, job |-> j] ELSE replays[r]]

CreateJob(j, k, p) ==
  LET op == <<"create", "any">> IN
  /\ ReplayMiss(op, k)
  /\ jobs[j].state = "absent"
  /\ jobs' = [jobs EXCEPT ![j] = Moved(@, "queued", 0, NoAttempt, 0, NoLease)]
  /\ order' = Append(order, j)
  /\ StoreReplay(op, k, p, j)
  /\ UNCHANGED <<attempts, effects, txn, answers, dead>>

\* The If-Match revision r is one the owner saw in an earlier answer.
CancelJob(j, k, p, r) ==
  LET op == <<"cancel", j>> IN
  /\ jobs[j].state /= "absent"
  /\ Unlocked(j)
  /\ ReplayMiss(op, k)
  /\ jobs[j].revision = r
  /\ jobs[j].state \notin Terminal
  /\ attempts' = [attempts EXCEPT ![j] =
                    Closed(@, jobs[j].current_attempt, "canceled", "none")]
  /\ jobs' = [jobs EXCEPT ![j] =
                Moved(@, "canceled", @.attempt_count, NoAttempt,
                      NextFence(@.current_fence), NoLease)]
  /\ StoreReplay(op, k, p, j)
  /\ UNCHANGED <<effects, order, txn, answers, dead>>

-----------------------------------------------------------------------------
(* The reaper: one iteration of the loop, on one expired job. *)

\* INSERT INTO job_effects ... ON CONFLICT (job_id) DO NOTHING
ExhaustedEffect(j) ==
  IF effects[j] = NoEffect
  THEN [state |-> "failed", attempt |-> jobs[j].current_attempt,
        fence |-> jobs[j].current_fence, hash |-> "none", body |-> "exhausted_object"]
  ELSE effects[j]

ExpiredUnlessLast(j) ==
  jobs[j].state = "running" /\ jobs[j].lease = 0 /\ jobs[j].attempt_count < MaxAttempts
Expired(j) == jobs[j].state = "running" /\ jobs[j].lease = 0

ReapExpired(j) ==
  LET exhausted == jobs[j].attempt_count >= MaxAttempts IN
  /\ Expired(j)
  /\ Unlocked(j)
  /\ attempts' = [attempts EXCEPT ![j] =
                    Closed(@, jobs[j].current_attempt, "expired", "none")]
  /\ jobs' = [jobs EXCEPT ![j] =
                Moved(@, IF exhausted THEN "failed" ELSE "retriable", @.attempt_count,
                      NoAttempt, @.current_fence, NoLease)]
  /\ effects' = [effects EXCEPT ![j] = IF exhausted THEN ExhaustedEffect(j) ELSE @]
  /\ UNCHANGED <<replays, order, txn, answers, dead>>

-----------------------------------------------------------------------------
(* Worker requests. *)

Waiting(row) == row.state \in {"queued", "retriable"}
Claimable(row) == Waiting(row) /\ row.attempt_count < MaxAttempts

Position(j) == CHOOSE i \in DOMAIN order : order[i] = j

\* ORDER BY created_at, id FOR UPDATE SKIP LOCKED LIMIT 1
NextClaim(j) ==
  /\ Claimable(jobs[j])
  /\ Unlocked(j)
  /\ \A i \in Job :
       (Claimable(jobs[i]) /\ Unlocked(i)) => Position(j) <= Position(i)

\* The claiming transaction of lease_job.  The reap_expired call before it is a
\* run of ReapExpired steps, each its own transaction; a lease may run out
\* between that call and the claim, so the claim asks nothing of other jobs.
LeaseJob(j, w) ==
  LET n == jobs[j].attempt_count + 1
      f == NextFence(jobs[j].current_fence) IN
  /\ w \notin dead
  /\ NextClaim(j)
  /\ jobs' = [jobs EXCEPT ![j] = Moved(@, "running", n, n, f, LeaseSeconds)]
  /\ attempts' = [attempts EXCEPT ![j] = [@ EXCEPT ![n] =
                    [state |-> "running", fence |-> f, worker |-> w,
                     lease |-> LeaseSeconds, hash |-> "none"]]]
  /\ UNCHANGED <<effects, replays, order, txn, answers, dead>>

\* A request carries the identity leased as attempt n; a dead worker sends none.
Sends(j, n) ==
  /\ attempts[j][n].state /= "absent"
  /\ attempts[j][n].worker \notin dead

\* The join of a job row and its attempt rows the handlers lock with FOR UPDATE.
HoldsStale(row, rows, n) == rows[n].state /= "absent" /\ row.state = "running"
Holds(row, rows, n) ==
  /\ row.state = "running"
  /\ row.current_attempt = n
  /\ row.current_fence = rows[n].fence
  /\ rows[n].state = "running"

LeaseLiveIgnored(j, n) == TRUE
LeaseLive(j, n) == jobs[j].lease > 0 /\ attempts[j][n].lease > 0

RenewLock(j, n) ==
  /\ Sends(j, n)
  /\ Unlocked(j)
  /\ Holds(jobs[j], attempts[j], n)
  /\ LeaseLive(j, n)
  /\ txn' = [txn EXCEPT ![j] = [op |-> "renew", attempt |-> n, outcome |-> "none"]]
  /\ UNCHANGED <<jobs, attempts, effects, replays, order, answers, dead>>

RenewCommit(j) ==
  LET n == txn[j].attempt IN
  /\ txn[j].op = "renew"
  /\ jobs' = [jobs EXCEPT ![j] =
                IF @.current_attempt = n /\ @.current_fence = attempts[j][n].fence
                THEN [@ EXCEPT !.lease = LeaseSeconds]
                ELSE @]
  /\ attempts' = [attempts EXCEPT ![j] =
                    [@ EXCEPT ![n].lease = LeaseSeconds]]
  /\ txn' = [txn EXCEPT ![j] = NoTxn]
  /\ UNCHANGED <<effects, replays, order, answers, dead>>

\* The two replay branches of complete_job, tried before the live branch.
RetryReplayed(j, n) ==
  jobs[j].state = "retriable" /\ jobs[j].current_fence = attempts[j][n].fence

TerminalReplayed(j, n) ==
  /\ jobs[j].state \in {"succeeded", "failed"}
  /\ jobs[j].current_attempt = n
  /\ jobs[j].current_fence = attempts[j][n].fence

\* stored_hash = completion_hash
SameCompletionIgnored(stored, o) == stored /= "none"
SameCompletion(stored, o) == stored = o

CompleteReplay(j, n, o) ==
  /\ Sends(j, n)
  /\ Unlocked(j)
  /\ \/ /\ RetryReplayed(j, n)
        /\ attempts[j][n].state = "retriable"
        /\ SameCompletion(attempts[j][n].hash, o)
     \/ /\ TerminalReplayed(j, n)
        /\ effects[j].attempt = n
        /\ effects[j].fence = attempts[j][n].fence
        /\ SameCompletion(effects[j].hash, o)
  /\ answers' = answers \cup {[job |-> j, attempt |-> n, outcome |-> o]}
  /\ UNCHANGED <<jobs, attempts, effects, replays, order, txn, dead>>

CompleteLock(j, n, o) ==
  /\ Sends(j, n)
  /\ Unlocked(j)
  /\ ~ RetryReplayed(j, n)
  /\ ~ TerminalReplayed(j, n)
  /\ Holds(jobs[j], attempts[j], n)
  /\ LeaseLive(j, n)
  /\ txn' = [txn EXCEPT ![j] = [op |-> "complete", attempt |-> n, outcome |-> o]]
  /\ UNCHANGED <<jobs, attempts, effects, replays, order, answers, dead>>

\* A retry asked for on the last attempt is a failure.
EffectiveUnbounded(row, o) == o
Effective(row, o) ==
  IF o = "retriable" /\ row.attempt_count >= MaxAttempts THEN "failed" ELSE o

\* CASE WHEN terminal THEN current_attempt_id ELSE NULL END
KeptAttempt(row, s) == IF s /= "retriable" THEN row.current_attempt ELSE NoAttempt

CompleteCommit(j) ==
  LET n == txn[j].attempt
      o == txn[j].outcome
      s == Effective(jobs[j], o)
      terminal == s /= "retriable" IN
  /\ txn[j].op = "complete"
  /\ attempts' = [attempts EXCEPT ![j] = Closed(@, n, s, o)]
  /\ jobs' = [jobs EXCEPT ![j] =
                Moved(@, s, @.attempt_count, KeptAttempt(@, s), @.current_fence, NoLease)]
  /\ terminal => effects[j] = NoEffect            \* UNIQUE (job_id)
  /\ effects' = [effects EXCEPT ![j] =
                   IF terminal
                   THEN [state |-> s, attempt |-> n, fence |-> attempts[j][n].fence,
                         hash |-> o, body |-> "complete_response"]
                   ELSE @]
  /\ answers' = answers \cup {[job |-> j, attempt |-> n, outcome |-> o]}
  /\ txn' = [txn EXCEPT ![j] = NoTxn]
  /\ UNCHANGED <<replays, order, dead>>

\* The control process or its connection dies: PostgreSQL rolls back.
Rollback(j) ==
  /\ txn[j] /= NoTxn
  /\ txn' = [txn EXCEPT ![j] = NoTxn]
  /\ UNCHANGED <<jobs, attempts, effects, replays, order, answers, dead>>

-----------------------------------------------------------------------------
(* The environment. *)

OneLess(t) == IF t > 0 THEN t - 1 ELSE t

Tick ==
  /\ \E j \in Job : jobs[j].lease > 0
  /\ jobs' = [j \in Job |-> [jobs[j] EXCEPT !.lease = OneLess(jobs[j].lease)]]
  /\ attempts' = [j \in Job |-> [n \in AttemptNo |->
                    [attempts[j][n] EXCEPT !.lease = OneLess(attempts[j][n].lease)]]]
  /\ UNCHANGED <<effects, replays, order, txn, answers, dead>>

Crash(w) ==
  /\ w \notin dead
  /\ dead' = dead \cup {w}
  /\ UNCHANGED <<jobs, attempts, effects, replays, order, txn, answers>>

Next ==
  \/ \E j \in Job, k \in Key, p \in Payload :
       \/ CreateJob(j, k, p)
       \/ \E r \in 1..jobs[j].revision : CancelJob(j, k, p, r)
  \/ \E j \in Job :
       \/ ReapExpired(j)
       \/ RenewCommit(j)
       \/ CompleteCommit(j)
       \/ Rollback(j)
       \/ \E w \in Worker : LeaseJob(j, w)
       \/ \E n \in AttemptNo :
            \/ RenewLock(j, n)
            \/ \E o \in Outcome : CompleteLock(j, n, o) \/ CompleteReplay(j, n, o)
  \/ Tick
  \/ \E w \in Worker : Crash(w)

Spec == Init /\ [][Next]_vars

\* The reaper task runs every second, PostgreSQL ends every transaction, time
\* passes, and some worker that is up keeps polling for work.
Fairness ==
  /\ WF_vars(Tick)
  /\ \A j \in Job :
       /\ WF_vars(ReapExpired(j))
       /\ WF_vars(RenewCommit(j) \/ CompleteCommit(j) \/ Rollback(j))
       /\ WF_vars(\E w \in Worker : LeaseJob(j, w))

FairSpec == Spec /\ Fairness

-----------------------------------------------------------------------------
(* Properties. *)

TypeOK ==
  /\ jobs \in [Job -> JobRow]
  /\ attempts \in [Job -> [AttemptNo -> AttemptRow]]
  /\ effects \in [Job -> EffectRow]
  /\ DOMAIN replays \subseteq Op \X Key
  /\ \A r \in DOMAIN replays : replays[r] \in ReplayRow
  /\ order \in Seq(Job)
  /\ txn \in [Job -> TxnRow]
  /\ answers \subseteq [job : Job, attempt : AttemptNo, outcome : Outcome]
  /\ dead \subseteq Worker

\* No handler runs into a CHECK or FOREIGN KEY of the jobs table at commit: a
\* lease is set exactly while the job runs, and a current attempt is the last
\* one leased, under the current fence, of a job that runs or that it settled.
RowConstraints(row, rows) ==
  /\ row.state = "running" <=> row.lease /= NoLease
  /\ row.state = "running" => row.current_attempt /= NoAttempt
  /\ row.current_attempt /= NoAttempt =>
       /\ row.state \in {"running", "succeeded", "failed"}
       /\ row.current_attempt = row.attempt_count
       /\ row.current_fence = rows[row.current_attempt].fence
  /\ row.state \in {"absent", "queued"} => row.attempt_count = 0 /\ row.current_fence = 0

\* A job has a running attempt exactly while it is running, that attempt is its
\* current one under its current fence, and the two expiry columns agree:
\* lease, renew, reap, cancel and complete write both tables in step.
LiveIsCurrent(row, rows) ==
  \A n \in AttemptNo :
    /\ rows[n].state = "running" <=> row.state = "running" /\ row.current_attempt = n
    /\ rows[n].state = "running" =>
         rows[n].fence = row.current_fence /\ rows[n].lease = row.lease

OneLiveAttempt == \A j \in Job : LiveIsCurrent(jobs[j], attempts[j])

\* A job has an effect exactly when it succeeded or failed, and the effect is
\* that of its last attempt under its current fence: no expired, superseded or
\* canceled attempt ever decides a job.
EffectOfLast(row, effect) ==
  /\ effect /= NoEffect <=> row.state \in {"succeeded", "failed"}
  /\ effect /= NoEffect =>
       /\ effect.state = row.state
       /\ effect.attempt = row.attempt_count
       /\ effect.fence = row.current_fence

EffectOfLastAttempt == \A j \in Job : EffectOfLast(jobs[j], effects[j])

\* The terminal replay branch of complete_job answers from an effect whose body
\* it can decode, written by the same completion as the attempt row: it never
\* meets the object the reaper stores for an exhausted job.  The retry branch
\* answers only a completion that asked for a retry.
Decodes(row, rows, effect) ==
  /\ row.state \in Terminal /\ row.current_attempt /= NoAttempt =>
       /\ effect.attempt = row.current_attempt
       /\ effect.body = "complete_response"
       /\ effect.hash = rows[row.current_attempt].hash
  /\ \A n \in AttemptNo : rows[n].state = "retriable" => rows[n].hash = "retriable"

ReplayDecodes == \A j \in Job : Decodes(jobs[j], attempts[j], effects[j])

\* A job that waits can still be claimed: reap_expired and complete_job fail a
\* job on its last attempt, they never park it where lease_job skips it.
NeverStranded == \A j \in Job : Waiting(jobs[j]) => Claimable(jobs[j])

\* A transaction that passed its live check still finds its attempt current and
\* running when it commits, although the lease may have run out meanwhile: the
\* row lock keeps out cancel_job and lease_job and makes the reaper skip the job.
LockHolds ==
  \A j \in Job : txn[j] /= NoTxn => Holds(jobs[j], attempts[j], txn[j].attempt)

\* An attempt is told OK for one outcome only, however often complete_job is
\* called: the outcome its row records, and for a final outcome the job's effect.
AnswersHold ==
  \A a \in answers :
    /\ attempts[a.job][a.attempt].state \notin {"absent", "running"}
    /\ attempts[a.job][a.attempt].hash = a.outcome
    /\ a.outcome /= "retriable" =>
         /\ effects[a.job].attempt = a.attempt
         /\ effects[a.job].hash = a.outcome

\* Fences grow with every attempt and the job's fence bounds them all, so a
\* fence identifies one attempt of a job for good.
FencesOrdered(row, rows) ==
  \A n \in AttemptNo :
    /\ rows[n].state /= "absent" <=> n <= row.attempt_count
    /\ rows[n].fence <= row.current_fence
    /\ \A m \in AttemptNo : m < n /\ n <= row.attempt_count => rows[m].fence < rows[n].fence

\* A settled job, its effect and a closed attempt never change again, whatever
\* arrives late.
SettledForever ==
  [][\A j \in Job :
       /\ jobs[j].state \in Terminal =>
            jobs'[j] = jobs[j] /\ effects'[j] = effects[j]
       /\ \A n \in AttemptNo : attempts[j][n].state \notin {"absent", "running"} =>
            /\ attempts'[j][n].state = attempts[j][n].state
            /\ attempts'[j][n].hash = attempts[j][n].hash]_vars

\* Once a lease has run out with no transaction open on the job, its attempt is
\* lost: no renewal, completion or answer can follow for it, and the job leaves
\* running only through the reaper or the owner.  renew_job and complete_job
\* read the clock after they hold the row, so waiting for it revives nothing.
LapsedIsLost ==
  [][\A j \in Job :
       Expired(j) /\ txn[j] = NoTxn =>
         /\ txn'[j] = NoTxn
         /\ jobs'[j].lease <= 0
         /\ {a \in answers' : a.job = j} = {a \in answers : a.job = j}]_vars

\* The queue keeps the promises of WorkQueue.
WQ == INSTANCE WorkQueue WITH
  Item <- Job, Owner <- Worker, NoOwner <- NoWorker, Limit <- MaxAttempts,
  status <- [j \in Job |->
               CASE jobs[j].state \in {"queued", "retriable"} -> "waiting"
                 [] jobs[j].state = "running" -> "owned"
                 [] OTHER -> jobs[j].state],
  owner <- [j \in Job |-> IF jobs[j].state = "running"
                          THEN attempts[j][jobs[j].current_attempt].worker
                          ELSE NoWorker],
  grants <- [j \in Job |-> jobs[j].attempt_count]

ImplementsWorkQueue == WQ!QSpec

\* While some worker stays up, a job that nobody renews for ever is settled.
EventuallySettled ==
  \A j \in Job :
    (<>[][~ RenewCommit(j)]_vars /\ <>[](dead /= Worker))
      => (jobs[j].state = "queued" ~> jobs[j].state \in Terminal)
=============================================================================
