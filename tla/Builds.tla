------------------------------- MODULE Builds -------------------------------
(***************************************************************************)
(* The project build queue of the control plane                            *)
(* (crates/control/src/build_jobs.rs) over its tables build_jobs,          *)
(* build_attempts, build_effects, build_attempt_receipts,                  *)
(* build_usage_reservations and build_usage_events                         *)
(* (migrations/0006_m3_execution.sql, 0005_onboarding.sql).                *)
(*                                                                         *)
(* Unlike the job queue of Jobs, a build holds an account's only build     *)
(* slot until its worker reports its virtual machine gone, and reserves    *)
(* seconds of the account's meter until it is billed.                      *)
(*                                                                         *)
(* A live request (renew, materialize, credentials, complete) tests the    *)
(* row and takes its lock in ONE statement, lock_live_attempt.  PostgreSQL *)
(* evaluates the test before it waits for the lock and repeats it only if  *)
(* the row changed while it waited: Join, Wake and recheck below.          *)
(*                                                                         *)
(* Time is the number of ticks a lease still has.  The two expiry columns  *)
(* (of the build and of its attempt) are always written together and are   *)
(* one field here.                                                         *)
(***************************************************************************)
EXTENDS Integers, FiniteSets

CONSTANTS
  Build,        \* build job ids
  Account,      \* account ids
  AccountOf,    \* the account (and entitlement) of a build
  MaxAttempts,  \* build_jobs.max_attempts, the literal 3 of reap_expired
  LeaseTicks,   \* worker_lease_seconds
  HandoffTicks, \* SOURCE_REJECTION_COMPLETION_SECONDS
  Reserved,     \* RESERVED_SECONDS
  Served        \* bound: the builds whose workers send requests, and which may
                \*   become inadmissible; the others only compete for the slot

ASSUME AccountOfAssumption == AccountOf \in [Build -> Account]
ASSUME MaxAttemptsAssumption == MaxAttempts \in Nat \ {0}
ASSUME TicksAssumption == LeaseTicks \in Nat \ {0} /\ HandoffTicks \in Nat \ {0}
ASSUME SecondsAssumption == Reserved \in Nat \ {0}
ASSUME ServedAssumption == Served \subseteq Build

VARIABLES
  builds,    \* the build_jobs table
  attempts,  \* the build_attempts table, by build and attempt number
  effects,   \* the build_effects table: at most one row a build
  receipts,  \* the build_attempt_receipts table
  usage,     \* the build_usage_reservations table
  debits,    \* seconds of the debit event of an attempt, 0 without one
  txn,       \* the open transaction that holds the build's row lock
  waiting,   \* the request that waits for that lock
  admitted   \* builds whose reservation, entitlement and proof are all valid

vars == <<builds, attempts, effects, receipts, usage, debits, txn, waiting, admitted>>

-----------------------------------------------------------------------------
(* Rows. *)

NoLease == -1
NoAttempt == 0
AttemptNo == 1..MaxAttempts

Open == {"queued", "running", "retriable"}
Terminal == {"succeeded", "failed", "canceled"}
Cleanup == {"not_started", "confirmed", "pending"}

\* rejected is the code source_policy_rejected; the other codes are not told apart.
\* valid_completion, with the cleanup receipt that goes with the completion.
ValidCompletion(c) ==
  /\ c.state = "succeeded" => c.elapsed > 0 /\ c.cleanup = "confirmed"
  /\ c.state = "retriable" => c.elapsed = 0
  /\ c.rejected => c.state = "failed"
Completion ==
  {c \in [state : {"succeeded", "failed", "retriable"}, elapsed : 0..Reserved,
          cleanup : {"confirmed", "pending"}, rejected : BOOLEAN] : ValidCompletion(c)}
NoOutcome == [state |-> "none", elapsed |-> 0, cleanup |-> "not_started",
              rejected |-> FALSE]
Acknowledged(s) == [state |-> "canceled", elapsed |-> s, cleanup |-> "confirmed",
                    rejected |-> FALSE]

BuildState == {"absent"} \cup Open \cup Terminal
AttemptState == {"absent", "running", "retriable"} \cup Terminal
EffectState == {"none", "succeeded", "failed"}
UsageState == {"none", "reserved", "finalized", "released"}
BuildRow == [state : BuildState, attempt_count : 0..MaxAttempts,
             current_attempt : 0..MaxAttempts, current_fence : Nat,
             lease : {NoLease} \cup Nat, cleanup : Cleanup, materialized : BOOLEAN]
AttemptRow == [state : AttemptState, fence : Nat, launched : BOOLEAN]
EffectRow == [state : EffectState, attempt : 0..MaxAttempts, fence : Nat]
UsageRow == [state : UsageState, seconds : 0..Reserved]
Receipt == Completion \cup {NoOutcome} \cup {Acknowledged(s) : s \in 0..Reserved}

Request == [op : {"renew", "materialize", "credentials"}, attempt : AttemptNo,
            outcome : {NoOutcome}]
             \cup [op : {"complete"}, attempt : AttemptNo, outcome : Completion]
NoTxn == [op |-> "none", attempt |-> NoAttempt, outcome |-> NoOutcome]
LeaseTxn == [op |-> "lease", attempt |-> NoAttempt, outcome |-> NoOutcome]
TxnRow == Request \cup {NoTxn, LeaseTxn}
NotWaiting == [req |-> NoTxn, recheck |-> FALSE]
WaitRow == [req : Request \cup {NoTxn}, recheck : BOOLEAN]

AbsentBuild == [state |-> "absent", attempt_count |-> 0, current_attempt |-> NoAttempt,
                current_fence |-> 0, lease |-> NoLease, cleanup |-> "not_started",
                materialized |-> FALSE]
AbsentAttempt == [state |-> "absent", fence |-> 0, launched |-> FALSE]
NoEffect == [state |-> "none", attempt |-> NoAttempt, fence |-> 0]

Init ==
  /\ builds   = [b \in Build |-> AbsentBuild]
  /\ attempts = [b \in Build |-> [n \in AttemptNo |-> AbsentAttempt]]
  /\ effects  = [b \in Build |-> NoEffect]
  /\ receipts = [b \in Build |-> [n \in AttemptNo |-> NoOutcome]]
  /\ usage    = [b \in Build |-> [state |-> "none", seconds |-> 0]]
  /\ debits   = [b \in Build |-> [n \in AttemptNo |-> 0]]
  /\ txn      = [b \in Build |-> NoTxn]
  /\ waiting  = [b \in Build |-> NotWaiting]
  /\ admitted = Build

Unlocked(b) == txn[b] = NoTxn

\* A committed write of the build or its attempt: whoever waits tests it again.
Touch(b) ==
  waiting' = [waiting EXCEPT ![b].recheck = waiting[b].req /= NoTxn]

\* UPDATE build_attempts SET state ... WHERE ... AND state = 'running'
CloseAttempt(b, n, s) ==
  attempts' = [attempts EXCEPT ![b][n] =
                 IF @.state = "running" THEN [@ EXCEPT !.state = s] ELSE @]

\* UPDATE build_usage_reservations SET state = 'finalized' | 'released'
\* ... WHERE state = 'reserved', with the debit event when seconds were used.
Settle(b, s, seconds) ==
  usage' = [usage EXCEPT ![b] =
              IF @.state = "reserved" THEN [state |-> s, seconds |-> seconds] ELSE @]

DebitTwice(b, n, seconds) ==
  debits' = [debits EXCEPT ![b] = [m \in AttemptNo |-> IF m <= n THEN seconds ELSE 0]]
Debit(b, n, seconds) == debits' = [debits EXCEPT ![b][n] = @ + seconds]

-----------------------------------------------------------------------------
(* Owner requests. *)

OfAccount(a) == {b \in Build : AccountOf[b] = a}

\* The seconds that debit events bill, told apart so that they can be counted.
Billed(b) == UNION {{n} \X (1..debits[b][n]) : n \in AttemptNo}

\* enqueue also refuses a build whose reservation would take the account's debits
\* and reservations past build_seconds_limit.  put_entitlement_fixture sets that
\* limit and record_build_usage adds debits at any time (Admission), so here the
\* test may go either way; a refused request changes nothing.
Enqueue(b) ==
  /\ builds[b].state = "absent"
  /\ b \in admitted
  /\ builds' = [builds EXCEPT ![b].state = "queued"]
  /\ usage' = [usage EXCEPT ![b] = [state |-> "reserved", seconds |-> 0]]
  /\ UNCHANGED <<attempts, effects, receipts, debits, txn, waiting, admitted>>

\* cancel: a live attempt leaves its seconds reserved and its cleanup pending
\* until cancel_ack; without one nothing ran and the reservation is released.
CancelSettles(b) ==
  IF builds[b].current_attempt /= NoAttempt
  THEN UNCHANGED usage
  ELSE Settle(b, "released", 0)

Cancelable(b) == builds[b].state \in Open

Cancel(b) ==
  LET n == builds[b].current_attempt IN
  /\ Unlocked(b)
  /\ Cancelable(b)
  /\ IF n /= NoAttempt THEN CloseAttempt(b, n, "canceled") ELSE UNCHANGED attempts
  /\ CancelSettles(b)
  /\ builds' = [builds EXCEPT ![b] =
                  [@ EXCEPT !.state = "canceled", !.current_attempt = NoAttempt,
                            !.current_fence = builds[b].current_fence + 1, !.lease = NoLease,
                            !.cleanup = IF n /= NoAttempt THEN "pending" ELSE "not_started"]]
  /\ Touch(b)
  /\ UNCHANGED <<effects, receipts, debits, txn, admitted>>

-----------------------------------------------------------------------------
(* lease: two statements of one transaction, the claim of a build row and,     *)
(* under the lock of the account row, the decision.                            *)

Active(row) == row.state = "running" \/ row.cleanup = "pending"
Clear(a) == \A b \in OfAccount(a) : ~ Active(builds[b])

Claimable(row) == row.state \in {"queued", "retriable"} /\ row.attempt_count < MaxAttempts

\* Any claimable build may be the oldest one of a profile the worker offers.
LeaseClaim(b) ==
  /\ Unlocked(b)
  /\ Claimable(builds[b])
  /\ Clear(AccountOf[b])
  /\ txn' = [txn EXCEPT ![b] = LeaseTxn]
  /\ UNCHANGED <<builds, attempts, effects, receipts, usage, debits, waiting, admitted>>

\* still_clear
StillClear(b) == Clear(AccountOf[b])

LeaseYield(b) ==
  /\ txn[b] = LeaseTxn
  /\ ~ StillClear(b)
  /\ txn' = [txn EXCEPT ![b] = NoTxn]
  /\ UNCHANGED <<builds, attempts, effects, receipts, usage, debits, waiting, admitted>>

LeaseStale(b) ==
  /\ txn[b] = LeaseTxn
  /\ StillClear(b)
  /\ b \notin admitted
  /\ builds' = [builds EXCEPT ![b].state = "failed"]
  /\ Settle(b, "released", 0)
  /\ txn' = [txn EXCEPT ![b] = NoTxn]
  /\ Touch(b)
  /\ UNCHANGED <<attempts, effects, receipts, debits, admitted>>

LeaseGrant(b) ==
  LET n == builds[b].attempt_count + 1
      f == builds[b].current_fence + 1 IN
  /\ txn[b] = LeaseTxn
  /\ StillClear(b)
  /\ b \in admitted
  /\ attempts' = [attempts EXCEPT ![b][n] =
                    [state |-> "running", fence |-> f, launched |-> FALSE]]
  /\ builds' = [builds EXCEPT ![b] =
                  [@ EXCEPT !.state = "running", !.attempt_count = n, !.current_attempt = n,
                            !.current_fence = f, !.lease = LeaseTicks]]
  /\ txn' = [txn EXCEPT ![b] = NoTxn]
  /\ Touch(b)
  /\ UNCHANGED <<effects, receipts, usage, debits, admitted>>

-----------------------------------------------------------------------------
(* lock_live_attempt. *)

Holds(b, n) ==
  /\ builds[b].state = "running"
  /\ builds[b].current_attempt = n
  /\ builds[b].current_fence = attempts[b][n].fence
  /\ attempts[b][n].state = "running"
Live(b, n) == Holds(b, n) /\ builds[b].lease > 0

\* complete answers a recorded completion from its receipt before it locks.
Answered(b, r) == r.op = "complete" /\ receipts[b][r.attempt] /= NoOutcome

Lock(b, r) ==
  /\ b \in Served
  /\ Unlocked(b)
  /\ Live(b, r.attempt)
  /\ ~ Answered(b, r)
  /\ txn' = [txn EXCEPT ![b] = r]
  /\ UNCHANGED <<builds, attempts, effects, receipts, usage, debits, waiting, admitted>>

\* The test passed, the row is locked by another transaction.
Join(b, r) ==
  /\ b \in Served
  /\ ~ Unlocked(b)
  /\ waiting[b] = NotWaiting
  /\ Live(b, r.attempt)
  /\ ~ Answered(b, r)
  /\ waiting' = [waiting EXCEPT ![b] = [req |-> r, recheck |-> FALSE]]
  /\ UNCHANGED <<builds, attempts, effects, receipts, usage, debits, txn, admitted>>

\* The lock is granted; a row that changed meanwhile is tested again.
WakeTest(b) == waiting[b].recheck => Live(b, waiting[b].req.attempt)

Wake(b) ==
  /\ Unlocked(b)
  /\ waiting[b] /= NotWaiting
  /\ txn' = [txn EXCEPT ![b] = IF WakeTest(b) THEN waiting[b].req ELSE NoTxn]
  /\ waiting' = [waiting EXCEPT ![b] = NotWaiting]
  /\ UNCHANGED <<builds, attempts, effects, receipts, usage, debits, admitted>>

Release(b) == txn' = [txn EXCEPT ![b] = NoTxn]

\* An error return, a lost connection or a dead process.
Rollback(b) ==
  /\ txn[b] /= NoTxn
  /\ Release(b)
  /\ UNCHANGED <<builds, attempts, effects, receipts, usage, debits, waiting, admitted>>

-----------------------------------------------------------------------------
(* What the live requests do under the lock. *)

RenewCommit(b) ==
  /\ txn[b].op = "renew"
  /\ builds' = [builds EXCEPT ![b].lease = LeaseTicks]
  /\ Release(b)
  /\ Touch(b)
  /\ UNCHANGED <<attempts, effects, receipts, usage, debits, admitted>>

MaterializeCommit(b) ==
  /\ txn[b].op = "materialize"
  /\ ~ builds[b].materialized
  /\ builds' = [builds EXCEPT ![b].materialized = TRUE]
  /\ Release(b)
  /\ Touch(b)
  /\ UNCHANGED <<attempts, effects, receipts, usage, debits, admitted>>

\* A materialized source is only verified: the transaction commits no write.
MaterializeAgain(b) ==
  /\ txn[b].op = "materialize"
  /\ builds[b].materialized
  /\ Release(b)
  /\ UNCHANGED <<builds, attempts, effects, receipts, usage, debits, waiting, admitted>>

\* handoff_source_rejection
MaterializeReject(b) ==
  /\ txn[b].op = "materialize"
  /\ ~ builds[b].materialized
  /\ builds' = [builds EXCEPT ![b].lease = HandoffTicks]
  /\ Release(b)
  /\ Touch(b)
  /\ UNCHANGED <<attempts, effects, receipts, usage, debits, admitted>>

CredentialsCommit(b) ==
  /\ txn[b].op = "credentials"
  /\ attempts' = [attempts EXCEPT ![b][txn[b].attempt].launched = TRUE]
  /\ Release(b)
  /\ Touch(b)
  /\ UNCHANGED <<builds, effects, receipts, usage, debits, admitted>>

\* Without a source only a zero-second rejection or a retry is taken.
CompleteAllowed(b, c) ==
  builds[b].materialized \/ c.state = "retriable" \/ (c.rejected /\ c.elapsed = 0)

\* A retriable completion keeps the reservation and decides nothing.
EffectDue(c) == c.state /= "retriable"

RecordedConfirmed(c) == "confirmed"
Recorded(c) == c.cleanup

CompleteCommit(b) ==
  LET n == txn[b].attempt
      c == txn[b].outcome IN
  /\ txn[b].op = "complete"
  /\ CompleteAllowed(b, c)
  /\ Debit(b, n, c.elapsed)
  /\ IF c.state /= "retriable" THEN Settle(b, "finalized", c.elapsed) ELSE UNCHANGED usage
  /\ CloseAttempt(b, n, c.state)
  /\ builds' = [builds EXCEPT ![b] =
                  [@ EXCEPT !.state = c.state, !.current_attempt = NoAttempt,
                            !.lease = NoLease, !.cleanup = Recorded(c)]]
  /\ receipts' = [receipts EXCEPT ![b][n] = c]
  /\ effects' = [effects EXCEPT ![b] =
                   IF EffectDue(c)
                   THEN [state |-> c.state, attempt |-> n, fence |-> attempts[b][n].fence]
                   ELSE @]
  /\ Release(b)
  /\ Touch(b)
  /\ UNCHANGED admitted

\* The worker of a canceled attempt confirms its cleanup and its seconds.
CancelAck(b, n, seconds) ==
  /\ b \in Served
  /\ Unlocked(b)
  /\ receipts[b][n] = NoOutcome
  /\ builds[b].state = "canceled"
  /\ builds[b].cleanup = "pending"
  /\ attempts[b][n].state = "canceled"
  /\ Debit(b, n, seconds)
  /\ Settle(b, "finalized", seconds)
  /\ builds' = [builds EXCEPT ![b].cleanup = "confirmed"]
  /\ receipts' = [receipts EXCEPT ![b][n] = Acknowledged(seconds)]
  /\ Touch(b)
  /\ UNCHANGED <<attempts, effects, txn, admitted>>

-----------------------------------------------------------------------------
(* The reaper, and what happens around the control plane. *)

\* launched.is_some() || attempt_count >= 3
ReapTerminalByCount(b, n) == builds[b].attempt_count >= MaxAttempts
ReapTerminal(b, n) == attempts[b][n].launched \/ builds[b].attempt_count >= MaxAttempts

\* At least one second once launched, and never more than was reserved.
ReapSecondsAlways(b, n) == 1..Reserved
ReapSeconds(b, n) == IF attempts[b][n].launched THEN 1..Reserved ELSE {0}

\* No evidence of the cleanup of a launched attempt is left.
ReapCleanupForgotten(b, n) == builds[b].cleanup
ReapCleanup(b, n) == IF attempts[b][n].launched THEN "pending" ELSE builds[b].cleanup

ExpiredUnlessLast(b) ==
  builds[b].state = "running" /\ builds[b].lease = 0 /\ builds[b].attempt_count < MaxAttempts
Expired(b) == builds[b].state = "running" /\ builds[b].lease = 0

Reap(b, seconds) ==
  LET n == builds[b].current_attempt
      s == IF ReapTerminal(b, n) THEN "failed" ELSE "retriable" IN
  /\ Unlocked(b)
  /\ Expired(b)
  /\ seconds \in ReapSeconds(b, n)
  /\ CloseAttempt(b, n, s)
  /\ builds' = [builds EXCEPT ![b] =
                  [@ EXCEPT !.state = s, !.current_attempt = NoAttempt, !.lease = NoLease,
                            !.cleanup = ReapCleanup(b, n)]]
  /\ IF ReapTerminal(b, n)
     THEN /\ Debit(b, n, seconds)
          /\ Settle(b, "finalized", seconds)
          /\ effects' = [effects EXCEPT ![b] =
                           IF @ = NoEffect
                           THEN [state |-> "failed", attempt |-> n,
                                 fence |-> builds[b].current_fence]
                           ELSE @]
     ELSE UNCHANGED <<debits, usage, effects>>
  /\ Touch(b)
  /\ UNCHANGED <<receipts, txn, admitted>>

Tick ==
  /\ \E b \in Build : builds[b].lease > 0
  /\ builds' = [b \in Build |->
                  [builds[b] EXCEPT !.lease = IF @ > 0 THEN @ - 1 ELSE @]]
  /\ UNCHANGED <<attempts, effects, receipts, usage, debits, txn, waiting, admitted>>

\* The reservation is released, the entitlement ends or the proof is revoked.
Revoke(b) ==
  /\ b \in Served
  /\ b \in admitted
  /\ builds[b].state \in Open
  /\ admitted' = admitted \ {b}
  /\ UNCHANGED <<builds, attempts, effects, receipts, usage, debits, txn, waiting>>

Next ==
  \/ \E b \in Build :
       \/ Enqueue(b) \/ Cancel(b)
       \/ LeaseClaim(b) \/ LeaseYield(b) \/ LeaseStale(b) \/ LeaseGrant(b)
       \/ \E r \in Request : Lock(b, r) \/ Join(b, r)
       \/ Wake(b) \/ Rollback(b)
       \/ RenewCommit(b) \/ CredentialsCommit(b) \/ CompleteCommit(b)
       \/ MaterializeCommit(b) \/ MaterializeAgain(b) \/ MaterializeReject(b)
       \/ \E n \in AttemptNo, s \in 0..Reserved : CancelAck(b, n, s)
       \/ \E s \in 0..Reserved : Reap(b, s)
       \/ Revoke(b)
  \/ Tick

Spec == Init /\ [][Next]_vars

\* The reaper task runs every second, time passes and PostgreSQL ends every
\* transaction and hands its lock on.  Nothing is assumed of workers or owners.
Fairness ==
  /\ WF_vars(Tick)
  /\ \A b \in Build :
       /\ WF_vars(\E s \in 0..Reserved : Reap(b, s))
       /\ WF_vars(Wake(b))
       /\ WF_vars(\/ LeaseYield(b) \/ LeaseStale(b) \/ LeaseGrant(b) \/ RenewCommit(b)
                  \/ MaterializeCommit(b) \/ MaterializeAgain(b) \/ MaterializeReject(b)
                  \/ CredentialsCommit(b) \/ CompleteCommit(b) \/ Rollback(b))

FairSpec == Spec /\ Fairness

-----------------------------------------------------------------------------
(* Properties. *)

TypeOK ==
  /\ builds \in [Build -> BuildRow]
  /\ attempts \in [Build -> [AttemptNo -> AttemptRow]]
  /\ effects \in [Build -> EffectRow]
  /\ receipts \in [Build -> [AttemptNo -> Receipt]]
  /\ usage \in [Build -> UsageRow]
  /\ debits \in [Build -> [AttemptNo -> 0..Reserved]]
  /\ txn \in [Build -> TxnRow]
  /\ waiting \in [Build -> WaitRow]
  /\ admitted \subseteq Build

\* Seconds stay reserved exactly while they may still be billed (until the build
\* is settled and, canceled while it ran, until cancel_ack), and close at exactly
\* what the debit events bill: at most what was reserved, through one event of
\* the last attempt.  enqueue, cancel, lease, complete, cancel_ack and
\* reap_expired each move the meter, and a late or repeated call bills nothing
\* twice.
MeterExact ==
  \A b \in Build :
    /\ usage[b].state = "reserved" <=>
         \/ builds[b].state \in Open
         \/ builds[b].state = "canceled" /\ builds[b].cleanup = "pending"
    /\ usage[b].seconds = Cardinality(Billed(b))
    /\ usage[b].seconds <= Reserved
    /\ \A n \in AttemptNo : debits[b][n] > 0 =>
         usage[b].state = "finalized" /\ n = builds[b].attempt_count

ReceiptsOf(b) ==
  \A n \in AttemptNo :
    receipts[b][n] /= NoOutcome =>
      /\ attempts[b][n].state = receipts[b][n].state
      /\ debits[b][n] = receipts[b][n].elapsed
      /\ receipts[b][n].state \in Terminal =>
           /\ builds[b].state = receipts[b][n].state
           /\ builds[b].cleanup = receipts[b][n].cleanup

EffectOf(b) ==
  /\ effects[b] /= NoEffect =>
       /\ effects[b].state = builds[b].state
       /\ effects[b].attempt = builds[b].attempt_count
       /\ effects[b].fence = builds[b].current_fence
       /\ attempts[b][effects[b].attempt].state = builds[b].state
  /\ builds[b].state \in {"succeeded", "failed"} /\ effects[b] = NoEffect =>
       builds[b].state = "failed" /\ usage[b].state = "released"

\* A receipt says what the tables say: the attempt ended as its receipt tells,
\* with the seconds its receipt tells, so a replayed completion is answered
\* truthfully at any later time.  So does the effect: it is the last attempt's,
\* under the build's fence, and is missing from a decided build only when lease
\* found the build inadmissible.
ReceiptsTellTruth == \A b \in Build : ReceiptsOf(b) /\ EffectOf(b)

\* An attempt that may have launched a machine is retried only when its own
\* worker says so: a lease lost after launch is final, billed, and keeps the
\* account's slot.
LostAfterLaunchIsFinal ==
  \A b \in Build, n \in AttemptNo :
    attempts[b][n].launched /\ receipts[b][n] = NoOutcome
      /\ attempts[b][n].state \in {"failed", "retriable"} =>
      /\ builds[b].state = "failed"
      /\ builds[b].cleanup = "pending"
      /\ debits[b][n] > 0

\* An account never has two builds that run or whose machine may still run, so
\* build_jobs_one_active_account_idx never rejects a commit: lease looks once for
\* a claim and again under the account lock, while cancel, complete and
\* reap_expired move builds without that lock.
OneActiveBuild ==
  \A b, c \in Build :
    AccountOf[b] = AccountOf[c] /\ Active(builds[b]) /\ Active(builds[c]) => b = c

\* A build whose lease ran out does not stay running: the reaper, the owner or
\* a request that already held the row moves it on.
LapsedMovesOn ==
  \A b \in Build :
    builds[b].lease = 0 ~> builds[b].lease /= 0

\* docs/M3-BUILD-CONTRACT.md: all live operations check the expiry after they
\* locked the row, so whoever gets the lock has a lease that has not run out.
LiveWhenLocked ==
  [][\A b \in Build :
       txn[b] = NoTxn /\ txn'[b].attempt /= NoAttempt => Live(b, txn'[b].attempt)]_vars
=============================================================================
