---------------------------- MODULE BuildsProofs ----------------------------
(***************************************************************************)
(* Machine-checked proofs about Builds and BuildWorker, for any builds,    *)
(* accounts, attempts, lease lengths and allowances.                       *)
(***************************************************************************)
EXTENDS BuildWorker, FiniteSetTheorems, TLAPS

-----------------------------------------------------------------------------
(* The inductive invariant of the queue. *)

\* What a build's row says about its attempts: only a running build has a
\* current attempt, its last one, and only the last attempt decides a build.
RowInv(b) ==
  /\ builds[b].current_attempt # NoAttempt <=> builds[b].state = "running"
  /\ builds[b].state = "running" => Holds(b, builds[b].attempt_count)
  /\ builds[b].state = "running" <=> builds[b].lease # NoLease
  /\ builds[b].state = "absent" => builds[b].attempt_count = 0
  /\ builds[b].state \in {"absent", "queued", "running"} => builds[b].cleanup # "pending"
  /\ effects[b] # NoEffect => effects[b].state # "none"

AttemptInv(b, n) ==
  /\ attempts[b][n].state = "absent" <=> n > builds[b].attempt_count
  /\ attempts[b][n].state = "absent" => ~ attempts[b][n].launched /\ receipts[b][n] = NoOutcome
  /\ attempts[b][n].state = "running" => builds[b].current_attempt = n
  /\ attempts[b][n].state \in Terminal =>
       n = builds[b].attempt_count /\ builds[b].state = attempts[b][n].state
  /\ receipts[b][n] # NoOutcome => receipts[b][n].state # "none"

\* The meter of a build, but for the sum over its account: seconds are reserved
\* exactly while they may still be billed, and are billed once, by the debit of
\* the last attempt.
MeterInv(b) ==
  /\ usage[b].state = "reserved" <=>
       \/ builds[b].state \in Open
       \/ builds[b].state = "canceled" /\ builds[b].cleanup = "pending"
  /\ \A n \in AttemptNo : debits[b][n] > 0 =>
       /\ usage[b].state = "finalized" /\ n = builds[b].attempt_count
       /\ usage[b].seconds = debits[b][n]
  /\ usage[b].seconds > 0 => \E n \in AttemptNo : debits[b][n] > 0

\* Whoever holds the lock found its attempt current and it still is; whoever
\* waits for it did so too, unless a commit has told it to look again.
LockInv(b) ==
  /\ txn[b].attempt # NoAttempt => Holds(b, txn[b].attempt)
  /\ txn[b] = LeaseTxn => Claimable(builds[b])
  /\ waiting[b].req = NoTxn => ~ waiting[b].recheck
  /\ waiting[b].req # NoTxn =>
       /\ attempts[b][waiting[b].req.attempt].state # "absent"
       /\ ~ waiting[b].recheck => Holds(b, waiting[b].req.attempt)

LostInv(b, n) ==
  attempts[b][n].launched /\ receipts[b][n] = NoOutcome
    /\ attempts[b][n].state \in {"failed", "retriable"} =>
    builds[b].state = "failed" /\ builds[b].cleanup = "pending" /\ debits[b][n] > 0

BuildInv(b) ==
  /\ RowInv(b) /\ MeterInv(b) /\ LockInv(b)
  /\ ReceiptsOf(b) /\ EffectOf(b)
  /\ \A n \in AttemptNo : AttemptInv(b, n) /\ LostInv(b, n)

QueueInv ==
  /\ TypeOK
  /\ \A b \in Build : BuildInv(b)
  /\ OneActiveBuild

-----------------------------------------------------------------------------
(* The rows and their types. *)

LEMMA StatesAreValues ==
  /\ \A s \in {"absent", "queued", "running", "retriable", "succeeded", "failed", "canceled"} :
       s \in BuildState
  /\ \A s \in {"absent", "running", "retriable", "succeeded", "failed", "canceled"} :
       s \in AttemptState
  /\ \A s \in {"none", "succeeded", "failed"} : s \in EffectState
  /\ \A s \in {"none", "reserved", "finalized", "released"} : s \in UsageState
  /\ \A s \in {"not_started", "confirmed", "pending"} : s \in Cleanup
BY DEF BuildState, AttemptState, EffectState, UsageState, Cleanup, Open, Terminal

LEMMA NumbersTyped ==
  /\ 0 \in 0..MaxAttempts /\ 0 \in 0..Reserved /\ MaxAttempts \in Nat /\ Reserved \in Nat
  /\ \A n \in AttemptNo : n \in 0..MaxAttempts /\ n \in Nat /\ n # NoAttempt
  /\ \A n \in 0..MaxAttempts : n \in Nat /\ (n # NoAttempt => n \in AttemptNo)
  /\ \A n \in 0..MaxAttempts : n < MaxAttempts => n + 1 \in AttemptNo
  /\ LeaseTicks \in Nat \ {0} /\ HandoffTicks \in Nat \ {0} /\ NoLease \notin Nat
  /\ LeaseTicks # NoLease /\ HandoffTicks # NoLease
BY MaxAttemptsAssumption, TicksAssumption, SecondsAssumption DEF AttemptNo, NoAttempt, NoLease

LEMMA OutcomesTyped ==
  /\ \A c \in Completion : /\ c.state \in {"succeeded", "failed", "retriable"}
                           /\ c.elapsed \in 0..Reserved /\ c.elapsed \in Nat
                           /\ c.cleanup \in {"confirmed", "pending"}
                           /\ c.state = "retriable" => c.elapsed = 0
                           /\ c # NoOutcome /\ c \in Receipt
  /\ \A s \in 0..Reserved : /\ Acknowledged(s) \in Receipt /\ Acknowledged(s) # NoOutcome
                            /\ Acknowledged(s).state = "canceled"
                            /\ Acknowledged(s).elapsed = s
                            /\ Acknowledged(s).cleanup = "confirmed"
  /\ NoOutcome.state = "none" /\ NoOutcome \in Receipt
<1>1. \A c \in Completion : /\ c.state \in {"succeeded", "failed", "retriable"}
                            /\ c.elapsed \in 0..Reserved /\ c.cleanup \in {"confirmed", "pending"}
                            /\ c.state = "retriable" => c.elapsed = 0
  BY DEF Completion, ValidCompletion
<1>2. \A c \in Completion : c # NoOutcome
  BY <1>1 DEF NoOutcome
<1>3. \A s \in 0..Reserved : /\ Acknowledged(s) # NoOutcome
                            /\ Acknowledged(s).state = "canceled"
                            /\ Acknowledged(s).elapsed = s
                            /\ Acknowledged(s).cleanup = "confirmed"
  BY DEF Acknowledged, NoOutcome
<1>4. /\ \A c \in Completion : c \in Receipt
      /\ \A s \in 0..Reserved : Acknowledged(s) \in Receipt
      /\ NoOutcome \in Receipt
  BY DEF Receipt
<1>5. \A n \in 0..Reserved : n \in Nat
  BY SecondsAssumption
<1> QED
  BY <1>1, <1>2, <1>3, <1>4, <1>5 DEF NoOutcome

LEMMA RequestsTyped ==
  /\ \A r \in Request : /\ r.attempt \in AttemptNo /\ r.attempt # NoAttempt
                        /\ r # NoTxn /\ r # LeaseTxn
                        /\ r.op \in {"renew", "materialize", "credentials", "complete"}
                        /\ r.op = "complete" => r.outcome \in Completion
  /\ NoTxn.op = "none" /\ NoTxn.attempt = NoAttempt
  /\ LeaseTxn.op = "lease" /\ LeaseTxn.attempt = NoAttempt /\ LeaseTxn # NoTxn
  /\ NoTxn \in TxnRow /\ LeaseTxn \in TxnRow /\ Request \subseteq TxnRow
  /\ NotWaiting.req = NoTxn /\ NotWaiting.recheck = FALSE /\ NotWaiting \in WaitRow
<1>1. \A r \in Request : r.attempt \in AttemptNo
  BY DEF Request
<1>2. \A r \in Request : r.op \in {"renew", "materialize", "credentials", "complete"}
  BY DEF Request
<1>3. \A r \in Request : r.op = "complete" => r.outcome \in Completion
  BY DEF Request
<1>4. \A r \in Request : r # NoTxn /\ r # LeaseTxn
  BY <1>2 DEF NoTxn, LeaseTxn
<1> QED
  BY <1>1, <1>2, <1>3, <1>4, NumbersTyped DEF NoTxn, LeaseTxn, TxnRow, NotWaiting, WaitRow

LEMMA RowsTyped ==
  ASSUME TypeOK, NEW b \in Build
  PROVE  /\ builds[b] \in BuildRow /\ effects[b] \in EffectRow /\ usage[b] \in UsageRow
         /\ txn[b] \in TxnRow /\ waiting[b] \in WaitRow
         /\ \A n \in AttemptNo : /\ attempts[b][n] \in AttemptRow /\ receipts[b][n] \in Receipt
                                 /\ debits[b][n] \in 0..Reserved /\ debits[b][n] \in Nat
<1>1. \A n \in AttemptNo : debits[b][n] \in 0..Reserved
  BY DEF TypeOK
<1> QED
  BY <1>1, SecondsAssumption DEF TypeOK

LEMMA FieldsTyped ==
  ASSUME NEW row \in BuildRow
  PROVE  /\ row.state \in BuildState /\ row.attempt_count \in 0..MaxAttempts
         /\ row.attempt_count \in Nat /\ row.current_attempt \in 0..MaxAttempts
         /\ row.current_fence \in Nat /\ row.cleanup \in Cleanup
         /\ row.lease = NoLease \/ row.lease \in Nat
         /\ row.materialized \in BOOLEAN
<1>1. /\ row.state \in BuildState /\ row.attempt_count \in 0..MaxAttempts
      /\ row.current_attempt \in 0..MaxAttempts
      /\ row.current_fence \in Nat /\ row.cleanup \in Cleanup
      /\ row.lease = NoLease \/ row.lease \in Nat
      /\ row.materialized \in BOOLEAN
  BY DEF BuildRow
<1> QED
  BY <1>1, NumbersTyped

\* The fields of an updated build row.
LEMMA RowUpdate ==
  ASSUME NEW row \in BuildRow, NEW s \in BuildState, NEW c \in 0..MaxAttempts,
         NEW a \in 0..MaxAttempts, NEW f \in Nat, NEW l \in {NoLease} \cup Nat, NEW u \in Cleanup,
         NEW m \in BOOLEAN
  PROVE  /\ [row EXCEPT !.state = s] \in BuildRow
         /\ [row EXCEPT !.lease = l] \in BuildRow
         /\ [row EXCEPT !.materialized = m] \in BuildRow
         /\ [row EXCEPT !.cleanup = u] \in BuildRow
         /\ [row EXCEPT !.state = s, !.current_attempt = a, !.lease = l, !.cleanup = u] \in BuildRow
         /\ [row EXCEPT !.state = s, !.current_attempt = a, !.current_fence = f, !.lease = l,
                        !.cleanup = u] \in BuildRow
         /\ [row EXCEPT !.state = s, !.attempt_count = c, !.current_attempt = a,
                        !.current_fence = f, !.lease = l] \in BuildRow
BY DEF BuildRow

LEMMA AttemptUpdate ==
  ASSUME NEW row \in AttemptRow, NEW s \in AttemptState
  PROVE  /\ [row EXCEPT !.state = s] \in AttemptRow
         /\ [row EXCEPT !.launched = TRUE] \in AttemptRow
         /\ \A f \in Nat : [state |-> s, fence |-> f, launched |-> FALSE] \in AttemptRow
BY DEF AttemptRow

LEMMA EffectUpdate ==
  ASSUME NEW s \in EffectState, NEW n \in 0..MaxAttempts, NEW f \in Nat
  PROVE  [state |-> s, attempt |-> n, fence |-> f] \in EffectRow
BY DEF EffectRow

LEMMA UsageUpdate ==
  ASSUME NEW s \in UsageState, NEW n \in 0..Reserved
  PROVE  [state |-> s, seconds |-> n] \in UsageRow
BY DEF UsageRow

LEMMA WaitUpdate ==
  ASSUME NEW w \in WaitRow, NEW x \in BOOLEAN, NEW r \in Request
  PROVE  /\ [w EXCEPT !.recheck = x] \in WaitRow
         /\ [w EXCEPT !.recheck = x].req = w.req /\ [w EXCEPT !.recheck = x].recheck = x
         /\ [req |-> r, recheck |-> x] \in WaitRow
         /\ w.req = NoTxn \/ w.req \in Request
BY DEF WaitRow

LEMMA InitTyped == Init => TypeOK
BY StatesAreValues, NumbersTyped, OutcomesTyped, RequestsTyped
   DEF Init, TypeOK, AbsentBuild, AbsentAttempt, NoEffect, BuildRow, AttemptRow, EffectRow, UsageRow,
       NoAttempt, NoLease

-----------------------------------------------------------------------------
(* A transaction touches one build. *)

\* The rows of the other builds.
OnlyBuild(b) ==
  \A c \in Build \ {b} :
    /\ builds'[c] = builds[c] /\ attempts'[c] = attempts[c] /\ effects'[c] = effects[c]
    /\ receipts'[c] = receipts[c] /\ usage'[c] = usage[c] /\ debits'[c] = debits[c]
    /\ txn'[c] = txn[c] /\ waiting'[c] = waiting[c]

LEMMA SameBuild ==
  ASSUME NEW c \in Build, BuildInv(c),
         builds'[c] = builds[c], attempts'[c] = attempts[c], effects'[c] = effects[c],
         receipts'[c] = receipts[c], usage'[c] = usage[c], debits'[c] = debits[c],
         txn'[c] = txn[c], waiting'[c] = waiting[c]
  PROVE  BuildInv(c)'
<1>1. RowInv(c)' /\ MeterInv(c)'
  BY DEF BuildInv, RowInv, MeterInv, Holds
<1>2. LockInv(c)'
  BY DEF BuildInv, LockInv, Holds
<1>3. ReceiptsOf(c)' /\ EffectOf(c)'
  BY DEF BuildInv, ReceiptsOf, EffectOf
<1>4. \A n \in AttemptNo : AttemptInv(c, n)' /\ LostInv(c, n)'
  BY DEF BuildInv, AttemptInv, LostInv
<1> QED BY <1>1, <1>2, <1>3, <1>4 DEF BuildInv

\* What is left to prove of a step of build b.
LEMMA OneBuildStep ==
  ASSUME QueueInv, NEW b \in Build, OnlyBuild(b), TypeOK', BuildInv(b)',
         Active(builds'[b]) => Active(builds[b]) \/ Clear(AccountOf[b])
  PROVE  QueueInv'
<1>1. \A c \in Build : BuildInv(c)'
  BY SameBuild DEF QueueInv, OnlyBuild
<1>2. OneActiveBuild'
  BY DEF QueueInv, OneActiveBuild, OnlyBuild, Clear, OfAccount
<1> QED BY <1>1, <1>2 DEF QueueInv

\* Locks change hands; no row is written.
LEMMA LockStep ==
  ASSUME QueueInv, NEW b \in Build, OnlyBuild(b), LockInv(b)',
         UNCHANGED <<builds, attempts, effects, receipts, usage, debits, admitted>>,
         txn' \in [Build -> TxnRow], waiting' \in [Build -> WaitRow]
  PROVE  QueueInv'
<1>1. TypeOK'
  BY DEF QueueInv, TypeOK
<1>2. RowInv(b)' /\ MeterInv(b)'
  BY DEF QueueInv, BuildInv, RowInv, MeterInv, Holds
<1>3. ReceiptsOf(b)' /\ EffectOf(b)'
  BY DEF QueueInv, BuildInv, ReceiptsOf, EffectOf
<1>4. \A n \in AttemptNo : AttemptInv(b, n)' /\ LostInv(b, n)'
  BY DEF QueueInv, BuildInv, AttemptInv, LostInv
<1>5. BuildInv(b)'
  BY <1>2, <1>3, <1>4 DEF BuildInv
<1> QED BY <1>1, <1>5, OneBuildStep

LEMMA ReleaseLock ==
  ASSUME QueueInv, NEW b \in Build, Release(b)
  PROVE  /\ txn' \in [Build -> TxnRow] /\ txn'[b] = NoTxn
         /\ \A c \in Build \ {b} : txn'[c] = txn[c]
BY RequestsTyped DEF QueueInv, TypeOK, Release

LEMMA HandlingLocks ==
  ASSUME QueueInv, NEW b \in Build,
         \/ LeaseClaim(b) \/ LeaseYield(b) \/ Wake(b) \/ Rollback(b) \/ MaterializeAgain(b)
         \/ \E r \in Request : Lock(b, r) \/ Join(b, r)
  PROVE  QueueInv'
<1>0. /\ txn \in [Build -> TxnRow] /\ waiting \in [Build -> WaitRow] /\ LockInv(b)
      /\ waiting[b].req = NoTxn \/ waiting[b].req \in Request
  <2>1. txn \in [Build -> TxnRow] /\ waiting \in [Build -> WaitRow] /\ LockInv(b)
    BY DEF QueueInv, TypeOK, BuildInv
  <2> QED
    BY <2>1 DEF WaitRow
<1>1. CASE LeaseClaim(b)
  <2>1. /\ txn' \in [Build -> TxnRow] /\ txn'[b] = LeaseTxn /\ Claimable(builds[b])
        /\ \A c \in Build \ {b} : txn'[c] = txn[c]
        /\ UNCHANGED <<builds, attempts, effects, receipts, usage, debits, waiting, admitted>>
    BY <1>0, <1>1, RequestsTyped DEF LeaseClaim
  <2>2. LockInv(b)'
    BY <1>0, <2>1, RequestsTyped DEF LockInv, Holds
  <2> QED
    BY <1>0, <2>1, <2>2, LockStep DEF OnlyBuild
<1>2. CASE LeaseYield(b) \/ Rollback(b) \/ MaterializeAgain(b)
  <2>1. /\ Release(b)
        /\ UNCHANGED <<builds, attempts, effects, receipts, usage, debits, waiting, admitted>>
    BY <1>2 DEF LeaseYield, Rollback, MaterializeAgain, Release
  <2>2. LockInv(b)'
    BY <1>0, <2>1, ReleaseLock, RequestsTyped DEF LockInv, Holds
  <2> QED
    BY <1>0, <2>1, <2>2, ReleaseLock, LockStep DEF OnlyBuild
<1>3. CASE Wake(b)
  <2>1. /\ txn'[b] \in TxnRow
        /\ txn'[b] = NoTxn \/ (txn'[b] = waiting[b].req /\ WakeTest(b))
    <3>1. txn'[b] = IF WakeTest(b) THEN waiting[b].req ELSE NoTxn
      BY <1>0, <1>3 DEF Wake
    <3> QED
      BY <1>0, <3>1, RequestsTyped
  <2>2. /\ \A c \in Build \ {b} : txn'[c] = txn[c] /\ waiting'[c] = waiting[c]
        /\ waiting'[b] = NotWaiting
        /\ UNCHANGED <<builds, attempts, effects, receipts, usage, debits, admitted>>
    BY <1>0, <1>3 DEF Wake
  <2>3. txn' \in [Build -> TxnRow] /\ waiting' \in [Build -> WaitRow]
    BY <1>0, <1>3, <2>1, <2>2, RequestsTyped DEF Wake
  <2>4. LockInv(b)'
    BY <1>0, <2>1, <2>2, RequestsTyped DEF LockInv, WakeTest, Live, Holds
  <2> QED
    BY <2>2, <2>3, <2>4, LockStep DEF OnlyBuild
<1>4. ASSUME NEW r \in Request, Lock(b, r) PROVE QueueInv'
  <2>1. /\ txn' \in [Build -> TxnRow] /\ txn'[b] = r /\ Holds(b, r.attempt)
        /\ \A c \in Build \ {b} : txn'[c] = txn[c]
        /\ UNCHANGED <<builds, attempts, effects, receipts, usage, debits, waiting, admitted>>
    BY <1>0, <1>4, RequestsTyped DEF Lock, Live
  <2>2. LockInv(b)'
    BY <1>0, <2>1, RequestsTyped DEF LockInv, Holds
  <2> QED
    BY <1>0, <2>1, <2>2, LockStep DEF OnlyBuild
<1>5. ASSUME NEW r \in Request, Join(b, r) PROVE QueueInv'
  <2>1. /\ waiting' \in [Build -> WaitRow] /\ waiting'[b] = [req |-> r, recheck |-> FALSE]
        /\ Holds(b, r.attempt)
        /\ \A c \in Build \ {b} : waiting'[c] = waiting[c]
        /\ UNCHANGED <<builds, attempts, effects, receipts, usage, debits, txn, admitted>>
    BY <1>0, <1>5, WaitUpdate DEF Join, Live
  <2>2. LockInv(b)'
    BY <1>0, <2>1, RequestsTyped DEF LockInv, Holds
  <2> QED
    BY <1>0, <2>1, <2>2, LockStep DEF OnlyBuild
<1> QED BY <1>1, <1>2, <1>3, <1>4, <1>5

\* A committed write: whoever waits looks again.
LEMMA TouchEffect ==
  ASSUME QueueInv, NEW b \in Build, Touch(b)
  PROVE  /\ waiting' \in [Build -> WaitRow]
         /\ \A c \in Build \ {b} : waiting'[c] = waiting[c]
         /\ waiting'[b].req = waiting[b].req
         /\ waiting'[b].recheck <=> waiting[b].req # NoTxn
<1>1. waiting \in [Build -> WaitRow] /\ waiting[b] \in WaitRow
  BY DEF QueueInv, TypeOK
<1> DEFINE x == waiting[b].req # NoTxn
           row == [waiting[b] EXCEPT !.recheck = x]
<1>2. row \in WaitRow /\ row.req = waiting[b].req /\ row.recheck = x
  <2>1. x \in BOOLEAN
    OBVIOUS
  <2> HIDE DEF x
  <2> QED
    BY <1>1, <2>1 DEF WaitRow
<1>3. waiting' = [waiting EXCEPT ![b] = row]
  BY <1>1 DEF Touch
<1> HIDE DEF row
<1>4. /\ waiting' \in [Build -> WaitRow] /\ waiting'[b] = row
      /\ \A c \in Build \ {b} : waiting'[c] = waiting[c]
  BY <1>1, <1>2, <1>3
<1> QED
  BY <1>2, <1>4

LEMMA CommittedLock ==
  ASSUME QueueInv, NEW b \in Build, txn'[b] = NoTxn, Touch(b),
         \A n \in AttemptNo : attempts[b][n].state # "absent" => attempts'[b][n].state # "absent"
  PROVE  LockInv(b)'
<1>1. waiting[b].req = NoTxn \/ waiting[b].req.attempt \in AttemptNo
  BY RowsTyped, RequestsTyped DEF QueueInv, WaitRow
<1> QED
  BY <1>1, TouchEffect, RequestsTyped DEF QueueInv, BuildInv, LockInv

\* A renewal, a hand-off or a materialized source: the row keeps its state.
LEMMA KeepsState ==
  ASSUME QueueInv, NEW b \in Build, NEW row \in BuildRow, builds' = [builds EXCEPT ![b] = row],
         row.state = builds[b].state, row.attempt_count = builds[b].attempt_count,
         row.current_attempt = builds[b].current_attempt,
         row.current_fence = builds[b].current_fence, row.cleanup = builds[b].cleanup,
         row.lease = NoLease <=> builds[b].lease = NoLease, Release(b), Touch(b),
         UNCHANGED <<attempts, effects, receipts, usage, debits, admitted>>
  PROVE  QueueInv'
<1>1. builds' \in [Build -> BuildRow] /\ builds'[b] = row
      /\ \A c \in Build \ {b} : builds'[c] = builds[c]
  BY DEF QueueInv, TypeOK
<1>2. TypeOK'
  BY <1>1, ReleaseLock, TouchEffect DEF QueueInv, TypeOK
<1>3. OnlyBuild(b)
  BY <1>1, ReleaseLock, TouchEffect DEF OnlyBuild
<1>4. RowInv(b)' /\ MeterInv(b)'
  BY <1>1 DEF QueueInv, BuildInv, RowInv, MeterInv, Holds
<1>5. LockInv(b)'
  BY ReleaseLock, CommittedLock
<1>6. ReceiptsOf(b)' /\ EffectOf(b)'
  BY <1>1 DEF QueueInv, BuildInv, ReceiptsOf, EffectOf
<1>7. \A n \in AttemptNo : AttemptInv(b, n)' /\ LostInv(b, n)'
  BY <1>1 DEF QueueInv, BuildInv, AttemptInv, LostInv
<1>8. BuildInv(b)'
  BY <1>4, <1>5, <1>6, <1>7 DEF BuildInv
<1> QED
  BY <1>1, <1>2, <1>3, <1>8, OneBuildStep DEF Active

\* Whoever holds the lock for a live request is on the running attempt.
LEMMA HolderRuns ==
  ASSUME QueueInv, NEW b \in Build,
         txn[b].op \in {"renew", "materialize", "credentials", "complete"}
  PROVE  /\ txn[b] \in Request /\ Holds(b, txn[b].attempt)
         /\ txn[b].attempt \in AttemptNo /\ txn[b].attempt = builds[b].attempt_count
         /\ builds[b].lease # NoLease
<1>1. txn[b] \in Request
  BY RowsTyped, RequestsTyped DEF QueueInv, TxnRow
<1>2. Holds(b, txn[b].attempt)
  BY <1>1, RequestsTyped DEF QueueInv, BuildInv, LockInv
<1> QED
  BY <1>1, <1>2, RequestsTyped DEF QueueInv, BuildInv, RowInv, Holds

LEMMA Renewing ==
  ASSUME QueueInv, NEW b \in Build,
         RenewCommit(b) \/ MaterializeCommit(b) \/ MaterializeReject(b)
  PROVE  QueueInv'
<1>0. builds[b] \in BuildRow /\ builds[b].lease # NoLease
  BY RowsTyped, HolderRuns DEF QueueInv, RenewCommit, MaterializeCommit, MaterializeReject
<1>1. CASE RenewCommit(b) \/ MaterializeReject(b)
  <2>1. PICK l \in Nat : /\ builds' = [builds EXCEPT ![b] = [@ EXCEPT !.lease = l]] /\ l # NoLease
                         /\ Release(b) /\ Touch(b)
                         /\ UNCHANGED <<attempts, effects, receipts, usage, debits, admitted>>
    BY <1>1, NumbersTyped DEF RenewCommit, MaterializeReject
  <2> DEFINE row == [builds[b] EXCEPT !.lease = l]
  <2>2. /\ row \in BuildRow /\ row.state = builds[b].state
        /\ row.attempt_count = builds[b].attempt_count
        /\ row.current_attempt = builds[b].current_attempt
        /\ row.current_fence = builds[b].current_fence /\ row.cleanup = builds[b].cleanup
        /\ row.lease = l
    BY <1>0 DEF BuildRow
  <2>3. builds' = [builds EXCEPT ![b] = row]
    BY <2>1 DEF QueueInv, TypeOK
  <2> HIDE DEF row
  <2> QED
    BY <1>0, <2>1, <2>2, <2>3, KeepsState
<1>2. CASE MaterializeCommit(b)
  <2> DEFINE row == [builds[b] EXCEPT !.materialized = TRUE]
  <2>2. /\ row \in BuildRow /\ row.state = builds[b].state
        /\ row.attempt_count = builds[b].attempt_count
        /\ row.current_attempt = builds[b].current_attempt
        /\ row.current_fence = builds[b].current_fence /\ row.cleanup = builds[b].cleanup
        /\ row.lease = builds[b].lease
    BY <1>0 DEF BuildRow
  <2>3. builds' = [builds EXCEPT ![b] = row]
    BY <1>2 DEF QueueInv, TypeOK, MaterializeCommit
  <2> HIDE DEF row
  <2> QED
    BY <1>0, <1>2, <2>2, <2>3, KeepsState DEF MaterializeCommit
<1> QED BY <1>1, <1>2

-----------------------------------------------------------------------------
(* What closing an attempt, settling the meter and debiting do. *)

LEMMA CloseEffect ==
  ASSUME QueueInv, NEW b \in Build, NEW n \in AttemptNo, NEW s \in AttemptState,
         attempts[b][n].state = "running", CloseAttempt(b, n, s)
  PROVE  /\ attempts' \in [Build -> [AttemptNo -> AttemptRow]]
         /\ \A c \in Build \ {b} : attempts'[c] = attempts[c]
         /\ \A m \in AttemptNo \ {n} : attempts'[b][m] = attempts[b][m]
         /\ attempts'[b][n].state = s /\ attempts'[b][n].fence = attempts[b][n].fence
         /\ attempts'[b][n].launched = attempts[b][n].launched
<1>1. attempts \in [Build -> [AttemptNo -> AttemptRow]] /\ attempts[b][n] \in AttemptRow
  BY DEF QueueInv, TypeOK
<1> DEFINE row == [attempts[b][n] EXCEPT !.state = s]
<1>2. /\ row \in AttemptRow /\ row.state = s /\ row.fence = attempts[b][n].fence
      /\ row.launched = attempts[b][n].launched
  BY <1>1 DEF AttemptRow
<1>3. attempts' = [attempts EXCEPT ![b][n] = row]
  BY <1>1 DEF CloseAttempt
<1> HIDE DEF row
<1> QED
  BY <1>1, <1>2, <1>3

LEMMA SettleEffect ==
  ASSUME QueueInv, NEW b \in Build, NEW s \in UsageState, NEW seconds \in 0..Reserved,
         usage[b].state = "reserved", Settle(b, s, seconds)
  PROVE  /\ usage' \in [Build -> UsageRow] /\ \A c \in Build \ {b} : usage'[c] = usage[c]
         /\ usage'[b].state = s /\ usage'[b].seconds = seconds
<1>1. usage \in [Build -> UsageRow]
  BY DEF QueueInv, TypeOK
<1>2. usage' = [usage EXCEPT ![b] = [state |-> s, seconds |-> seconds]]
  BY DEF Settle
<1> QED
  BY <1>1, <1>2, UsageUpdate

LEMMA DebitEffect ==
  ASSUME QueueInv, NEW b \in Build, NEW n \in AttemptNo, NEW seconds \in 0..Reserved,
         debits[b][n] = 0, Debit(b, n, seconds)
  PROVE  /\ debits' \in [Build -> [AttemptNo -> 0..Reserved]]
         /\ \A c \in Build \ {b} : debits'[c] = debits[c]
         /\ \A m \in AttemptNo \ {n} : debits'[b][m] = debits[b][m]
         /\ debits'[b][n] = seconds
<1>1. debits \in [Build -> [AttemptNo -> 0..Reserved]]
  BY DEF QueueInv, TypeOK
<1>2. debits[b][n] + seconds = seconds
  BY SecondsAssumption
<1>3. debits' = [debits EXCEPT ![b][n] = seconds]
  BY <1>1, <1>2 DEF Debit
<1> QED
  BY <1>1, <1>3

\* While seconds are reserved nothing was billed.
LEMMA NotBilledYet ==
  ASSUME QueueInv, NEW b \in Build, usage[b].state = "reserved"
  PROVE  usage[b].seconds = 0 /\ \A n \in AttemptNo : debits[b][n] = 0
<1>1. \A n \in AttemptNo : debits[b][n] = 0
  BY RowsTyped DEF QueueInv, BuildInv, MeterInv
<1>2. usage[b].seconds \in Nat
  BY RowsTyped, SecondsAssumption DEF QueueInv, UsageRow
<1> QED
  BY <1>1, <1>2 DEF QueueInv, BuildInv, MeterInv

\* An open build has no effect, and no attempt of it decided anything.
LEMMA OpenUndecided ==
  ASSUME QueueInv, NEW b \in Build, builds[b].state \in Open
  PROVE  /\ effects[b] = NoEffect /\ usage[b].state = "reserved"
         /\ \A n \in AttemptNo : /\ attempts[b][n].state \notin Terminal
                                 /\ receipts[b][n].state \notin Terminal
                                 /\ attempts[b][n].launched /\ receipts[b][n] = NoOutcome
                                      => attempts[b][n].state # "retriable"
<1>1. BuildInv(b) /\ effects[b].state \in EffectState
  BY RowsTyped DEF QueueInv, EffectRow
<1>2. builds[b].state \notin Terminal /\ builds[b].state # "none"
  BY DEF Open, Terminal
<1>3. effects[b] = NoEffect
  BY <1>1, <1>2 DEF BuildInv, EffectOf, RowInv, EffectState, Terminal
<1>4. \A n \in AttemptNo : attempts[b][n].state \notin Terminal
  BY <1>1, <1>2 DEF BuildInv, AttemptInv
<1>5. \A n \in AttemptNo : receipts[b][n].state \notin Terminal
  BY <1>1, <1>2, OutcomesTyped DEF BuildInv, ReceiptsOf, Terminal
<1>6. \A n \in AttemptNo : attempts[b][n].launched /\ receipts[b][n] = NoOutcome
                              => attempts[b][n].state # "retriable"
  BY <1>1, <1>2 DEF BuildInv, LostInv, Terminal
<1> QED
  BY <1>1, <1>3, <1>4, <1>5, <1>6 DEF BuildInv, MeterInv

-----------------------------------------------------------------------------
(* The transactions that write rows. *)

LEMMA Enqueuing ==
  ASSUME QueueInv, NEW b \in Build, Enqueue(b)
  PROVE  QueueInv'
<1>0. BuildInv(b) /\ builds[b] \in BuildRow
  BY RowsTyped DEF QueueInv
<1> DEFINE row == [builds[b] EXCEPT !.state = "queued"]
<1>1. /\ row \in BuildRow /\ row.state = "queued"
      /\ row.attempt_count = builds[b].attempt_count
      /\ row.current_attempt = builds[b].current_attempt
      /\ row.current_fence = builds[b].current_fence /\ row.cleanup = builds[b].cleanup
      /\ row.lease = builds[b].lease
  BY <1>0, StatesAreValues DEF BuildRow
<1>2. builds' = [builds EXCEPT ![b] = row]
  BY DEF QueueInv, TypeOK, Enqueue
<1> HIDE DEF row
<1>3. /\ builds' \in [Build -> BuildRow] /\ builds'[b] = row
      /\ \A c \in Build \ {b} : builds'[c] = builds[c]
  BY <1>1, <1>2 DEF QueueInv, TypeOK
<1>4. /\ usage' \in [Build -> UsageRow] /\ usage'[b].state = "reserved" /\ usage'[b].seconds = 0
      /\ \A c \in Build \ {b} : usage'[c] = usage[c]
  BY UsageUpdate, StatesAreValues, NumbersTyped DEF QueueInv, TypeOK, Enqueue
<1>5. /\ UNCHANGED <<attempts, effects, receipts, debits, txn, waiting, admitted>>
      /\ builds[b].state = "absent"
  BY DEF Enqueue
<1>6. TypeOK' /\ OnlyBuild(b)
  BY <1>3, <1>4, <1>5 DEF QueueInv, TypeOK, OnlyBuild
<1>7. /\ effects[b] = NoEffect /\ builds[b].attempt_count = 0
      /\ \A n \in AttemptNo : debits[b][n] = 0 /\ attempts[b][n].state = "absent"
                              /\ receipts[b][n] = NoOutcome
  <2>1. effects[b] = NoEffect /\ builds[b].attempt_count = 0
    BY <1>0, <1>5, RowsTyped DEF BuildInv, RowInv, EffectOf, EffectRow, EffectState, QueueInv
  <2>2. \A n \in AttemptNo : debits[b][n] = 0
    BY <1>0, <2>1, RowsTyped, NumbersTyped DEF BuildInv, MeterInv, QueueInv, NoAttempt
  <2>3. \A n \in AttemptNo : attempts[b][n].state = "absent" /\ receipts[b][n] = NoOutcome
    BY <1>0, <2>1, NumbersTyped DEF BuildInv, AttemptInv, AttemptNo
  <2> QED BY <2>1, <2>2, <2>3
<1>8. RowInv(b)' /\ LockInv(b)'
  BY <1>0, <1>1, <1>3, <1>5 DEF BuildInv, RowInv, LockInv, Holds, Claimable
<1>9. MeterInv(b)' /\ ReceiptsOf(b)' /\ EffectOf(b)'
  BY <1>1, <1>3, <1>4, <1>5, <1>7 DEF MeterInv, ReceiptsOf, EffectOf, Open
<1>10. \A n \in AttemptNo : AttemptInv(b, n)' /\ LostInv(b, n)'
  BY <1>0, <1>1, <1>3, <1>5, <1>7 DEF BuildInv, AttemptInv, LostInv, Terminal
<1>11. BuildInv(b)'
  BY <1>8, <1>9, <1>10 DEF BuildInv
<1>12. ~ Active(builds'[b])
  BY <1>0, <1>1, <1>3, <1>5 DEF Active, BuildInv, RowInv
<1> QED
  BY <1>6, <1>11, <1>12, OneBuildStep

\* The updated row of a build: what the proofs below use of it.
RowIs(b, s, count, current, fence, lease, cleanup) ==
  /\ builds' \in [Build -> BuildRow] /\ \A c \in Build \ {b} : builds'[c] = builds[c]
  /\ builds'[b].state = s /\ builds'[b].attempt_count = count
  /\ builds'[b].current_attempt = current /\ builds'[b].current_fence = fence
  /\ builds'[b].lease = lease /\ builds'[b].cleanup = cleanup

LEMMA RowIsIntro ==
  ASSUME QueueInv, NEW b \in Build, NEW row \in BuildRow, builds' = [builds EXCEPT ![b] = row]
  PROVE  RowIs(b, row.state, row.attempt_count, row.current_attempt, row.current_fence,
               row.lease, row.cleanup)
BY DEF QueueInv, TypeOK, RowIs

LEMMA Canceling ==
  ASSUME QueueInv, NEW b \in Build, Cancel(b)
  PROVE  QueueInv'
<1>0. BuildInv(b) /\ builds[b] \in BuildRow /\ builds[b].state \in Open /\ txn[b] = NoTxn
  BY RowsTyped DEF QueueInv, Cancel, Cancelable, Unlocked
<1> DEFINE n == builds[b].current_attempt
           u == IF n # NoAttempt THEN "pending" ELSE "not_started"
           f == builds[b].current_fence + 1
           row == [builds[b] EXCEPT !.state = "canceled", !.current_attempt = NoAttempt,
                                    !.current_fence = f, !.lease = NoLease, !.cleanup = u]
<1>1. f \in Nat /\ u \in Cleanup /\ n \in 0..MaxAttempts
  BY <1>0, FieldsTyped, StatesAreValues
<1>2. builds' = [builds EXCEPT ![b] = row]
  BY DEF Cancel
<1>3. RowIs(b, "canceled", builds[b].attempt_count, NoAttempt, f, NoLease, u)
  <2> HIDE DEF f, u
  <2>1. /\ row \in BuildRow /\ row.state = "canceled" /\ row.attempt_count = builds[b].attempt_count
        /\ row.current_attempt = NoAttempt /\ row.current_fence = f /\ row.lease = NoLease
        /\ row.cleanup = u
    BY <1>0, <1>1, StatesAreValues, NumbersTyped DEF BuildRow, NoAttempt
  <2> HIDE DEF row
  <2> QED
    BY <1>2, <2>1 DEF RowIs, QueueInv, TypeOK
<1>4. UNCHANGED <<effects, receipts, debits, txn, admitted>> /\ Touch(b)
  BY DEF Cancel
<1>5. LET a == builds[b].attempt_count IN
        \/ /\ builds[b].state = "running" /\ u = "pending" /\ a \in AttemptNo /\ n = a
           /\ attempts[b][a].state = "running" /\ CloseAttempt(b, a, "canceled") /\ UNCHANGED usage
        \/ /\ builds[b].state # "running" /\ u = "not_started"
           /\ UNCHANGED attempts /\ Settle(b, "released", 0)
  <2>1. n # NoAttempt <=> builds[b].state = "running"
    BY <1>0 DEF BuildInv, RowInv
  <2>2. CASE n # NoAttempt
    <3>1. n = builds[b].attempt_count /\ attempts[b][n].state = "running" /\ n \in AttemptNo
      BY <1>0, <1>1, <2>1, <2>2, NumbersTyped DEF BuildInv, RowInv, Holds
    <3> QED
      BY <2>1, <2>2, <3>1 DEF Cancel, CancelSettles
  <2>3. CASE n = NoAttempt
    BY <2>1, <2>3 DEF Cancel, CancelSettles
  <2> QED BY <2>2, <2>3
<1> HIDE DEF n, u, f, row
<1>6. /\ attempts' \in [Build -> [AttemptNo -> AttemptRow]]
      /\ \A c \in Build \ {b} : attempts'[c] = attempts[c]
      /\ \A m \in AttemptNo : /\ attempts'[b][m].launched = attempts[b][m].launched
                              /\ \/ attempts'[b][m].state = attempts[b][m].state
                                    /\ attempts[b][m].state # "running"
                                 \/ attempts'[b][m].state = "canceled"
                                    /\ attempts[b][m].state = "running"
                                    /\ m = builds[b].attempt_count
  <2>1. CASE builds[b].state = "running"
    <3>1. /\ builds[b].attempt_count \in AttemptNo
          /\ attempts[b][builds[b].attempt_count].state = "running"
          /\ CloseAttempt(b, builds[b].attempt_count, "canceled")
      BY <1>5, <2>1
    <3>2. \A m \in AttemptNo : attempts[b][m].state = "running" => m = builds[b].attempt_count
      BY <1>0, <2>1 DEF BuildInv, AttemptInv, RowInv, Holds
    <3> QED
      BY <3>1, <3>2, CloseEffect, StatesAreValues
  <2>2. CASE builds[b].state # "running"
    <3>1. UNCHANGED attempts
      BY <1>5, <2>2
    <3>2. \A m \in AttemptNo : attempts[b][m].state # "running"
      BY <1>0, <2>2, NumbersTyped DEF BuildInv, AttemptInv, RowInv
    <3> QED
      BY <3>1, <3>2 DEF QueueInv, TypeOK
  <2> QED BY <2>1, <2>2
<1>7. /\ usage' \in [Build -> UsageRow] /\ \A c \in Build \ {b} : usage'[c] = usage[c]
      /\ u = "pending" => usage'[b].state = "reserved"
      /\ u # "pending" => usage'[b].state = "released"
      /\ usage'[b].seconds = 0
  BY <1>0, <1>5, OpenUndecided, NotBilledYet, SettleEffect, StatesAreValues, NumbersTyped
     DEF QueueInv, TypeOK
<1>8. TypeOK' /\ OnlyBuild(b)
  BY <1>3, <1>4, <1>6, <1>7, TouchEffect DEF QueueInv, TypeOK, OnlyBuild, RowIs
<1>9. RowInv(b)'
  BY <1>0, <1>3, <1>4, OpenUndecided DEF BuildInv, RowInv, RowIs, Open
<1>10. MeterInv(b)'
  BY <1>0, <1>3, <1>4, <1>7, OpenUndecided, NotBilledYet DEF MeterInv, RowIs, Open
<1>11. LockInv(b)'
  BY <1>0, <1>4, <1>6, CommittedLock
<1>12. ReceiptsOf(b)' /\ EffectOf(b)'
  <2>1. \A m \in AttemptNo : receipts[b][m] # NoOutcome => attempts[b][m].state # "running"
    BY <1>0, RowsTyped, OutcomesTyped DEF BuildInv, ReceiptsOf, Receipt, QueueInv
  <2>2. ReceiptsOf(b)'
    BY <1>0, <1>3, <1>4, <1>6, <2>1, OpenUndecided DEF BuildInv, ReceiptsOf, RowIs
  <2>3. EffectOf(b)'
    BY <1>0, <1>3, <1>4, <1>6, OpenUndecided DEF BuildInv, EffectOf, RowIs
  <2> QED
    BY <2>2, <2>3
<1>13. \A m \in AttemptNo : AttemptInv(b, m)' /\ LostInv(b, m)'
  BY <1>0, <1>3, <1>4, <1>6, OpenUndecided DEF BuildInv, AttemptInv, LostInv, RowIs, Terminal
<1>14. BuildInv(b)'
  BY <1>9, <1>10, <1>11, <1>12, <1>13 DEF BuildInv
<1>15. Active(builds'[b]) => Active(builds[b])
  BY <1>3, <1>5 DEF Active, RowIs
<1> QED
  BY <1>8, <1>14, <1>15, OneBuildStep

LEMMA Credentials ==
  ASSUME QueueInv, NEW b \in Build, CredentialsCommit(b)
  PROVE  QueueInv'
<1> DEFINE n == txn[b].attempt
<1>0. /\ BuildInv(b) /\ n \in AttemptNo /\ attempts[b][n].state = "running"
      /\ builds[b].state = "running"
  BY HolderRuns DEF QueueInv, CredentialsCommit, Holds
<1>1. UNCHANGED <<builds, effects, receipts, usage, debits, admitted>> /\ Touch(b) /\ Release(b)
  BY DEF CredentialsCommit
<1>2. /\ attempts' \in [Build -> [AttemptNo -> AttemptRow]]
      /\ \A c \in Build \ {b} : attempts'[c] = attempts[c]
      /\ \A m \in AttemptNo : /\ attempts'[b][m].state = attempts[b][m].state
                              /\ attempts'[b][m].fence = attempts[b][m].fence
                              /\ m # n => attempts'[b][m] = attempts[b][m]
  <2>1. attempts \in [Build -> [AttemptNo -> AttemptRow]] /\ attempts[b][n] \in AttemptRow
    BY <1>0 DEF QueueInv, TypeOK
  <2> DEFINE row == [attempts[b][n] EXCEPT !.launched = TRUE]
  <2>2. /\ row \in AttemptRow /\ row.state = attempts[b][n].state
        /\ row.fence = attempts[b][n].fence
    BY <2>1 DEF AttemptRow
  <2>3. attempts' = [attempts EXCEPT ![b][n] = row]
    BY <2>1 DEF CredentialsCommit
  <2> HIDE DEF row, n
  <2> QED
    BY <1>0, <2>1, <2>2, <2>3
<1> HIDE DEF n
<1>3. TypeOK' /\ OnlyBuild(b)
  BY <1>1, <1>2, TouchEffect, ReleaseLock DEF QueueInv, TypeOK, OnlyBuild
<1>4. RowInv(b)' /\ MeterInv(b)'
  <2>1. builds[b].attempt_count \in AttemptNo
    BY <1>0, RowsTyped, FieldsTyped, NumbersTyped DEF QueueInv, BuildInv, RowInv, Holds
  <2> QED
    BY <1>0, <1>1, <1>2, <2>1 DEF BuildInv, RowInv, MeterInv, Holds
<1>5. LockInv(b)'
  BY <1>1, <1>2, ReleaseLock, CommittedLock
<1>6. ReceiptsOf(b)' /\ EffectOf(b)'
  BY <1>0, <1>1, <1>2, OpenUndecided DEF BuildInv, ReceiptsOf, EffectOf, Open
<1>7. \A m \in AttemptNo : AttemptInv(b, m)' /\ LostInv(b, m)'
  BY <1>0, <1>1, <1>2 DEF BuildInv, AttemptInv, LostInv
<1>8. BuildInv(b)'
  BY <1>4, <1>5, <1>6, <1>7 DEF BuildInv
<1> QED
  BY <1>1, <1>3, <1>8, OneBuildStep

LEMMA StaleLease ==
  ASSUME QueueInv, NEW b \in Build, LeaseStale(b)
  PROVE  QueueInv'
<1>0. /\ BuildInv(b) /\ builds[b] \in BuildRow /\ builds[b].state \in {"queued", "retriable"}
      /\ builds[b].state \in Open /\ builds[b].cleanup # "pending"
  BY RowsTyped
     DEF QueueInv, LeaseStale, BuildInv, LockInv, Claimable, StillClear, Clear, OfAccount, Active, Open
<1>1. RowIs(b, "failed", builds[b].attempt_count, builds[b].current_attempt,
            builds[b].current_fence, builds[b].lease, builds[b].cleanup)
  <2> DEFINE row == [builds[b] EXCEPT !.state = "failed"]
  <2>1. /\ row \in BuildRow /\ row.state = "failed" /\ row.attempt_count = builds[b].attempt_count
        /\ row.current_attempt = builds[b].current_attempt /\ row.lease = builds[b].lease
        /\ row.current_fence = builds[b].current_fence /\ row.cleanup = builds[b].cleanup
    BY <1>0, StatesAreValues DEF BuildRow
  <2>2. builds' = [builds EXCEPT ![b] = row]
    BY DEF LeaseStale
  <2> HIDE DEF row
  <2> QED
    BY <2>1, <2>2 DEF RowIs, QueueInv, TypeOK
<1>2. /\ UNCHANGED <<attempts, effects, receipts, debits, admitted>> /\ Touch(b) /\ Release(b)
      /\ Settle(b, "released", 0)
  BY DEF LeaseStale, Release
<1>3. /\ usage' \in [Build -> UsageRow] /\ \A c \in Build \ {b} : usage'[c] = usage[c]
      /\ usage'[b].state = "released" /\ usage'[b].seconds = 0
  BY <1>0, <1>2, OpenUndecided, SettleEffect, StatesAreValues, NumbersTyped
<1>4. TypeOK' /\ OnlyBuild(b)
  BY <1>1, <1>2, <1>3, TouchEffect, ReleaseLock DEF QueueInv, TypeOK, OnlyBuild, RowIs
<1>5. RowInv(b)' /\ MeterInv(b)'
  BY <1>0, <1>1, <1>2, <1>3, OpenUndecided, NotBilledYet
     DEF BuildInv, RowInv, MeterInv, RowIs, Open
<1>6. LockInv(b)'
  BY <1>2, ReleaseLock, CommittedLock
<1>7. ReceiptsOf(b)' /\ EffectOf(b)'
  BY <1>0, <1>1, <1>2, <1>3, OpenUndecided DEF BuildInv, ReceiptsOf, EffectOf, RowIs
<1>8. \A m \in AttemptNo : AttemptInv(b, m)' /\ LostInv(b, m)'
  BY <1>0, <1>1, <1>2, OpenUndecided DEF BuildInv, AttemptInv, LostInv, RowIs, Terminal
<1>9. BuildInv(b)'
  BY <1>5, <1>6, <1>7, <1>8 DEF BuildInv
<1>10. ~ Active(builds'[b])
  BY <1>0, <1>1 DEF Active, RowIs
<1> QED
  BY <1>4, <1>9, <1>10, OneBuildStep

LEMMA Granting ==
  ASSUME QueueInv, NEW b \in Build, LeaseGrant(b)
  PROVE  QueueInv'
<1>0. /\ BuildInv(b) /\ builds[b] \in BuildRow /\ builds[b].state \in {"queued", "retriable"}
      /\ builds[b].state \in Open /\ builds[b].cleanup # "pending"
      /\ builds[b].attempt_count < MaxAttempts /\ Clear(AccountOf[b])
  BY RowsTyped
     DEF QueueInv, LeaseGrant, BuildInv, LockInv, Claimable, StillClear, Clear, OfAccount, Active, Open
<1>1. /\ builds[b].attempt_count + 1 \in AttemptNo /\ builds[b].attempt_count \in Nat
      /\ builds[b].current_fence + 1 \in Nat
  BY <1>0, FieldsTyped, NumbersTyped
<1>2. PICK n \in AttemptNo : n = builds[b].attempt_count + 1
  BY <1>1
<1>3. PICK f \in Nat : f = builds[b].current_fence + 1
  BY <1>1
<1>4. RowIs(b, "running", n, n, f, LeaseTicks, builds[b].cleanup)
  <2> DEFINE row == [builds[b] EXCEPT !.state = "running", !.attempt_count = n,
                                      !.current_attempt = n, !.current_fence = f,
                                      !.lease = LeaseTicks]
  <2>1. /\ row \in BuildRow /\ row.state = "running" /\ row.attempt_count = n
        /\ row.current_attempt = n /\ row.lease = LeaseTicks
        /\ row.current_fence = f /\ row.cleanup = builds[b].cleanup
    BY <1>0, StatesAreValues, NumbersTyped DEF BuildRow
  <2>2. builds' = [builds EXCEPT ![b] = row]
    BY <1>2, <1>3 DEF LeaseGrant
  <2> HIDE DEF row
  <2> QED
    BY <2>1, <2>2 DEF RowIs, QueueInv, TypeOK
<1>5. UNCHANGED <<effects, receipts, usage, debits, admitted>> /\ Touch(b) /\ Release(b)
  BY DEF LeaseGrant, Release
<1>6. /\ attempts' \in [Build -> [AttemptNo -> AttemptRow]]
      /\ \A c \in Build \ {b} : attempts'[c] = attempts[c]
      /\ \A m \in AttemptNo \ {n} : attempts'[b][m] = attempts[b][m]
      /\ attempts'[b][n].state = "running" /\ attempts'[b][n].fence = f
      /\ ~ attempts'[b][n].launched
  <2> DEFINE row == [state |-> "running", fence |-> f, launched |-> FALSE]
  <2>1. row \in AttemptRow /\ row.state = "running" /\ row.fence = f /\ ~ row.launched
    BY StatesAreValues DEF AttemptRow
  <2>2. attempts' = [attempts EXCEPT ![b][n] = row]
    BY <1>2, <1>3 DEF LeaseGrant
  <2> HIDE DEF row
  <2> QED
    BY <2>1, <2>2 DEF QueueInv, TypeOK
<1>7. TypeOK' /\ OnlyBuild(b)
  BY <1>4, <1>5, <1>6, TouchEffect, ReleaseLock DEF QueueInv, TypeOK, OnlyBuild, RowIs
<1>8. RowInv(b)'
  BY <1>0, <1>4, <1>5, <1>6, OpenUndecided, NumbersTyped DEF BuildInv, RowInv, RowIs, Holds
<1>9. MeterInv(b)'
  BY <1>0, <1>4, <1>5, OpenUndecided, NotBilledYet DEF MeterInv, RowIs, Open
<1>10. LockInv(b)'
  BY <1>5, <1>6, ReleaseLock, CommittedLock
<1>11. receipts[b][n] = NoOutcome
  BY <1>0, <1>1, <1>2 DEF BuildInv, AttemptInv
<1>12. ReceiptsOf(b)' /\ EffectOf(b)'
  BY <1>0, <1>4, <1>5, <1>6, <1>11, OpenUndecided DEF BuildInv, ReceiptsOf, EffectOf, RowIs
<1>13. ASSUME NEW m \in AttemptNo PROVE AttemptInv(b, m)'
  <2>1. m \in Nat /\ n \in Nat
    BY NumbersTyped
  <2>2. attempts[b][m].state # "running"
    BY <1>0, NumbersTyped DEF BuildInv, AttemptInv, RowInv
  <2>3. AttemptInv(b, m)
    BY <1>0 DEF BuildInv
  <2>4. CASE m = n
    BY <1>4, <1>5, <1>6, <1>11, <2>1, <2>4 DEF AttemptInv, RowIs, Terminal
  <2>5. CASE m # n
    <3>1. attempts'[b][m] = attempts[b][m] /\ receipts'[b][m] = receipts[b][m]
      BY <1>5, <1>6, <2>5
    <3>2. m > builds'[b].attempt_count <=> m > builds[b].attempt_count
      BY <1>1, <1>2, <1>4, <2>1, <2>5 DEF RowIs
    <3>3. attempts[b][m].state \notin Terminal
      BY <1>0, OpenUndecided
    <3> QED
      BY <2>2, <2>3, <3>1, <3>2, <3>3 DEF AttemptInv
  <2> QED BY <2>4, <2>5
<1>14. \A m \in AttemptNo : LostInv(b, m)'
  BY <1>0, <1>5, <1>6, OpenUndecided DEF LostInv, Terminal
<1>15. BuildInv(b)'
  BY <1>8, <1>9, <1>10, <1>12, <1>13, <1>14 DEF BuildInv
<1> QED
  BY <1>0, <1>7, <1>15, OneBuildStep

\* A running build stops running: its attempt is closed, in state s, and its
\* lease and current attempt are gone.
ClosesRow(b, s, u) ==
  builds' = [builds EXCEPT ![b] =
               [@ EXCEPT !.state = s, !.current_attempt = NoAttempt, !.lease = NoLease,
                         !.cleanup = u]]

ClosedAs(b, n, s, u) ==
  /\ RowIs(b, s, n, NoAttempt, builds[b].current_fence, NoLease, u)
  /\ n = builds[b].attempt_count /\ builds[b].state \in Open
  /\ attempts' \in [Build -> [AttemptNo -> AttemptRow]]
  /\ \A c \in Build \ {b} : attempts'[c] = attempts[c]
  /\ \A m \in AttemptNo \ {n} : attempts'[b][m] = attempts[b][m]
  /\ attempts'[b][n].state = s /\ attempts'[b][n].fence = builds[b].current_fence
  /\ attempts'[b][n].launched = attempts[b][n].launched
  /\ receipts[b][n] = NoOutcome
  /\ \A m \in AttemptNo : AttemptInv(b, m) /\ receipts'[b][m] = receipts[b][m] => AttemptInv(b, m)'

LEMMA Closing ==
  ASSUME QueueInv, NEW b \in Build, NEW n \in AttemptNo, Holds(b, n),
         NEW s \in {"succeeded", "failed", "retriable"}, NEW u \in Cleanup, CloseAttempt(b, n, s),
         ClosesRow(b, s, u)
  PROVE  ClosedAs(b, n, s, u)
<1>0. /\ BuildInv(b) /\ builds[b] \in BuildRow /\ builds[b].state \in Open
      /\ n = builds[b].attempt_count /\ attempts[b][n].state = "running"
      /\ attempts[b][n].fence = builds[b].current_fence /\ builds[b].current_attempt = n
  BY RowsTyped DEF QueueInv, BuildInv, RowInv, Holds, Open
<1>1. s \in BuildState /\ s \in AttemptState /\ s # "absent" /\ s # "running"
  BY StatesAreValues
<1>2. RowIs(b, s, n, NoAttempt, builds[b].current_fence, NoLease, u)
  <2> DEFINE row == [builds[b] EXCEPT !.state = s, !.current_attempt = NoAttempt,
                                      !.lease = NoLease, !.cleanup = u]
  <2>1. /\ row \in BuildRow /\ row.state = s /\ row.attempt_count = n
        /\ row.current_attempt = NoAttempt /\ row.lease = NoLease
        /\ row.current_fence = builds[b].current_fence /\ row.cleanup = u
    BY <1>0, <1>1, NumbersTyped DEF BuildRow, NoAttempt
  <2>2. builds' = [builds EXCEPT ![b] = row]
    BY DEF ClosesRow
  <2> HIDE DEF row
  <2> QED
    BY <2>1, <2>2 DEF RowIs, QueueInv, TypeOK
<1>3. receipts[b][n] = NoOutcome
  <2>1. receipts[b][n].state # "running"
    BY RowsTyped, OutcomesTyped DEF QueueInv, Receipt
  <2> QED
    BY <1>0, <2>1 DEF BuildInv, ReceiptsOf
<1>4. /\ attempts' \in [Build -> [AttemptNo -> AttemptRow]]
      /\ \A c \in Build \ {b} : attempts'[c] = attempts[c]
      /\ \A m \in AttemptNo \ {n} : attempts'[b][m] = attempts[b][m]
      /\ attempts'[b][n].state = s /\ attempts'[b][n].fence = builds[b].current_fence
      /\ attempts'[b][n].launched = attempts[b][n].launched
  BY <1>0, <1>1, CloseEffect
<1>5. ASSUME NEW m \in AttemptNo, AttemptInv(b, m), receipts'[b][m] = receipts[b][m]
      PROVE  AttemptInv(b, m)'
  <2>1. CASE m = n
    BY <1>0, <1>1, <1>2, <1>3, <1>4, <1>5, <2>1 DEF AttemptInv, RowIs
  <2>2. CASE m # n
    <3>1. attempts'[b][m] = attempts[b][m] /\ attempts[b][m].state # "running"
      BY <1>0, <1>4, <1>5, <2>2 DEF AttemptInv
    <3>2. attempts[b][m].state \notin Terminal
      BY <1>0, OpenUndecided
    <3> QED
      BY <1>0, <1>2, <1>5, <3>1, <3>2 DEF AttemptInv, RowIs
  <2> QED BY <2>1, <2>2
<1> QED
  BY <1>0, <1>2, <1>3, <1>4, <1>5 DEF ClosedAs

LEMMA Completing ==
  ASSUME QueueInv, NEW b \in Build, CompleteCommit(b)
  PROVE  QueueInv'
<1>0. /\ txn[b] \in Request /\ Holds(b, txn[b].attempt) /\ txn[b].attempt \in AttemptNo
      /\ txn[b].outcome \in Completion /\ BuildInv(b) /\ builds[b].state = "running"
  BY HolderRuns, RequestsTyped DEF QueueInv, CompleteCommit, Holds
<1>1. PICK n \in AttemptNo : n = txn[b].attempt
  BY <1>0
<1>2. PICK c \in Completion : c = txn[b].outcome
  BY <1>0
<1>3. /\ c.state \in {"succeeded", "failed", "retriable"} /\ c.elapsed \in 0..Reserved
      /\ c.cleanup \in {"confirmed", "pending"} /\ (c.state = "retriable" => c.elapsed = 0)
      /\ c # NoOutcome /\ c \in Receipt /\ c.cleanup \in Cleanup /\ c.elapsed \in Nat
  BY OutcomesTyped, StatesAreValues
<1>4. /\ Debit(b, n, c.elapsed) /\ CloseAttempt(b, n, c.state) /\ Release(b) /\ Touch(b)
      /\ IF c.state # "retriable" THEN Settle(b, "finalized", c.elapsed) ELSE UNCHANGED usage
      /\ builds' = [builds EXCEPT ![b] =
                      [@ EXCEPT !.state = c.state, !.current_attempt = NoAttempt, !.lease = NoLease,
                                !.cleanup = c.cleanup]]
      /\ receipts' = [receipts EXCEPT ![b][n] = c]
      /\ effects' = [effects EXCEPT ![b] =
                       IF c.state # "retriable"
                       THEN [state |-> c.state, attempt |-> n, fence |-> attempts[b][n].fence]
                       ELSE @]
      /\ UNCHANGED admitted
  BY <1>1, <1>2 DEF CompleteCommit, Recorded, EffectDue
<1>5. /\ RowIs(b, c.state, n, NoAttempt, builds[b].current_fence, NoLease, c.cleanup)
      /\ n = builds[b].attempt_count /\ builds[b].state \in Open
      /\ attempts' \in [Build -> [AttemptNo -> AttemptRow]]
      /\ \A d \in Build \ {b} : attempts'[d] = attempts[d]
      /\ \A m \in AttemptNo \ {n} : attempts'[b][m] = attempts[b][m]
      /\ attempts'[b][n].state = c.state /\ attempts'[b][n].fence = builds[b].current_fence
      /\ attempts'[b][n].launched = attempts[b][n].launched
      /\ \A m \in AttemptNo : AttemptInv(b, m) /\ receipts'[b][m] = receipts[b][m] => AttemptInv(b, m)'
  <2>1. Holds(b, n) /\ ClosesRow(b, c.state, c.cleanup) /\ CloseAttempt(b, n, c.state)
    BY <1>0, <1>1, <1>4 DEF ClosesRow
  <2>2. ClosedAs(b, n, c.state, c.cleanup)
    BY <1>3, <2>1, Closing
  <2> QED
    BY <2>2 DEF ClosedAs
<1>6. effects[b] = NoEffect /\ usage[b].state = "reserved" /\ usage[b].seconds = 0
      /\ \A m \in AttemptNo : debits[b][m] = 0
  BY <1>5, OpenUndecided, NotBilledYet
<1>7. /\ debits' \in [Build -> [AttemptNo -> 0..Reserved]]
      /\ \A d \in Build \ {b} : debits'[d] = debits[d]
      /\ \A m \in AttemptNo \ {n} : debits'[b][m] = 0
      /\ debits'[b][n] = c.elapsed
  BY <1>3, <1>4, <1>6, DebitEffect
<1>8. /\ usage' \in [Build -> UsageRow] /\ \A d \in Build \ {b} : usage'[d] = usage[d]
      /\ usage'[b].seconds = c.elapsed
      /\ usage'[b].state = IF c.state # "retriable" THEN "finalized" ELSE "reserved"
  <2>1. usage \in [Build -> UsageRow]
    BY DEF QueueInv, TypeOK
  <2>2. CASE c.state = "retriable"
    BY <1>3, <1>4, <1>6, <2>1, <2>2
  <2>3. CASE c.state # "retriable"
    <3>1. Settle(b, "finalized", c.elapsed)
      BY <1>4, <2>3
    <3> QED
      BY <1>3, <1>6, <2>3, <3>1, SettleEffect, StatesAreValues
  <2> QED BY <2>2, <2>3
<1>9. /\ receipts' \in [Build -> [AttemptNo -> Receipt]] /\ receipts'[b][n] = c
      /\ \A d \in Build \ {b} : receipts'[d] = receipts[d]
      /\ \A m \in AttemptNo \ {n} : receipts'[b][m] = receipts[b][m]
  BY <1>3, <1>4 DEF QueueInv, TypeOK
<1>10. /\ effects' \in [Build -> EffectRow] /\ \A d \in Build \ {b} : effects'[d] = effects[d]
       /\ c.state = "retriable" => effects'[b] = NoEffect
       /\ c.state # "retriable" => effects'[b].state = c.state /\ effects'[b].attempt = n
                                   /\ effects'[b].fence = builds[b].current_fence
  <2> DEFINE e == [state |-> c.state, attempt |-> n, fence |-> attempts[b][n].fence]
  <2>1. effects \in [Build -> EffectRow] /\ attempts[b][n].fence = builds[b].current_fence
    BY <1>0, <1>1 DEF QueueInv, TypeOK, Holds
  <2>2. /\ c.state # "retriable" => e \in EffectRow
        /\ e.state = c.state /\ e.attempt = n /\ e.fence = builds[b].current_fence
    BY <1>3, <2>1, StatesAreValues, NumbersTyped, EffectUpdate, RowsTyped, FieldsTyped DEF QueueInv
  <2>3. effects' = [effects EXCEPT ![b] = IF c.state # "retriable" THEN e ELSE @]
    BY <1>4
  <2> HIDE DEF e
  <2> QED
    BY <1>6, <2>1, <2>2, <2>3
<1>11. TypeOK' /\ OnlyBuild(b)
  BY <1>4, <1>5, <1>7, <1>8, <1>9, <1>10, TouchEffect, ReleaseLock
     DEF QueueInv, TypeOK, OnlyBuild, RowIs
<1>12. RowInv(b)'
  BY <1>3, <1>5, <1>10 DEF RowInv, RowIs
<1>13. MeterInv(b)'
  <2>1. builds'[b].state = c.state /\ builds'[b].attempt_count = n
    BY <1>5 DEF RowIs
  <2>2. usage'[b].state = "reserved" <=> builds'[b].state \in Open
    BY <1>3, <1>8, <2>1 DEF Open
  <2>3. \A m \in AttemptNo : debits'[b][m] > 0 => m = n /\ c.state # "retriable"
    BY <1>3, <1>7
  <2>4. usage'[b].seconds > 0 => debits'[b][n] > 0
    BY <1>7, <1>8
  <2> QED
    BY <1>3, <1>7, <1>8, <2>1, <2>2, <2>3, <2>4 DEF MeterInv
<1>14. LockInv(b)'
  <2>1. \A m \in AttemptNo : attempts[b][m].state # "absent" => attempts'[b][m].state # "absent"
    BY <1>3, <1>5
  <2> QED
    BY <1>4, <2>1, ReleaseLock, CommittedLock
<1>15. ReceiptsOf(b)'
  <2>1. ASSUME NEW m \in AttemptNo, m # n, receipts'[b][m] # NoOutcome
        PROVE  /\ attempts'[b][m].state = receipts'[b][m].state
               /\ debits'[b][m] = receipts'[b][m].elapsed
               /\ receipts'[b][m].state \notin Terminal
    BY <1>0, <1>5, <1>6, <1>7, <1>9, <2>1, OpenUndecided DEF BuildInv, ReceiptsOf
  <2>2. /\ attempts'[b][n].state = c.state /\ debits'[b][n] = c.elapsed /\ receipts'[b][n] = c
        /\ builds'[b].state = c.state /\ builds'[b].cleanup = c.cleanup
    BY <1>5, <1>7, <1>9 DEF RowIs
  <2> QED
    BY <2>1, <2>2 DEF ReceiptsOf
<1>16. EffectOf(b)'
  <2>1. /\ builds'[b].state = c.state /\ builds'[b].attempt_count = n
        /\ builds'[b].current_fence = builds[b].current_fence
    BY <1>5 DEF RowIs
  <2>2. CASE c.state = "retriable"
    BY <1>10, <2>1, <2>2 DEF EffectOf
  <2>3. CASE c.state # "retriable"
    <3>1. effects'[b] # NoEffect
      BY <1>3, <1>10, <2>3 DEF NoEffect
    <3> QED
      BY <1>5, <1>10, <2>1, <2>3, <3>1 DEF EffectOf
  <2> QED BY <2>2, <2>3
<1>17. ASSUME NEW m \in AttemptNo PROVE AttemptInv(b, m)' /\ LostInv(b, m)'
  <2>1. AttemptInv(b, m) /\ LostInv(b, m)
    BY <1>0 DEF BuildInv
  <2>2. CASE m = n
    <3>1. /\ attempts'[b][m].state = c.state /\ builds'[b].attempt_count = m
          /\ builds'[b].state = c.state /\ receipts'[b][m] = c /\ m \in Nat
      BY <1>5, <1>9, <2>2, NumbersTyped DEF RowIs
    <3> QED
      BY <1>3, <3>1 DEF AttemptInv, LostInv
  <2>3. CASE m # n
    BY <1>5, <1>9, <2>1, <2>3, OpenUndecided DEF LostInv, Terminal
  <2> QED BY <2>2, <2>3
<1>18. BuildInv(b)'
  BY <1>12, <1>13, <1>14, <1>15, <1>16, <1>17 DEF BuildInv
<1> QED
  BY <1>0, <1>11, <1>18, OneBuildStep DEF Active

LEMMA Acknowledging ==
  ASSUME QueueInv, NEW b \in Build, NEW n \in AttemptNo, NEW s \in 0..Reserved, CancelAck(b, n, s)
  PROVE  QueueInv'
<1>0. /\ BuildInv(b) /\ builds[b] \in BuildRow /\ txn[b] = NoTxn /\ receipts[b][n] = NoOutcome
      /\ builds[b].state = "canceled" /\ builds[b].cleanup = "pending"
      /\ attempts[b][n].state = "canceled"
  BY RowsTyped DEF QueueInv, CancelAck, Unlocked
<1>1. /\ Debit(b, n, s) /\ Settle(b, "finalized", s) /\ Touch(b)
      /\ builds' = [builds EXCEPT ![b].cleanup = "confirmed"]
      /\ receipts' = [receipts EXCEPT ![b][n] = Acknowledged(s)]
      /\ UNCHANGED <<attempts, effects, txn, admitted>>
  BY DEF CancelAck
<1>2. RowIs(b, "canceled", builds[b].attempt_count, builds[b].current_attempt,
            builds[b].current_fence, builds[b].lease, "confirmed")
  <2> DEFINE row == [builds[b] EXCEPT !.cleanup = "confirmed"]
  <2>1. /\ row \in BuildRow /\ row.state = "canceled" /\ row.attempt_count = builds[b].attempt_count
        /\ row.current_attempt = builds[b].current_attempt /\ row.lease = builds[b].lease
        /\ row.current_fence = builds[b].current_fence /\ row.cleanup = "confirmed"
    BY <1>0, StatesAreValues DEF BuildRow
  <2>2. builds' = [builds EXCEPT ![b] = row]
    BY <1>1
  <2> HIDE DEF row
  <2> QED
    BY <2>1, <2>2 DEF RowIs, QueueInv, TypeOK
<1>3. /\ usage[b].state = "reserved" /\ n = builds[b].attempt_count /\ effects[b] = NoEffect
      /\ \A m \in AttemptNo : debits[b][m] = 0
  <2>1. usage[b].state = "reserved" /\ n = builds[b].attempt_count
    BY <1>0 DEF BuildInv, MeterInv, AttemptInv, Terminal
  <2>2. effects[b].state \in EffectState
    BY RowsTyped DEF QueueInv, EffectRow
  <2>3. effects[b] = NoEffect
    BY <1>0, <2>2 DEF BuildInv, EffectOf, RowInv, EffectState
  <2> QED BY <2>1, <2>3, NotBilledYet
<1>4. /\ debits' \in [Build -> [AttemptNo -> 0..Reserved]]
      /\ \A d \in Build \ {b} : debits'[d] = debits[d]
      /\ \A m \in AttemptNo \ {n} : debits'[b][m] = 0
      /\ debits'[b][n] = s /\ s \in Nat
  BY <1>1, <1>3, DebitEffect, SecondsAssumption
<1>5. /\ usage' \in [Build -> UsageRow] /\ \A d \in Build \ {b} : usage'[d] = usage[d]
      /\ usage'[b].seconds = s /\ usage'[b].state = "finalized"
  BY <1>1, <1>3, SettleEffect, StatesAreValues
<1>6. /\ receipts' \in [Build -> [AttemptNo -> Receipt]] /\ receipts'[b][n] = Acknowledged(s)
      /\ \A d \in Build \ {b} : receipts'[d] = receipts[d]
      /\ \A m \in AttemptNo \ {n} : receipts'[b][m] = receipts[b][m]
  BY <1>1, OutcomesTyped DEF QueueInv, TypeOK
<1>7. TypeOK' /\ OnlyBuild(b)
  BY <1>1, <1>2, <1>4, <1>5, <1>6, TouchEffect DEF QueueInv, TypeOK, OnlyBuild, RowIs
<1>8. RowInv(b)'
  BY <1>0, <1>1, <1>2, <1>3 DEF BuildInv, RowInv, RowIs
<1>9. MeterInv(b)'
  BY <1>2, <1>3, <1>4, <1>5 DEF MeterInv, RowIs, Open
<1>10. LockInv(b)'
  BY <1>0, <1>1, CommittedLock
<1>11. ReceiptsOf(b)'
  <2>1. ASSUME NEW m \in AttemptNo, m # n, receipts'[b][m] # NoOutcome
        PROVE  /\ attempts'[b][m].state = receipts'[b][m].state
               /\ debits'[b][m] = receipts'[b][m].elapsed
               /\ receipts'[b][m].state \notin Terminal
    BY <1>0, <1>1, <1>3, <1>4, <1>6, <2>1 DEF BuildInv, ReceiptsOf, AttemptInv
  <2>2. /\ attempts'[b][n].state = "canceled" /\ debits'[b][n] = s
        /\ receipts'[b][n] = Acknowledged(s)
        /\ builds'[b].state = "canceled" /\ builds'[b].cleanup = "confirmed"
    BY <1>0, <1>1, <1>2, <1>4, <1>6 DEF RowIs
  <2> QED
    BY <2>1, <2>2, OutcomesTyped DEF ReceiptsOf
<1>12. EffectOf(b)'
  BY <1>1, <1>2, <1>3 DEF EffectOf, RowIs
<1>13. ASSUME NEW m \in AttemptNo PROVE AttemptInv(b, m)' /\ LostInv(b, m)'
  <2>1. AttemptInv(b, m) /\ LostInv(b, m)
    BY <1>0 DEF BuildInv
  <2>2. AttemptInv(b, m)'
    <3>1. CASE m = n
      <4>1. /\ builds'[b].attempt_count = m /\ builds'[b].state = "canceled"
            /\ attempts'[b][m].state = "canceled" /\ receipts'[b][m].state = "canceled" /\ m \in Nat
        BY <1>0, <1>1, <1>2, <1>3, <1>6, <3>1, OutcomesTyped, NumbersTyped DEF RowIs
      <4> QED
        BY <4>1 DEF AttemptInv
    <3>2. CASE m # n
      BY <1>0, <1>1, <1>2, <1>6, <2>1, <3>2 DEF AttemptInv, RowIs
    <3> QED BY <3>1, <3>2
  <2>3. LostInv(b, m)'
    BY <1>0, <1>1, <1>6, <2>1 DEF LostInv
  <2> QED BY <2>2, <2>3
<1>14. BuildInv(b)'
  BY <1>8, <1>9, <1>10, <1>11, <1>12, <1>13 DEF BuildInv
<1> QED
  BY <1>0, <1>7, <1>14, OneBuildStep DEF Active

LEMMA Reaping ==
  ASSUME QueueInv, NEW b \in Build, NEW seconds \in 0..Reserved, Reap(b, seconds)
  PROVE  QueueInv'
<1>0. /\ BuildInv(b) /\ builds[b] \in BuildRow /\ txn[b] = NoTxn /\ builds[b].state = "running"
  BY RowsTyped DEF QueueInv, Reap, Unlocked, Expired
<1>1. /\ builds[b].current_attempt \in AttemptNo /\ Holds(b, builds[b].current_attempt)
  BY <1>0, FieldsTyped, NumbersTyped DEF BuildInv, RowInv, Holds
<1>2. PICK n \in AttemptNo : n = builds[b].current_attempt
  BY <1>1
<1>3. PICK s \in {"failed", "retriable"} : s = IF ReapTerminal(b, n) THEN "failed" ELSE "retriable"
  OBVIOUS
<1>4. PICK u \in Cleanup : u = ReapCleanup(b, n)
  BY <1>0, FieldsTyped, StatesAreValues DEF ReapCleanup
<1>5. /\ CloseAttempt(b, n, s) /\ ClosesRow(b, s, u) /\ Touch(b)
      /\ seconds \in ReapSeconds(b, n) /\ UNCHANGED <<receipts, txn, admitted>>
      /\ s = "failed" => /\ Debit(b, n, seconds) /\ Settle(b, "finalized", seconds)
                         /\ effects' = [effects EXCEPT ![b] =
                              IF @ = NoEffect
                              THEN [state |-> "failed", attempt |-> n,
                                    fence |-> builds[b].current_fence]
                              ELSE @]
      /\ s = "retriable" => UNCHANGED <<debits, usage, effects>> /\ ~ attempts[b][n].launched
  BY <1>2, <1>3, <1>4 DEF Reap, ClosesRow, ReapTerminal
<1>6. ClosedAs(b, n, s, u)
  BY <1>1, <1>2, <1>5, Closing
<1>7. /\ effects[b] = NoEffect /\ usage[b].state = "reserved" /\ usage[b].seconds = 0
      /\ \A m \in AttemptNo : debits[b][m] = 0
  BY <1>6, OpenUndecided, NotBilledYet DEF ClosedAs
<1>8. /\ attempts[b][n].launched => s = "failed" /\ u = "pending" /\ seconds > 0
      /\ ~ attempts[b][n].launched => u = builds[b].cleanup
      /\ s = "retriable" => u # "pending"
      /\ seconds \in Nat
  <2>1. builds[b].cleanup # "pending"
    BY <1>0 DEF BuildInv, RowInv
  <2> QED
    BY <1>3, <1>4, <1>5, <2>1, SecondsAssumption DEF ReapCleanup, ReapSeconds, ReapTerminal
<1>9. /\ debits' \in [Build -> [AttemptNo -> 0..Reserved]]
      /\ \A d \in Build \ {b} : debits'[d] = debits[d]
      /\ \A m \in AttemptNo \ {n} : debits'[b][m] = 0
      /\ debits'[b][n] = IF s = "failed" THEN seconds ELSE 0
  <2>1. CASE s = "failed"
    BY <1>5, <1>7, <2>1, DebitEffect
  <2>2. CASE s = "retriable"
    BY <1>5, <1>7, <2>2 DEF QueueInv, TypeOK
  <2> QED BY <2>1, <2>2
<1>10. /\ usage' \in [Build -> UsageRow] /\ \A d \in Build \ {b} : usage'[d] = usage[d]
       /\ s = "failed" => usage'[b].state = "finalized" /\ usage'[b].seconds = seconds
       /\ s = "retriable" => usage'[b].state = "reserved" /\ usage'[b].seconds = 0
  <2>1. CASE s = "failed"
    BY <1>5, <1>7, <2>1, SettleEffect, StatesAreValues
  <2>2. CASE s = "retriable"
    BY <1>5, <1>7, <2>2 DEF QueueInv, TypeOK
  <2> QED BY <2>1, <2>2
<1>11. /\ effects' \in [Build -> EffectRow] /\ \A d \in Build \ {b} : effects'[d] = effects[d]
       /\ s = "retriable" => effects'[b] = NoEffect
       /\ s = "failed" => effects'[b].state = "failed" /\ effects'[b].attempt = n
                          /\ effects'[b].fence = builds[b].current_fence
  <2>1. effects \in [Build -> EffectRow]
    BY DEF QueueInv, TypeOK
  <2>2. CASE s = "failed"
    <3> DEFINE e == [state |-> "failed", attempt |-> n, fence |-> builds[b].current_fence]
    <3>1. e \in EffectRow
      BY <1>0, FieldsTyped, StatesAreValues, NumbersTyped, EffectUpdate
    <3>2. e.state = "failed" /\ e.attempt = n /\ e.fence = builds[b].current_fence
      OBVIOUS
    <3>3. effects' = [effects EXCEPT ![b] = e]
      BY <1>5, <1>7, <2>2
    <3> HIDE DEF e
    <3> QED
      BY <2>1, <2>2, <3>1, <3>2, <3>3
  <2>3. CASE s = "retriable"
    BY <1>5, <1>7, <2>1, <2>3
  <2> QED BY <2>2, <2>3
<1>12. TypeOK' /\ OnlyBuild(b)
  BY <1>5, <1>6, <1>9, <1>10, <1>11, TouchEffect DEF QueueInv, TypeOK, OnlyBuild, RowIs, ClosedAs
<1>13. /\ builds'[b].state = s /\ builds'[b].attempt_count = n /\ builds'[b].cleanup = u
       /\ builds'[b].current_attempt = NoAttempt /\ builds'[b].lease = NoLease
       /\ builds'[b].current_fence = builds[b].current_fence /\ n = builds[b].attempt_count
  BY <1>6 DEF ClosedAs, RowIs
<1>14. RowInv(b)'
  BY <1>11, <1>13 DEF RowInv
<1>15. MeterInv(b)'
  BY <1>8, <1>9, <1>10, <1>13 DEF MeterInv, Open
<1>16. LockInv(b)'
  <2>1. \A m \in AttemptNo : attempts[b][m].state # "absent" => attempts'[b][m].state # "absent"
    BY <1>6 DEF ClosedAs
  <2> QED
    BY <1>0, <1>5, <2>1, CommittedLock
<1>17. ReceiptsOf(b)'
  <2>1. ASSUME NEW m \in AttemptNo, receipts'[b][m] # NoOutcome
        PROVE  /\ attempts'[b][m].state = receipts'[b][m].state
               /\ debits'[b][m] = receipts'[b][m].elapsed
               /\ receipts'[b][m].state \notin Terminal
    <3>1. m # n /\ attempts'[b][m] = attempts[b][m] /\ debits'[b][m] = debits[b][m]
      BY <1>5, <1>6, <1>7, <1>9, <2>1 DEF ClosedAs
    <3>2. receipts[b][m].state \notin Terminal
      BY <1>6, OpenUndecided DEF ClosedAs
    <3> QED
      BY <1>0, <1>5, <2>1, <3>1, <3>2 DEF BuildInv, ReceiptsOf
  <2> QED
    BY <2>1 DEF ReceiptsOf
<1>18. EffectOf(b)'
  <2>1. CASE s = "failed"
    <3>1. effects'[b] # NoEffect /\ attempts'[b][n].state = "failed"
      BY <1>6, <1>11, <2>1 DEF NoEffect, ClosedAs
    <3> QED
      BY <1>11, <1>13, <2>1, <3>1 DEF EffectOf
  <2>2. CASE s = "retriable"
    BY <1>11, <1>13, <2>2 DEF EffectOf
  <2> QED BY <2>1, <2>2
<1>19. ASSUME NEW m \in AttemptNo PROVE AttemptInv(b, m)' /\ LostInv(b, m)'
  <2>1. AttemptInv(b, m) /\ LostInv(b, m)
    BY <1>0 DEF BuildInv
  <2>2. AttemptInv(b, m)'
    BY <1>5, <1>6, <2>1 DEF ClosedAs
  <2>3. CASE m = n
    BY <1>6, <1>8, <1>9, <1>13, <2>2, <2>3 DEF LostInv, ClosedAs
  <2>4. CASE m # n
    <3>1. attempts'[b][m] = attempts[b][m]
      BY <1>6, <2>4 DEF ClosedAs
    <3>2. attempts[b][m].launched /\ receipts[b][m] = NoOutcome
            => attempts[b][m].state \notin {"failed", "retriable"}
      BY <1>6, OpenUndecided DEF ClosedAs, Terminal
    <3> QED
      BY <1>5, <2>2, <3>1, <3>2 DEF LostInv
  <2> QED BY <2>2, <2>3, <2>4
<1>20. BuildInv(b)'
  BY <1>14, <1>15, <1>16, <1>17, <1>18, <1>19 DEF BuildInv
<1> QED
  BY <1>0, <1>12, <1>20, OneBuildStep DEF Active

LEMMA Ticking ==
  ASSUME QueueInv, Tick
  PROVE  QueueInv'
<1>1. ASSUME NEW b \in Build
      PROVE  /\ builds'[b] \in BuildRow /\ builds'[b].state = builds[b].state
             /\ builds'[b].attempt_count = builds[b].attempt_count
             /\ builds'[b].current_attempt = builds[b].current_attempt
             /\ builds'[b].current_fence = builds[b].current_fence
             /\ builds'[b].cleanup = builds[b].cleanup
             /\ builds'[b].lease = NoLease <=> builds[b].lease = NoLease
  <2>1. builds[b] \in BuildRow /\ (builds[b].lease = NoLease \/ builds[b].lease \in Nat)
    BY RowsTyped, FieldsTyped DEF QueueInv
  <2>2. PICK l \in {NoLease} \cup Nat : /\ l = IF builds[b].lease > 0 THEN builds[b].lease - 1
                                                                   ELSE builds[b].lease
                                        /\ l = NoLease <=> builds[b].lease = NoLease
    BY <2>1 DEF NoLease
  <2>3. builds'[b] = [builds[b] EXCEPT !.lease = l]
    BY <2>2 DEF Tick
  <2> QED
    BY <2>1, <2>2, <2>3 DEF BuildRow
<1>2. UNCHANGED <<attempts, effects, receipts, usage, debits, txn, waiting, admitted>>
  BY DEF Tick
<1>3. TypeOK'
  <2>1. builds' = [b \in Build |-> builds'[b]]
    BY DEF Tick
  <2>2. builds' \in [Build -> BuildRow]
    BY <1>1, <2>1
  <2> QED
    BY <1>2, <2>2 DEF QueueInv, TypeOK
<1>4. ASSUME NEW b \in Build PROVE BuildInv(b)'
  <2>0. BuildInv(b)
    BY DEF QueueInv
  <2>1. RowInv(b)' /\ MeterInv(b)'
    BY <1>1, <1>2, <2>0 DEF BuildInv, RowInv, MeterInv, Holds
  <2>2. LockInv(b)'
    BY <1>1, <1>2, <2>0 DEF BuildInv, LockInv, Holds, Claimable
  <2>3. ReceiptsOf(b)' /\ EffectOf(b)'
    BY <1>1, <1>2, <2>0 DEF BuildInv, ReceiptsOf, EffectOf
  <2>4. \A n \in AttemptNo : AttemptInv(b, n)' /\ LostInv(b, n)'
    BY <1>1, <1>2, <2>0 DEF BuildInv, AttemptInv, LostInv
  <2> QED BY <2>1, <2>2, <2>3, <2>4 DEF BuildInv
<1>5. OneActiveBuild'
  BY <1>1 DEF QueueInv, OneActiveBuild, Active
<1> QED BY <1>3, <1>4, <1>5 DEF QueueInv

LEMMA InitKeeps == Init => QueueInv
<1> SUFFICES ASSUME Init PROVE QueueInv
  OBVIOUS
<1>1. TypeOK
  BY InitTyped
<1>2. ASSUME NEW b \in Build PROVE BuildInv(b)
  <2>1. RowInv(b) /\ MeterInv(b) /\ LockInv(b)
    BY RequestsTyped, NumbersTyped
       DEF Init, RowInv, MeterInv, LockInv, AbsentBuild, NoAttempt, NoLease, Open
  <2>2. ReceiptsOf(b) /\ EffectOf(b)
    BY DEF Init, ReceiptsOf, EffectOf, AbsentBuild
  <2>3. \A n \in AttemptNo : AttemptInv(b, n) /\ LostInv(b, n)
    BY NumbersTyped DEF Init, AttemptInv, LostInv, AbsentBuild, AbsentAttempt, AttemptNo, Terminal
  <2> QED BY <2>1, <2>2, <2>3 DEF BuildInv
<1>3. OneActiveBuild
  BY DEF Init, OneActiveBuild, Active, AbsentBuild
<1> QED BY <1>1, <1>2, <1>3 DEF QueueInv

LEMMA UnchangedKeeps ==
  ASSUME QueueInv, UNCHANGED <<builds, attempts, effects, receipts, usage, debits, txn, waiting>>,
         admitted' \subseteq admitted
  PROVE  QueueInv'
<1>1. TypeOK'
  BY DEF QueueInv, TypeOK
<1>2. \A b \in Build : BuildInv(b)'
  BY SameBuild DEF QueueInv
<1>3. OneActiveBuild'
  BY DEF QueueInv, OneActiveBuild
<1> QED BY <1>1, <1>2, <1>3 DEF QueueInv

LEMMA StepKeeps ==
  ASSUME QueueInv, [Next]_vars
  PROVE  QueueInv'
<1>1. CASE UNCHANGED vars
  BY <1>1, UnchangedKeeps DEF vars
<1>2. CASE Tick
  BY <1>2, Ticking
<1>3. ASSUME NEW b \in Build,
             \/ Enqueue(b) \/ Cancel(b) \/ LeaseStale(b) \/ LeaseGrant(b) \/ RenewCommit(b)
             \/ CredentialsCommit(b) \/ CompleteCommit(b) \/ MaterializeCommit(b)
             \/ MaterializeReject(b)
      PROVE  QueueInv'
  BY <1>3, Enqueuing, Canceling, StaleLease, Granting, Renewing, Credentials, Completing
<1>4. ASSUME NEW b \in Build,
             \/ LeaseClaim(b) \/ LeaseYield(b) \/ Wake(b) \/ Rollback(b) \/ MaterializeAgain(b)
             \/ \E r \in Request : Lock(b, r) \/ Join(b, r)
      PROVE  QueueInv'
  BY <1>4, HandlingLocks
<1>5. ASSUME NEW b \in Build, Revoke(b) PROVE QueueInv'
  BY <1>5, UnchangedKeeps DEF Revoke
<1> QED
  BY <1>1, <1>2, <1>3, <1>4, <1>5, Acknowledging, Reaping DEF Next

-----------------------------------------------------------------------------
(* What holds of the queue, whatever its workers do. *)

\* The rows keep their types in every behaviour of the build queue.
THEOREM TypeCorrect == Spec => []TypeOK
<1>1. QueueInv => TypeOK
  BY DEF QueueInv
<1> QED BY <1>1, InitKeeps, StepKeeps, PTL DEF Spec

\* A receipt and an effect say what the other tables say, for good.
THEOREM ReceiptSafety == Spec => []ReceiptsTellTruth
<1>1. QueueInv => ReceiptsTellTruth
  BY DEF QueueInv, BuildInv, ReceiptsTellTruth
<1> QED BY <1>1, InitKeeps, StepKeeps, PTL DEF Spec

\* A lease that is lost after the launch decides the build.
THEOREM LostLeaseSafety == Spec => []LostAfterLaunchIsFinal
<1>1. QueueInv => LostAfterLaunchIsFinal
  BY DEF QueueInv, BuildInv, LostInv, LostAfterLaunchIsFinal
<1> QED BY <1>1, InitKeeps, StepKeeps, PTL DEF Spec

\* No commit is ever rejected by the index on an account's active build.
THEOREM SlotSafety == Spec => []OneActiveBuild
<1>1. QueueInv => OneActiveBuild
  BY DEF QueueInv
<1> QED BY <1>1, InitKeeps, StepKeeps, PTL DEF Spec

-----------------------------------------------------------------------------
(* The meter of a build. *)

LEMMA SecondsCounted ==
  ASSUME NEW x, NEW k \in Nat
  PROVE  IsFiniteSet({x} \X (1..k)) /\ Cardinality({x} \X (1..k)) = k
<1>1. IsFiniteSet({x}) /\ Cardinality({x}) = 1
  BY FS_Singleton
<1>2. IsFiniteSet(1..k) /\ Cardinality(1..k) = k
  BY FS_Interval
<1>3. /\ IsFiniteSet({x} \X (1..k))
      /\ Cardinality({x} \X (1..k)) = Cardinality({x}) * Cardinality(1..k)
  BY <1>1, <1>2, FS_Product
<1> QED
  BY <1>1, <1>2, <1>3

\* What one build is billed, from the seconds of its attempts' debits.
LEMMA BilledCounted ==
  ASSUME NEW d \in [AttemptNo -> 0..Reserved], NEW u \in Nat, NEW k,
         \A n \in AttemptNo : d[n] > 0 => n = k /\ u = d[n],
         u > 0 => \E n \in AttemptNo : d[n] > 0,
         NEW B, B = UNION {{n} \X (1..d[n]) : n \in AttemptNo}
  PROVE  IsFiniteSet(B) /\ Cardinality(B) = u
<1>0. \A n \in AttemptNo : d[n] \in Nat
  BY SecondsAssumption
<1>1. CASE \E n \in AttemptNo : d[n] > 0
  <2>1. PICK n \in AttemptNo : d[n] > 0
    BY <1>1
  <2>2. \A m \in AttemptNo : m # n => 1..d[m] = {}
    BY <1>0, <2>1
  <2>3. B = {n} \X (1..d[n])
    BY <2>1, <2>2
  <2>4. u = d[n] /\ d[n] \in Nat
    BY <1>0, <2>1
  <2>5. PICK e \in Nat : e = d[n]
    BY <2>4
  <2>6. B = {n} \X (1..e)
    BY <2>3, <2>5
  <2>7. IsFiniteSet({n} \X (1..e)) /\ Cardinality({n} \X (1..e)) = e
    BY SecondsCounted, Zenon
  <2> QED
    BY <2>4, <2>5, <2>6, <2>7
<1>2. CASE ~ \E n \in AttemptNo : d[n] > 0
  <2>1. \A n \in AttemptNo : 1..d[n] = {}
    BY <1>0, <1>2
  <2>2. B = {}
    BY <2>1
  <2> QED
    BY <1>2, <2>2, FS_EmptySet
<1> QED BY <1>1, <1>2

LEMMA BilledIsSeconds ==
  ASSUME QueueInv, NEW b \in Build
  PROVE  IsFiniteSet(Billed(b)) /\ Cardinality(Billed(b)) = usage[b].seconds
<1>1. MeterInv(b) /\ debits[b] \in [AttemptNo -> 0..Reserved] /\ usage[b].seconds \in Nat
  BY RowsTyped, SecondsAssumption DEF QueueInv, BuildInv, UsageRow, TypeOK
<1>2. PICK d \in [AttemptNo -> 0..Reserved] : d = debits[b]
  BY <1>1
<1>3. PICK u \in Nat : u = usage[b].seconds
  BY <1>1
<1>4. PICK k : k = builds[b].attempt_count
  OBVIOUS
<1>5. /\ \A n \in AttemptNo : d[n] > 0 => n = k /\ u = d[n]
      /\ u > 0 => \E n \in AttemptNo : d[n] > 0
  BY <1>1, <1>2, <1>3, <1>4 DEF MeterInv
<1>6. Billed(b) = UNION {{n} \X (1..d[n]) : n \in AttemptNo}
  BY <1>2 DEF Billed
<1> QED
  BY <1>3, <1>5, <1>6, BilledCounted

\* The meter is exact: seconds stay reserved exactly while they may still be
\* billed, and close at exactly what the last attempt's debit event bills, at
\* most what was reserved, with any number of builds and accounts.
THEOREM MeterSafety == Spec => []MeterExact
<1>1. QueueInv => MeterExact
  <2> SUFFICES ASSUME QueueInv, NEW b \in Build
               PROVE  /\ MeterInv(b) /\ usage[b].seconds = Cardinality(Billed(b))
                      /\ usage[b].seconds <= Reserved
    BY DEF MeterExact, MeterInv
  <2>1. MeterInv(b) /\ usage[b] \in UsageRow
    BY DEF QueueInv, BuildInv, TypeOK
  <2>2. usage[b].seconds <= Reserved
    BY <2>1, SecondsAssumption DEF UsageRow
  <2> QED
    BY <2>1, <2>2, BilledIsSeconds
<1> QED BY <1>1, InitKeeps, StepKeeps, PTL DEF Spec

-----------------------------------------------------------------------------
(* What is closed stays closed. *)

\* A build is decided and nothing of it is left to confirm.
Closed(b) ==
  builds[b].state \in Terminal /\ ~(builds[b].state = "canceled" /\ builds[b].cleanup = "pending")

BuildStays(b) ==
  /\ Closed(b) => UNCHANGED <<builds[b], attempts[b], effects[b], receipts[b], usage[b], debits[b]>>
  /\ builds[b].state \in Terminal =>
       /\ UNCHANGED <<builds[b].state, builds[b].attempt_count, builds[b].current_fence>>
       /\ UNCHANGED <<attempts[b], effects[b]>>
  /\ \A n \in AttemptNo : receipts[b][n] # NoOutcome => receipts'[b][n] = receipts[b][n]

\* A closed build keeps all its rows, a decided one its outcome, its fence, its
\* attempts and its effect, and a receipt is written once.
ClosedStays == \A b \in Build : BuildStays(b)

\* The rows of the other builds but for their locks.
RowsOnly(b) ==
  \A c \in Build \ {b} :
    /\ builds'[c] = builds[c] /\ attempts'[c] = attempts[c] /\ effects'[c] = effects[c]
    /\ receipts'[c] = receipts[c] /\ usage'[c] = usage[c] /\ debits'[c] = debits[c]

LEMMA SameStays ==
  ASSUME NEW b \in Build,
         UNCHANGED <<builds[b], attempts[b], effects[b], receipts[b], usage[b], debits[b]>>
  PROVE  BuildStays(b)
BY DEF BuildStays

\* A step that writes the rows of a build that is not decided yet.
LEMMA UndecidedStays ==
  ASSUME NEW b \in Build, RowsOnly(b), builds[b].state \notin Terminal,
         \A n \in AttemptNo : receipts[b][n] # NoOutcome => receipts'[b][n] = receipts[b][n]
  PROVE  ClosedStays
<1>1. BuildStays(b)
  BY DEF BuildStays, Closed
<1>2. \A c \in Build \ {b} : BuildStays(c)
  BY SameStays DEF RowsOnly
<1> QED BY <1>1, <1>2 DEF ClosedStays

LEMMA CompleteStays ==
  ASSUME QueueInv, NEW b \in Build, CompleteCommit(b)
  PROVE  ClosedStays
<1>1. PICK n \in AttemptNo : n = txn[b].attempt /\ attempts[b][n].state = "running"
  BY HolderRuns DEF CompleteCommit, Holds
<1>2. builds[b].state \notin Terminal
  BY HolderRuns DEF CompleteCommit, Holds, Terminal
<1>3. receipts[b][n] = NoOutcome
  <2>1. ASSUME receipts[b][n] # NoOutcome PROVE FALSE
    <3>1. receipts[b][n].state = "running" /\ receipts[b][n] \in Receipt
      BY <1>1, <2>1, RowsTyped DEF QueueInv, BuildInv, ReceiptsOf
    <3> QED BY <3>1, OutcomesTyped DEF Receipt
  <2> QED BY <2>1
<1>4. /\ builds \in [Build -> BuildRow] /\ attempts \in [Build -> [AttemptNo -> AttemptRow]]
      /\ effects \in [Build -> EffectRow] /\ receipts \in [Build -> [AttemptNo -> Receipt]]
      /\ usage \in [Build -> UsageRow] /\ debits \in [Build -> [AttemptNo -> 0..Reserved]]
  BY DEF QueueInv, TypeOK
<1>5. RowsOnly(b)
  BY <1>4 DEF CompleteCommit, CloseAttempt, Settle, Debit, RowsOnly
<1>6. \A m \in AttemptNo \ {n} : receipts'[b][m] = receipts[b][m]
  BY <1>1, <1>4 DEF CompleteCommit
<1> QED BY <1>2, <1>3, <1>5, <1>6, UndecidedStays

\* Every other step but the acknowledgement of a cancellation writes no receipt,
\* and the rows of an undecided build only.
LEMMA OpenStays ==
  ASSUME QueueInv, NEW b \in Build,
         \/ Enqueue(b) \/ Cancel(b) \/ LeaseStale(b) \/ LeaseGrant(b) \/ RenewCommit(b)
         \/ CredentialsCommit(b) \/ MaterializeCommit(b) \/ MaterializeReject(b)
         \/ \E s \in 0..Reserved : Reap(b, s)
  PROVE  ClosedStays
<1>1. /\ builds \in [Build -> BuildRow] /\ attempts \in [Build -> [AttemptNo -> AttemptRow]]
      /\ effects \in [Build -> EffectRow] /\ receipts \in [Build -> [AttemptNo -> Receipt]]
      /\ usage \in [Build -> UsageRow] /\ debits \in [Build -> [AttemptNo -> 0..Reserved]]
  BY DEF QueueInv, TypeOK
<1>2. builds[b].state \notin Terminal
  <2>1. CASE Enqueue(b) \/ Cancel(b) \/ \E s \in 0..Reserved : Reap(b, s)
    BY <2>1 DEF Enqueue, Cancel, Cancelable, Reap, Expired, Open, Terminal
  <2>2. CASE LeaseStale(b) \/ LeaseGrant(b)
    BY <2>2 DEF LeaseStale, LeaseGrant, QueueInv, BuildInv, LockInv, Claimable, Terminal
  <2>3. CASE RenewCommit(b) \/ CredentialsCommit(b) \/ MaterializeCommit(b) \/ MaterializeReject(b)
    BY <2>3, HolderRuns
       DEF RenewCommit, CredentialsCommit, MaterializeCommit, MaterializeReject, Holds, Terminal
  <2> QED BY <2>1, <2>2, <2>3
<1>3. UNCHANGED receipts
  BY DEF Enqueue, Cancel, LeaseStale, LeaseGrant, RenewCommit, CredentialsCommit, MaterializeCommit,
         MaterializeReject, Reap
<1>4. RowsOnly(b)
  <2>1. CASE Enqueue(b) \/ Cancel(b)
    BY <1>1, <2>1 DEF Enqueue, Cancel, CloseAttempt, CancelSettles, Settle, RowsOnly
  <2>2. CASE LeaseStale(b) \/ LeaseGrant(b)
    BY <1>1, <2>2 DEF LeaseStale, LeaseGrant, Settle, RowsOnly
  <2>3. CASE RenewCommit(b) \/ CredentialsCommit(b) \/ MaterializeCommit(b) \/ MaterializeReject(b)
    BY <1>1, <2>3 DEF RenewCommit, CredentialsCommit, MaterializeCommit, MaterializeReject, RowsOnly
  <2>4. CASE \E s \in 0..Reserved : Reap(b, s)
    <3>1. PICK s \in 0..Reserved : Reap(b, s)
      BY <2>4
    <3> QED BY <1>1, <3>1 DEF Reap, CloseAttempt, Settle, Debit, RowsOnly
  <2> QED BY <2>1, <2>2, <2>3, <2>4
<1> QED BY <1>2, <1>3, <1>4, UndecidedStays

\* The acknowledgement of a cancellation confirms, and decides nothing.
LEMMA AcknowledgeStays ==
  ASSUME QueueInv, NEW b \in Build, NEW n \in AttemptNo, NEW s \in 0..Reserved, CancelAck(b, n, s)
  PROVE  ClosedStays
<1>1. /\ builds \in [Build -> BuildRow] /\ receipts \in [Build -> [AttemptNo -> Receipt]]
      /\ usage \in [Build -> UsageRow] /\ debits \in [Build -> [AttemptNo -> 0..Reserved]]
      /\ builds[b] \in BuildRow
  BY DEF QueueInv, TypeOK
<1>2. RowsOnly(b) /\ UNCHANGED <<attempts[b], effects[b]>>
  BY <1>1 DEF CancelAck, Settle, Debit, RowsOnly
<1>3. PICK row : row = [builds[b] EXCEPT !.cleanup = "confirmed"]
  OBVIOUS
<1>4. builds'[b] = row
  BY <1>1, <1>3 DEF CancelAck
<1>5. /\ row.state = builds[b].state /\ row.attempt_count = builds[b].attempt_count
      /\ row.current_fence = builds[b].current_fence
  BY <1>1, <1>3 DEF BuildRow
<1>6. \A m \in AttemptNo : receipts[b][m] # NoOutcome => receipts'[b][m] = receipts[b][m]
  BY <1>1 DEF CancelAck
<1>7. BuildStays(b)
  BY <1>2, <1>4, <1>5, <1>6 DEF BuildStays, Closed, CancelAck
<1>8. \A c \in Build \ {b} : BuildStays(c)
  BY <1>2, SameStays DEF RowsOnly
<1> QED BY <1>7, <1>8 DEF ClosedStays

\* Time runs out for leases, which a decided build does not have.
LEMMA TickStays ==
  ASSUME QueueInv, Tick
  PROVE  ClosedStays
<1>1. ASSUME NEW b \in Build PROVE BuildStays(b)
  <2>1. builds[b] \in BuildRow /\ RowInv(b) /\ builds' \in [Build -> BuildRow]
    BY Ticking DEF QueueInv, BuildInv, TypeOK
  <2>2. ASSUME builds[b].state \in Terminal PROVE builds'[b] = builds[b]
    <3>1. builds[b].lease = NoLease
      BY <2>1, <2>2 DEF RowInv, Terminal
    <3>2. ~(builds[b].lease > 0)
      BY <3>1 DEF NoLease
    <3>3. builds'[b] = [builds[b] EXCEPT !.lease = builds[b].lease]
      BY <3>2 DEF Tick
    <3> QED BY <2>1, <3>3 DEF BuildRow
  <2> QED BY <2>2 DEF Tick, BuildStays, Closed
<1> QED BY <1>1 DEF ClosedStays

LEMMA StepStays ==
  ASSUME QueueInv, [Next]_vars
  PROVE  ClosedStays
<1>1. ASSUME UNCHANGED <<builds, attempts, effects, receipts, usage, debits>> PROVE ClosedStays
  BY <1>1, SameStays DEF ClosedStays
<1>2. CASE UNCHANGED vars
  BY <1>1, <1>2 DEF vars
<1>3. ASSUME NEW b \in Build,
             \/ LeaseClaim(b) \/ LeaseYield(b) \/ Wake(b) \/ Rollback(b) \/ MaterializeAgain(b)
             \/ Revoke(b) \/ \E r \in Request : Lock(b, r) \/ Join(b, r)
      PROVE  ClosedStays
  BY <1>1, <1>3 DEF LeaseClaim, LeaseYield, Wake, Rollback, MaterializeAgain, Revoke, Lock, Join
<1> QED
  BY <1>2, <1>3, CompleteStays, OpenStays, AcknowledgeStays, TickStays DEF Next

\* What was decided of a build is decided for good, and a closed build is billed
\* and answered for the same way ever after, whichever requests of its former
\* attempts still arrive, wait or are repeated (complete, cancel_ack, reap_expired).
THEOREM ClosedForGood == Spec => [][ClosedStays]_vars
<1>1. QueueInv /\ [Next]_vars => QueueInv' /\ [ClosedStays]_vars
  BY StepKeeps, StepStays
<1> QED BY <1>1, InitKeeps, PTL DEF Spec

-----------------------------------------------------------------------------
(* The worker. *)

Before == {"source", "credentials"}
OnAttempt == W.pc \notin {"idle", "exited"}

\* What the worker knows is true: it is on an attempt that was leased, whose
\* credentials were resolved if a machine ran, and has seen the end of the
\* machine when it reports a success.
WorkInv ==
  /\ ~ OnAttempt => W.attempt = NoAttempt /\ W.report = NoOutcome
  /\ OnAttempt =>
       /\ work.build \in Build /\ W.attempt \in AttemptNo
       /\ attempts[work.build][W.attempt].state # "absent"
       /\ W.pc \in {"vm", "ack"} => attempts[work.build][W.attempt].launched
       /\ W.pc = "ack" => W.report \in Report
       /\ W.pc \in Before => <<work.build, W.attempt>> \notin machines
       /\ W.pc \in {"complete", "ack"} =>
            /\ W.report.elapsed > 0 => attempts[work.build][W.attempt].launched
            /\ W.report.state = "succeeded" => <<work.build, W.attempt>> \notin machines

\* A completion that was sent stays as true as when it was: the machine of a
\* success is gone for good.
SentInv(b, r) ==
  r.op = "complete" =>
    /\ r.outcome.state # "retriable"
    /\ r.outcome.elapsed > 0 => attempts[b][r.attempt].launched
    /\ r.outcome.state = "succeeded" => <<b, r.attempt>> \notin machines
    /\ work.build = b /\ W.attempt = r.attempt => W.pc \notin {"source", "credentials", "vm"}

\* An attempt that was billed or has a machine is launched, and a launched one
\* is the last of its build.
LaunchInv(b, n) ==
  /\ debits[b][n] > 0 => attempts[b][n].launched
  /\ attempts[b][n].launched =>
       n = builds[b].attempt_count /\ builds[b].state \notin {"absent", "queued", "retriable"}
  /\ <<b, n>> \in machines =>
       attempts[b][n].launched /\ (Active(builds[b]) \/ ReportedGone(b, n))

WInv ==
  /\ QueueInv /\ WTypeOK
  /\ WorkInv
  /\ \A b \in Build : SentInv(b, txn[b]) /\ SentInv(b, waiting[b].req)
  /\ \A b \in Build, n \in AttemptNo : LaunchInv(b, n)

LEMMA WorkTyped ==
  ASSUME WTypeOK
  PROVE  /\ work \in [state : WorkState, build : Build \cup {"none"}]
         /\ W \in WorkState /\ work.build \in Build \cup {"none"}
         /\ W.pc \in Pc /\ W.asked \in BOOLEAN /\ W.attempt \in 0..MaxAttempts
         /\ W.fenced \in BOOLEAN /\ W.report \in Report \cup {NoOutcome}
         /\ W.report.state # "retriable"
<1>1. work \in [state : WorkState, build : Build \cup {"none"}]
  BY DEF WTypeOK
<1>2. W \in WorkState
  BY <1>1 DEF W
<1> QED
  BY <1>1, <1>2 DEF WorkState, Report, NoOutcome

LEMMA PcTyped ==
  \A pc \in {"idle", "source", "credentials", "vm", "complete", "ack", "exited"} : pc \in Pc
BY DEF Pc

LEMMA ReportsTyped ==
  /\ NoOutcome \in Report \cup {NoOutcome} /\ NoOutcome.elapsed = 0
  /\ NoOutcome.state # "succeeded"
  /\ \A x \in BOOLEAN : /\ EarlyFailure(x) \in Report /\ EarlyFailure(x).elapsed = 0
                        /\ EarlyFailure(x).state # "succeeded"
  /\ \A r \in Report : r.elapsed \in 0..Reserved
BY NumbersTyped DEF NoOutcome, EarlyFailure, Report

LEMMA FreshTyped ==
  /\ Fresh \in WorkState /\ [Fresh EXCEPT !.pc = "exited"] \in WorkState
  /\ Fresh.pc = "idle" /\ Fresh.attempt = NoAttempt /\ Fresh.report = NoOutcome
  /\ [Fresh EXCEPT !.pc = "exited"].pc = "exited"
  /\ [Fresh EXCEPT !.pc = "exited"].attempt = NoAttempt
  /\ [Fresh EXCEPT !.pc = "exited"].report = NoOutcome
BY PcTyped, ReportsTyped, NumbersTyped DEF Fresh, WorkState, NoAttempt

-----------------------------------------------------------------------------
(* The steps of the worker, apart from taking an attempt and starting or     *)
(* ending its machine.                                                       *)

Quiet ==
  /\ work' \in [state : WorkState, build : Build \cup {"none"}]
  /\ \/ UNCHANGED work
     \/ W'.pc \in {"idle", "exited"} /\ W'.attempt = NoAttempt /\ W'.report = NoOutcome
     \/ /\ OnAttempt /\ W'.pc \notin {"idle", "exited"}
        /\ work'.build = work.build /\ W'.attempt = W.attempt
        /\ \/ W'.pc = W.pc /\ W'.report = W.report
           \/ W.pc = "source" /\ W'.pc = "credentials"
           \/ /\ W.pc \in Before /\ W'.pc = "complete"
              /\ W'.report.elapsed = 0

\* Attempts are not forgotten, nor are launches.
AttemptsGrow ==
  \A b \in Build, n \in AttemptNo :
    /\ attempts[b][n].state # "absent" => attempts'[b][n].state # "absent"
    /\ attempts[b][n].launched => attempts'[b][n].launched

LEMMA QuietKeeps ==
  ASSUME WInv, Quiet, AttemptsGrow, UNCHANGED machines
  PROVE  /\ WorkInv'
         /\ \A b \in Build, r \in Request \cup {NoTxn} : SentInv(b, r) => SentInv(b, r)'
<1>0. WorkInv /\ WTypeOK
  BY DEF WInv
<1>1. WorkInv'
  <2>1. CASE UNCHANGED work
    BY <1>0, <2>1 DEF WorkInv, AttemptsGrow, OnAttempt, W
  <2>2. CASE W'.pc \in {"idle", "exited"} /\ W'.attempt = NoAttempt /\ W'.report = NoOutcome
    BY <2>2 DEF WorkInv, OnAttempt
  <2>3. CASE /\ OnAttempt /\ W'.pc \notin {"idle", "exited"}
             /\ work'.build = work.build /\ W'.attempt = W.attempt
             /\ \/ W'.pc = W.pc /\ W'.report = W.report
                \/ W.pc = "source" /\ W'.pc = "credentials"
                \/ W.pc \in Before /\ W'.pc = "complete" /\ W'.report.elapsed = 0
    <3>1. CASE W'.pc = W.pc /\ W'.report = W.report
      BY <1>0, <2>3, <3>1 DEF WorkInv, AttemptsGrow, OnAttempt
    <3>2. CASE W.pc = "source" /\ W'.pc = "credentials"
      BY <1>0, <2>3, <3>2 DEF WorkInv, AttemptsGrow, OnAttempt, Before
    <3>3. CASE W.pc \in Before /\ W'.pc = "complete" /\ W'.report.elapsed = 0
      BY <1>0, <2>3, <3>3 DEF WorkInv, AttemptsGrow, OnAttempt, Before
    <3> QED
      BY <2>3, <3>1, <3>2, <3>3
  <2> QED BY <2>1, <2>2, <2>3 DEF Quiet
<1>2. ASSUME NEW b \in Build, NEW r \in Request \cup {NoTxn}, SentInv(b, r)
      PROVE  SentInv(b, r)'
  <2>1. CASE r.op # "complete"
    BY <2>1 DEF SentInv
  <2>2. CASE r.op = "complete"
    <3>1. r.attempt \in AttemptNo
      BY <2>2, RequestsTyped
    <3>2. work'.build = b /\ W'.attempt = r.attempt => W'.pc \notin {"source", "credentials", "vm"}
      BY <1>2, <2>2, <3>1 DEF SentInv, Quiet, Before, W, OnAttempt
    <3> QED
      BY <1>2, <2>2, <3>1, <3>2 DEF SentInv, AttemptsGrow
  <2> QED BY <2>1, <2>2
<1> QED BY <1>1, <1>2

\* What the worker does with an answer or an error is quiet.
LEMMA StateUpdate ==
  ASSUME NEW w \in WorkState, NEW pc \in Pc, NEW r \in Report \cup {NoOutcome}
  PROVE  /\ [w EXCEPT !.pc = pc, !.asked = FALSE] \in WorkState
         /\ [w EXCEPT !.pc = pc, !.asked = FALSE, !.report = r] \in WorkState
         /\ [w EXCEPT !.asked = FALSE, !.fenced = TRUE] \in WorkState
         /\ [w EXCEPT !.asked = TRUE] \in WorkState
         /\ [w EXCEPT !.pc = pc, !.fenced = FALSE, !.report = r] \in WorkState
BY DEF WorkState

LEMMA WorkUpdate ==
  ASSUME WTypeOK, NEW w \in WorkState, work' = [work EXCEPT !.state = w]
  PROVE  /\ work' \in [state : WorkState, build : Build \cup {"none"}]
         /\ W' = w /\ work'.build = work.build
BY DEF WTypeOK, W

LEMMA StopIsQuiet ==
  ASSUME WTypeOK, Stop \/ Done
  PROVE  Quiet
<1>1. PICK w \in WorkState : /\ work' = [state |-> w, build |-> "none"]
                             /\ w.pc \in {"idle", "exited"} /\ w.attempt = NoAttempt
                             /\ w.report = NoOutcome
  BY FreshTyped DEF Stop, Done
<1>2. W' = w /\ work' \in [state : WorkState, build : Build \cup {"none"}]
  BY <1>1 DEF W
<1> QED
  BY <1>1, <1>2 DEF Quiet

LEMMA FailEarlyIsQuiet ==
  ASSUME WTypeOK, WorkInv, NEW x \in BOOLEAN, W.pc \in Before, FailEarly(x)
  PROVE  Quiet
<1> DEFINE w == [W EXCEPT !.pc = "complete", !.asked = FALSE, !.report = EarlyFailure(x)]
<1>1. w \in WorkState /\ work' = [work EXCEPT !.state = w]
  BY WorkTyped, StateUpdate, PcTyped, ReportsTyped DEF FailEarly, W
<1>2. w.pc = "complete" /\ w.attempt = W.attempt /\ w.report = EarlyFailure(x)
  BY WorkTyped DEF WorkState
<1> HIDE DEF w
<1>3. /\ work' \in [state : WorkState, build : Build \cup {"none"}]
      /\ W' = w /\ work'.build = work.build
  BY <1>1, WorkUpdate
<1> QED
  BY <1>2, <1>3, ReportsTyped DEF Quiet, OnAttempt, Before

LEMMA GotoIsQuiet ==
  ASSUME WTypeOK, NEW pc \in Pc, Goto(pc),
         (W.pc = pc /\ OnAttempt) \/ (W.pc = "source" /\ pc = "credentials")
  PROVE  Quiet
<1> DEFINE w == [W EXCEPT !.pc = pc, !.asked = FALSE]
<1>1. w \in WorkState /\ work' = [work EXCEPT !.state = w]
  BY WorkTyped, StateUpdate, ReportsTyped DEF Goto, W
<1>2. w.pc = pc /\ w.attempt = W.attempt /\ w.report = W.report
  BY WorkTyped DEF WorkState
<1> HIDE DEF w
<1>3. /\ work' \in [state : WorkState, build : Build \cup {"none"}]
      /\ W' = w /\ work'.build = work.build
  BY <1>1, WorkUpdate
<1> QED
  BY <1>2, <1>3 DEF Quiet, OnAttempt

LEMMA FailedIsQuiet ==
  ASSUME WTypeOK, WorkInv, Failed
  PROVE  Quiet
<1>1. CASE W.pc = "source"
  BY <1>1, FailEarlyIsQuiet DEF Failed, Before
<1>2. CASE W.pc = "credentials"
  BY <1>2, FailEarlyIsQuiet DEF Failed, Before
<1>3. CASE W.pc = "vm"
  <2> DEFINE w == [W EXCEPT !.asked = FALSE, !.fenced = TRUE]
  <2>1. w \in WorkState
    BY WorkTyped, StateUpdate, PcTyped, ReportsTyped
  <2>2. work' = [work EXCEPT !.state = w]
    BY <1>3 DEF Failed, W
  <2>3. w.pc = W.pc /\ w.attempt = W.attempt /\ w.report = W.report
    BY WorkTyped DEF WorkState
  <2> HIDE DEF w
  <2>4. /\ work' \in [state : WorkState, build : Build \cup {"none"}]
        /\ W' = w /\ work'.build = work.build
    BY <2>1, <2>2, WorkUpdate
  <2> QED
    BY <1>3, <2>3, <2>4 DEF Quiet, OnAttempt
<1>4. CASE W.pc \notin {"source", "credentials", "vm"}
  BY <1>4, StopIsQuiet DEF Failed
<1> QED BY <1>1, <1>2, <1>3, <1>4

-----------------------------------------------------------------------------
(* The queue's steps as the worker sees them. *)

\* Nothing was launched, billed or started for a build that waits for its lease.
LEMMA Unlaunched ==
  ASSUME WInv, NEW b \in Build, builds[b].state \in {"absent", "queued", "retriable"},
         NEW n \in AttemptNo
  PROVE  ~ attempts[b][n].launched /\ debits[b][n] = 0 /\ <<b, n>> \notin machines
<1>1. LaunchInv(b, n) /\ debits[b][n] \in Nat
  BY RowsTyped DEF WInv, QueueInv
<1> QED
  BY <1>1 DEF LaunchInv

LEMMA Grows ==
  ASSUME WInv, NEW b \in Build, OnlyBuild(b),
         \A n \in AttemptNo : /\ attempts[b][n].state # "absent" => attempts'[b][n].state # "absent"
                              /\ attempts[b][n].launched => attempts'[b][n].launched
  PROVE  AttemptsGrow
<1>1. ASSUME NEW c \in Build, NEW n \in AttemptNo
      PROVE  /\ attempts[c][n].state # "absent" => attempts'[c][n].state # "absent"
             /\ attempts[c][n].launched => attempts'[c][n].launched
  <2>1. CASE c = b
    BY <2>1
  <2>2. CASE c # b
    BY <2>2 DEF OnlyBuild
  <2> QED BY <2>1, <2>2
<1> QED BY <1>1 DEF AttemptsGrow

\* What a step of build b has to show of launches; the other builds follow.
LEMMA LaunchElsewhere ==
  ASSUME WInv, NEW b \in Build, OnlyBuild(b), machines' \ machines \subseteq {b} \X AttemptNo,
         \A n \in AttemptNo : LaunchInv(b, n)'
  PROVE  \A c \in Build, n \in AttemptNo : LaunchInv(c, n)'
<1>1. ASSUME NEW c \in Build, NEW n \in AttemptNo PROVE LaunchInv(c, n)'
  <2>1. CASE c = b
    BY <2>1
  <2>2. CASE c # b
    <3>1. LaunchInv(c, n) /\ (<<c, n>> \in machines' => <<c, n>> \in machines)
      BY <2>2 DEF WInv
    <3> QED
      BY <2>2, <3>1 DEF LaunchInv, OnlyBuild, ReportedGone
  <2> QED BY <2>1, <2>2
<1> QED BY <1>1

LEMMA EnqueueLaunch ==
  ASSUME WInv, NEW b \in Build, Enqueue(b), UNCHANGED machines
  PROVE  /\ OnlyBuild(b) /\ AttemptsGrow /\ \A n \in AttemptNo : LaunchInv(b, n)'
<1>1. OnlyBuild(b) /\ UNCHANGED <<attempts, debits>> /\ builds[b].state = "absent"
  BY DEF WInv, QueueInv, TypeOK, Enqueue, OnlyBuild
<1>2. \A n \in AttemptNo : LaunchInv(b, n)'
  BY <1>1, Unlaunched DEF LaunchInv
<1> QED
  BY <1>1, <1>2 DEF AttemptsGrow

LEMMA GrantLaunch ==
  ASSUME WInv, NEW b \in Build, LeaseGrant(b), UNCHANGED machines
  PROVE  /\ OnlyBuild(b) /\ AttemptsGrow /\ \A n \in AttemptNo : LaunchInv(b, n)'
         /\ builds[b].attempt_count + 1 \in AttemptNo
         /\ attempts[b][builds[b].attempt_count + 1].state = "absent"
         /\ attempts'[b][builds[b].attempt_count + 1].state = "running"
         /\ txn'[b] = NoTxn /\ waiting'[b].req = waiting[b].req
<1>0. /\ BuildInv(b) /\ builds[b] \in BuildRow /\ builds[b].state \in {"queued", "retriable"}
      /\ builds[b].attempt_count < MaxAttempts
  BY RowsTyped DEF WInv, QueueInv, LeaseGrant, BuildInv, LockInv, Claimable
<1>1. PICK n \in AttemptNo : n = builds[b].attempt_count + 1 /\ builds[b].attempt_count \in Nat
  BY <1>0, FieldsTyped, NumbersTyped
<1>2. attempts[b][n].state = "absent"
  BY <1>0, <1>1 DEF BuildInv, AttemptInv
<1>3. /\ UNCHANGED debits /\ \A c \in Build \ {b} : attempts'[c] = attempts[c]
      /\ \A m \in AttemptNo \ {n} : attempts'[b][m] = attempts[b][m]
      /\ attempts'[b][n].state = "running" /\ attempts'[b][n].launched = FALSE
  <2> DEFINE row == [state |-> "running", fence |-> builds[b].current_fence + 1, launched |-> FALSE]
  <2>1. row.state = "running" /\ row.launched = FALSE
    OBVIOUS
  <2>2. attempts' = [attempts EXCEPT ![b][n] = row] /\ UNCHANGED debits
    BY <1>1 DEF LeaseGrant
  <2> HIDE DEF row
  <2> QED
    BY <2>1, <2>2 DEF WInv, QueueInv, TypeOK
<1>4. /\ Touch(b) /\ Release(b) /\ UNCHANGED <<effects, receipts, usage, debits>>
      /\ \A c \in Build \ {b} : builds'[c] = builds[c]
  BY DEF LeaseGrant, Release, WInv, QueueInv, TypeOK
<1>5. OnlyBuild(b) /\ txn'[b] = NoTxn /\ waiting'[b].req = waiting[b].req
  BY <1>3, <1>4, TouchEffect, ReleaseLock DEF OnlyBuild, WInv
<1>6. \A m \in AttemptNo : attempts'[b][m].launched = FALSE \/ ~ attempts'[b][m].launched
  BY <1>0, <1>3, Unlaunched
<1>7. \A m \in AttemptNo : LaunchInv(b, m)'
  BY <1>0, <1>3, <1>6, Unlaunched DEF LaunchInv
<1>8. AttemptsGrow
  BY <1>0, <1>3, <1>5, Unlaunched, Grows
<1> QED
  BY <1>1, <1>2, <1>3, <1>5, <1>7, <1>8

LEMMA StaleLaunch ==
  ASSUME WInv, NEW b \in Build, LeaseStale(b), UNCHANGED machines
  PROVE  /\ OnlyBuild(b) /\ AttemptsGrow /\ \A n \in AttemptNo : LaunchInv(b, n)'
         /\ txn'[b] = NoTxn /\ waiting'[b].req = waiting[b].req
<1>0. BuildInv(b) /\ builds[b].state \in {"queued", "retriable"}
  BY DEF WInv, QueueInv, LeaseStale, BuildInv, LockInv, Claimable
<1>1. /\ Touch(b) /\ Release(b) /\ UNCHANGED <<attempts, effects, receipts, debits>>
      /\ \A c \in Build \ {b} : builds'[c] = builds[c] /\ usage'[c] = usage[c]
  BY DEF LeaseStale, Release, Settle, WInv, QueueInv, TypeOK
<1>2. OnlyBuild(b) /\ txn'[b] = NoTxn /\ waiting'[b].req = waiting[b].req
  BY <1>1, TouchEffect, ReleaseLock DEF OnlyBuild, WInv
<1>3. \A m \in AttemptNo : LaunchInv(b, m)'
  BY <1>0, <1>1, Unlaunched DEF LaunchInv
<1> QED
  BY <1>1, <1>2, <1>3 DEF AttemptsGrow

LEMMA CancelLaunch ==
  ASSUME WInv, NEW b \in Build, Cancel(b), UNCHANGED machines
  PROVE  /\ OnlyBuild(b) /\ AttemptsGrow /\ \A n \in AttemptNo : LaunchInv(b, n)'
         /\ UNCHANGED txn /\ waiting'[b].req = waiting[b].req
<1>0. BuildInv(b) /\ builds[b] \in BuildRow /\ builds[b].state \in Open
  BY RowsTyped DEF WInv, QueueInv, Cancel, Cancelable
<1>1. /\ Touch(b) /\ UNCHANGED <<effects, receipts, debits, txn>>
      /\ \A c \in Build \ {b} : builds'[c] = builds[c] /\ usage'[c] = usage[c]
                                /\ attempts'[c] = attempts[c]
  BY DEF Cancel, CancelSettles, Settle, CloseAttempt, WInv, QueueInv, TypeOK
<1>2. OnlyBuild(b) /\ waiting'[b].req = waiting[b].req
  BY <1>1, TouchEffect DEF OnlyBuild, WInv
<1>3. /\ builds'[b].state = "canceled" /\ builds'[b].attempt_count = builds[b].attempt_count
      /\ builds[b].state = "running" => builds'[b].cleanup = "pending"
  <2> DEFINE u == IF builds[b].current_attempt # NoAttempt THEN "pending" ELSE "not_started"
             row == [builds[b] EXCEPT !.state = "canceled", !.current_attempt = NoAttempt,
                                      !.current_fence = builds[b].current_fence + 1,
                                      !.lease = NoLease, !.cleanup = u]
  <2>1. builds[b].state = "running" => u = "pending"
    BY <1>0 DEF BuildInv, RowInv
  <2>2. builds'[b] = row
    BY DEF Cancel, WInv, QueueInv, TypeOK
  <2> HIDE DEF u
  <2>3. row.state = "canceled" /\ row.attempt_count = builds[b].attempt_count /\ row.cleanup = u
    BY <1>0 DEF BuildRow
  <2> QED
    BY <2>1, <2>2, <2>3
<1>4. \A m \in AttemptNo : /\ attempts'[b][m].launched = attempts[b][m].launched
                           /\ attempts[b][m].state # "absent" => attempts'[b][m].state # "absent"
  <2>1. CASE UNCHANGED attempts
    BY <2>1
  <2>2. ASSUME NEW n \in AttemptNo, CloseAttempt(b, n, "canceled"),
               attempts[b][n].state = "running", NEW m \in AttemptNo
        PROVE  /\ attempts'[b][m].launched = attempts[b][m].launched
               /\ attempts[b][m].state # "absent" => attempts'[b][m].state # "absent"
    <3>1. /\ \A k \in AttemptNo \ {n} : attempts'[b][k] = attempts[b][k]
          /\ attempts'[b][n].state = "canceled"
          /\ attempts'[b][n].launched = attempts[b][n].launched
      BY <2>2, CloseEffect, StatesAreValues DEF WInv
    <3> QED
      BY <3>1
  <2>3. CASE builds[b].current_attempt # NoAttempt
    <3>1. builds[b].current_attempt \in AttemptNo
      BY <1>0, <2>3, FieldsTyped, NumbersTyped
    <3>2. attempts[b][builds[b].current_attempt].state = "running"
      BY <1>0, <2>3 DEF BuildInv, RowInv, Holds
    <3>3. CloseAttempt(b, builds[b].current_attempt, "canceled")
      BY <2>3 DEF Cancel
    <3> QED
      BY <2>2, <3>1, <3>2, <3>3
  <2>4. CASE builds[b].current_attempt = NoAttempt
    BY <2>1, <2>4 DEF Cancel
  <2> QED BY <2>3, <2>4
<1>5. ASSUME NEW m \in AttemptNo PROVE LaunchInv(b, m)'
  <2>1. LaunchInv(b, m)
    BY DEF WInv
  <2>2. CASE builds[b].state = "running"
    BY <1>1, <1>3, <1>4, <2>1, <2>2 DEF LaunchInv, Active
  <2>3. CASE builds[b].state # "running"
    BY <1>0, <1>1, <1>4, <2>3, Unlaunched DEF LaunchInv, Open
  <2> QED BY <2>2, <2>3
<1>6. AttemptsGrow
  BY <1>2, <1>4, Grows
<1> QED
  BY <1>1, <1>2, <1>5, <1>6

\* No row's state, and no launch, debit or machine, is touched.
LEMMA SameLaunch ==
  ASSUME WInv, UNCHANGED <<attempts, debits, receipts>>, machines' \subseteq machines,
         \A c \in Build : /\ builds'[c].state = builds[c].state
                          /\ builds'[c].attempt_count = builds[c].attempt_count
                          /\ builds'[c].cleanup = builds[c].cleanup
  PROVE  AttemptsGrow /\ \A c \in Build, n \in AttemptNo : LaunchInv(c, n)'
<1>1. AttemptsGrow
  BY DEF AttemptsGrow
<1>2. ASSUME NEW c \in Build, NEW n \in AttemptNo PROVE LaunchInv(c, n)'
  <2>1. LaunchInv(c, n)
    BY DEF WInv
  <2> QED
    BY <2>1 DEF LaunchInv, Active, ReportedGone
<1> QED BY <1>1, <1>2

LEMMA CredentialsLaunch ==
  ASSUME WInv, NEW b \in Build, CredentialsCommit(b),
         machines' \subseteq machines \cup {<<b, txn[b].attempt>>}
  PROVE  /\ OnlyBuild(b) /\ AttemptsGrow /\ \A n \in AttemptNo : LaunchInv(b, n)'
         /\ txn[b].attempt \in AttemptNo /\ attempts'[b][txn[b].attempt].launched
         /\ attempts'[b][txn[b].attempt].state # "absent"
         /\ txn'[b] = NoTxn /\ waiting'[b].req = waiting[b].req
<1>0. PICK n \in AttemptNo : /\ n = txn[b].attempt /\ attempts[b][n].state = "running"
                             /\ builds[b].state = "running" /\ n = builds[b].attempt_count
  BY HolderRuns DEF WInv, CredentialsCommit, Holds
<1>1. UNCHANGED <<builds, effects, receipts, usage, debits>> /\ Touch(b) /\ Release(b)
  BY DEF CredentialsCommit
<1>2. /\ \A c \in Build \ {b} : attempts'[c] = attempts[c]
      /\ \A m \in AttemptNo \ {n} : attempts'[b][m] = attempts[b][m]
      /\ attempts'[b][n].launched /\ attempts'[b][n].state = "running"
  <2>1. attempts \in [Build -> [AttemptNo -> AttemptRow]] /\ attempts[b][n] \in AttemptRow
    BY <1>0 DEF WInv, QueueInv, TypeOK
  <2> DEFINE row == [attempts[b][n] EXCEPT !.launched = TRUE]
  <2>2. row.state = "running" /\ row.launched
    BY <1>0, <2>1 DEF AttemptRow
  <2>3. attempts' = [attempts EXCEPT ![b][n] = row]
    BY <1>0, <2>1 DEF CredentialsCommit
  <2> HIDE DEF row
  <2> QED
    BY <2>1, <2>2, <2>3
<1>3. OnlyBuild(b) /\ txn'[b] = NoTxn /\ waiting'[b].req = waiting[b].req
  BY <1>1, <1>2, TouchEffect, ReleaseLock DEF OnlyBuild, WInv
<1>4. AttemptsGrow
  <2>1. \A m \in AttemptNo : /\ attempts[b][m].state # "absent" => attempts'[b][m].state # "absent"
                             /\ attempts[b][m].launched => attempts'[b][m].launched
    BY <1>0, <1>2
  <2> QED
    BY <1>3, <2>1, Grows
<1>5. ASSUME NEW m \in AttemptNo PROVE LaunchInv(b, m)'
  <2>1. LaunchInv(b, m)
    BY DEF WInv
  <2>2. CASE m = n
    BY <1>0, <1>1, <1>2, <2>2 DEF LaunchInv, Active
  <2>3. CASE m # n
    <3>1. attempts'[b][m] = attempts[b][m] /\ (<<b, m>> \in machines' => <<b, m>> \in machines)
      BY <1>0, <1>2, <2>3
    <3> QED
      BY <1>0, <1>1, <2>1, <3>1 DEF LaunchInv, ReportedGone
  <2> QED BY <2>2, <2>3
<1> QED
  BY <1>0, <1>2, <1>3, <1>4, <1>5

LEMMA CompleteLaunch ==
  ASSUME WInv, NEW b \in Build, CompleteCommit(b), UNCHANGED machines
  PROVE  /\ OnlyBuild(b) /\ AttemptsGrow /\ \A n \in AttemptNo : LaunchInv(b, n)'
         /\ txn'[b] = NoTxn /\ waiting'[b].req = waiting[b].req
<1>0. /\ QueueInv /\ Holds(b, txn[b].attempt) /\ txn[b].attempt \in AttemptNo
      /\ txn[b].outcome \in Completion /\ builds[b].state = "running" /\ SentInv(b, txn[b])
      /\ txn[b].op = "complete"
  BY HolderRuns, RequestsTyped DEF WInv, CompleteCommit, Holds
<1>1. PICK n \in AttemptNo : n = txn[b].attempt
  BY <1>0
<1>2. PICK c \in Completion : c = txn[b].outcome
  BY <1>0
<1>3. /\ c.state \in {"succeeded", "failed"} /\ c.elapsed \in 0..Reserved
      /\ c.cleanup \in {"confirmed", "pending"} /\ c.cleanup \in Cleanup
      /\ c.elapsed > 0 => attempts[b][n].launched
      /\ c.state = "succeeded" => <<b, n>> \notin machines
  BY <1>0, <1>1, <1>2, OutcomesTyped, StatesAreValues DEF SentInv
<1>4. /\ Debit(b, n, c.elapsed) /\ CloseAttempt(b, n, c.state) /\ Release(b) /\ Touch(b)
      /\ ClosesRow(b, c.state, c.cleanup) /\ Holds(b, n)
  BY <1>0, <1>1, <1>2 DEF CompleteCommit, Recorded, ClosesRow
<1>5. \A d \in Build \ {b} : usage'[d] = usage[d] /\ receipts'[d] = receipts[d]
                             /\ effects'[d] = effects[d]
  BY <1>0 DEF CompleteCommit, Settle, QueueInv, TypeOK
<1>c. /\ receipts'[b][n] = c
      /\ \A m \in AttemptNo \ {n} : receipts'[b][m] = receipts[b][m]
  BY <1>0, <1>1, <1>2 DEF CompleteCommit, QueueInv, TypeOK
<1>6. ClosedAs(b, n, c.state, c.cleanup)
  BY <1>0, <1>3, <1>4, Closing
<1>7. /\ \A d \in Build \ {b} : builds'[d] = builds[d] /\ attempts'[d] = attempts[d]
      /\ \A m \in AttemptNo \ {n} : attempts'[b][m] = attempts[b][m]
      /\ attempts'[b][n].launched = attempts[b][n].launched
      /\ attempts'[b][n].state = c.state /\ n = builds[b].attempt_count
      /\ builds'[b].state = c.state /\ builds'[b].attempt_count = n
      /\ builds'[b].cleanup = c.cleanup /\ builds[b].state \in Open
  BY <1>6 DEF ClosedAs, RowIs
<1>8. \A m \in AttemptNo : debits[b][m] = 0
  BY <1>0, <1>7, OpenUndecided, NotBilledYet
<1>9. /\ \A d \in Build \ {b} : debits'[d] = debits[d]
      /\ \A m \in AttemptNo \ {n} : debits'[b][m] = 0
      /\ debits'[b][n] = c.elapsed
  BY <1>0, <1>3, <1>4, <1>8, DebitEffect
<1>10. OnlyBuild(b) /\ txn'[b] = NoTxn /\ waiting'[b].req = waiting[b].req
  BY <1>0, <1>4, <1>5, <1>7, <1>9, TouchEffect, ReleaseLock DEF OnlyBuild
<1>11. AttemptsGrow
  <2>1. \A m \in AttemptNo : /\ attempts[b][m].state # "absent" => attempts'[b][m].state # "absent"
                             /\ attempts[b][m].launched => attempts'[b][m].launched
    BY <1>3, <1>7
  <2> QED
    BY <1>10, <2>1, Grows
<1>12. ASSUME NEW m \in AttemptNo PROVE LaunchInv(b, m)'
  <2>1. LaunchInv(b, m)
    BY DEF WInv
  <2>2. CASE m = n
    <3>1. /\ debits'[b][m] = c.elapsed /\ attempts'[b][m].launched = attempts[b][m].launched
          /\ builds'[b].attempt_count = m /\ builds'[b].state = c.state
          /\ builds'[b].cleanup = c.cleanup /\ receipts'[b][m] = c
      BY <1>7, <1>9, <1>c, <2>2
    <3> QED
      BY <1>3, <2>1, <2>2, <3>1 DEF LaunchInv, Active, ReportedGone
  <2>3. CASE m # n
    <3>1. ~ attempts[b][m].launched
      BY <1>7, <2>1, <2>3 DEF LaunchInv
    <3> QED
      BY <1>7, <1>9, <2>1, <2>3, <3>1 DEF LaunchInv
  <2> QED BY <2>2, <2>3
<1> QED
  BY <1>10, <1>11, <1>12

LEMMA ReapLaunch ==
  ASSUME WInv, NEW b \in Build, NEW seconds \in 0..Reserved, Reap(b, seconds), UNCHANGED machines
  PROVE  /\ OnlyBuild(b) /\ AttemptsGrow /\ \A n \in AttemptNo : LaunchInv(b, n)'
         /\ UNCHANGED txn /\ waiting'[b].req = waiting[b].req
<1>0. /\ QueueInv /\ BuildInv(b) /\ builds[b] \in BuildRow /\ builds[b].state = "running"
  BY RowsTyped DEF WInv, QueueInv, Reap, Expired
<1>1. PICK n \in AttemptNo : n = builds[b].current_attempt /\ Holds(b, n)
  BY <1>0, FieldsTyped, NumbersTyped DEF BuildInv, RowInv, Holds
<1>2. PICK s \in {"failed", "retriable"} : s = IF ReapTerminal(b, n) THEN "failed" ELSE "retriable"
  OBVIOUS
<1>3. PICK u \in Cleanup : u = ReapCleanup(b, n)
  BY <1>0, FieldsTyped, StatesAreValues DEF ReapCleanup
<1>4. /\ CloseAttempt(b, n, s) /\ ClosesRow(b, s, u) /\ Touch(b)
      /\ seconds \in ReapSeconds(b, n) /\ UNCHANGED <<receipts, txn>>
      /\ s = "failed" => Debit(b, n, seconds)
      /\ s = "retriable" => UNCHANGED debits
  BY <1>1, <1>2, <1>3 DEF Reap, ClosesRow
<1>5. \A d \in Build \ {b} : usage'[d] = usage[d] /\ effects'[d] = effects[d]
  BY <1>0 DEF Reap, Settle, QueueInv, TypeOK
<1>6. ClosedAs(b, n, s, u)
  BY <1>0, <1>1, <1>4, Closing
<1>7. /\ \A d \in Build \ {b} : builds'[d] = builds[d] /\ attempts'[d] = attempts[d]
      /\ \A m \in AttemptNo \ {n} : attempts'[b][m] = attempts[b][m]
      /\ attempts'[b][n].launched = attempts[b][n].launched
      /\ attempts'[b][n].state = s /\ n = builds[b].attempt_count
      /\ builds'[b].state = s /\ builds'[b].attempt_count = n
      /\ builds'[b].cleanup = u /\ builds[b].state \in Open
  BY <1>6 DEF ClosedAs, RowIs
<1>8. \A m \in AttemptNo : debits[b][m] = 0
  BY <1>0, <1>7, OpenUndecided, NotBilledYet
<1>9. /\ \A d \in Build \ {b} : debits'[d] = debits[d]
      /\ \A m \in AttemptNo \ {n} : debits'[b][m] = 0
      /\ debits'[b][n] > 0 => seconds > 0
  <2>1. CASE s = "failed"
    BY <1>0, <1>4, <1>8, <2>1, DebitEffect
  <2>2. CASE s = "retriable"
    BY <1>4, <1>8, <2>2
  <2> QED BY <2>1, <2>2
<1>10. /\ attempts[b][n].launched => s = "failed" /\ u = "pending"
       /\ seconds > 0 => attempts[b][n].launched
  BY <1>2, <1>3, <1>4 DEF ReapTerminal, ReapCleanup, ReapSeconds
<1>11. OnlyBuild(b) /\ waiting'[b].req = waiting[b].req
  BY <1>0, <1>4, <1>5, <1>7, <1>9, TouchEffect DEF OnlyBuild
<1>12. AttemptsGrow
  <2>1. \A m \in AttemptNo : /\ attempts[b][m].state # "absent" => attempts'[b][m].state # "absent"
                             /\ attempts[b][m].launched => attempts'[b][m].launched
    BY <1>2, <1>7
  <2> QED
    BY <1>11, <2>1, Grows
<1>13. ASSUME NEW m \in AttemptNo PROVE LaunchInv(b, m)'
  <2>1. LaunchInv(b, m)
    BY DEF WInv
  <2>2. CASE m = n
    <3>1. /\ debits'[b][m] > 0 => attempts[b][m].launched
          /\ attempts'[b][m].launched = attempts[b][m].launched
          /\ attempts[b][m].launched => builds'[b].state = "failed" /\ builds'[b].cleanup = "pending"
          /\ builds'[b].attempt_count = m
      BY <1>7, <1>9, <1>10, <2>2
    <3> QED
      BY <2>1, <3>1 DEF LaunchInv, Active
  <2>3. CASE m # n
    BY <1>7, <1>9, <2>1, <2>3 DEF LaunchInv
  <2> QED BY <2>2, <2>3
<1> QED
  BY <1>4, <1>11, <1>12, <1>13

LEMMA AcknowledgeLaunch ==
  ASSUME WInv, NEW b \in Build, NEW n \in AttemptNo, NEW s \in 0..Reserved, CancelAck(b, n, s),
         attempts[b][n].launched, UNCHANGED machines
  PROVE  /\ OnlyBuild(b) /\ AttemptsGrow /\ \A m \in AttemptNo : LaunchInv(b, m)'
         /\ UNCHANGED txn /\ waiting'[b].req = waiting[b].req
<1>0. /\ QueueInv /\ BuildInv(b) /\ builds[b] \in BuildRow
      /\ builds[b].state = "canceled" /\ builds[b].cleanup = "pending"
  BY RowsTyped DEF WInv, QueueInv, CancelAck
<1>1. Debit(b, n, s) /\ Touch(b) /\ UNCHANGED <<attempts, effects, txn>>
  BY DEF CancelAck
<1>2. \A m \in AttemptNo : debits[b][m] = 0
  BY <1>0, NotBilledYet DEF BuildInv, MeterInv
<1>3. /\ \A d \in Build \ {b} : debits'[d] = debits[d]
      /\ \A m \in AttemptNo \ {n} : debits'[b][m] = 0
  BY <1>0, <1>1, <1>2, DebitEffect
<1>4. \A d \in Build \ {b} : builds'[d] = builds[d] /\ usage'[d] = usage[d]
                             /\ receipts'[d] = receipts[d]
  BY <1>0 DEF CancelAck, Settle, QueueInv, TypeOK
<1>5. builds'[b].state = builds[b].state /\ builds'[b].attempt_count = builds[b].attempt_count
  <2>1. builds'[b] = [builds[b] EXCEPT !.cleanup = "confirmed"]
    BY <1>0 DEF CancelAck, QueueInv, TypeOK
  <2> QED
    BY <1>0, <2>1 DEF BuildRow
<1>6. OnlyBuild(b) /\ AttemptsGrow /\ waiting'[b].req = waiting[b].req
  BY <1>0, <1>1, <1>3, <1>4, TouchEffect DEF OnlyBuild, AttemptsGrow
<1>c. ReportedGone(b, n)'
  <2>1. receipts'[b][n] = Acknowledged(s)
    BY <1>0 DEF CancelAck, QueueInv, TypeOK
  <2> QED
    BY <2>1 DEF ReportedGone, Acknowledged
<1>7. ASSUME NEW m \in AttemptNo PROVE LaunchInv(b, m)'
  <2>1. LaunchInv(b, m) /\ LaunchInv(b, n)
    BY DEF WInv
  <2>2. CASE m = n
    BY <1>1, <1>5, <1>c, <2>1, <2>2 DEF LaunchInv
  <2>3. CASE m # n
    <3>1. ~ attempts[b][m].launched
      BY <2>1, <2>3 DEF LaunchInv
    <3> QED
      BY <1>1, <1>3, <1>5, <2>1, <2>3, <3>1 DEF LaunchInv
  <2> QED BY <2>2, <2>3
<1> QED
  BY <1>1, <1>6, <1>7

-----------------------------------------------------------------------------
(* The steps of queue and worker together. *)

\* The requests that are open or waiting after a step were true before it.
Heard(c) ==
  \E r \in TxnRow, q \in Request \cup {NoTxn} :
    txn'[c] = r /\ waiting'[c].req = q /\ SentInv(c, r) /\ SentInv(c, q)

LEMMA Unsent ==
  ASSUME NEW b \in Build
  PROVE  SentInv(b, NoTxn) /\ SentInv(b, LeaseTxn) /\ NoTxn \in TxnRow /\ LeaseTxn \in TxnRow
BY DEF SentInv, NoTxn, LeaseTxn, TxnRow

LEMMA HeardStays ==
  ASSUME WInv, NEW c \in Build, txn'[c] \in {txn[c], NoTxn, LeaseTxn, waiting[c].req},
         waiting'[c].req \in {waiting[c].req, NoTxn}
  PROVE  Heard(c)
<1>1. /\ txn[c] \in TxnRow /\ waiting[c].req \in Request \cup {NoTxn}
      /\ SentInv(c, txn[c]) /\ SentInv(c, waiting[c].req)
  BY RowsTyped DEF WInv, QueueInv, WaitRow
<1>2. waiting[c].req \in TxnRow
  BY <1>1 DEF TxnRow
<1>3. PICK r \in TxnRow : txn'[c] = r /\ SentInv(c, r)
  BY <1>1, <1>2, Unsent
<1>4. PICK q \in Request \cup {NoTxn} : waiting'[c].req = q /\ SentInv(c, q)
  BY <1>1, Unsent
<1> QED
  BY <1>3, <1>4 DEF Heard

LEMMA HeardElsewhere ==
  ASSUME WInv, NEW b \in Build, OnlyBuild(b), Heard(b)
  PROVE  \A c \in Build : Heard(c)
<1>1. ASSUME NEW c \in Build, c # b PROVE Heard(c)
  BY <1>1, HeardStays DEF OnlyBuild
<1> QED BY <1>1

\* Requests, launches and the worker's knowledge survive a quiet step.
LEMMA QuietStep ==
  ASSUME WInv, QueueInv', Quiet, AttemptsGrow, UNCHANGED machines,
         \A c \in Build, n \in AttemptNo : LaunchInv(c, n)', \A c \in Build : Heard(c)
  PROVE  WInv'
<1>1. /\ WorkInv'
      /\ \A b \in Build, r \in Request \cup {NoTxn} : SentInv(b, r) => SentInv(b, r)'
  BY QuietKeeps
<1>2. WTypeOK'
  BY DEF QueueInv, WTypeOK, Quiet, WInv
<1>3. ASSUME NEW c \in Build PROVE SentInv(c, txn[c])' /\ SentInv(c, waiting[c].req)'
  <2>1. PICK r \in TxnRow, q \in Request \cup {NoTxn} :
          txn'[c] = r /\ waiting'[c].req = q /\ SentInv(c, r) /\ SentInv(c, q)
    BY DEF Heard
  <2>2. SentInv(c, r)'
    <3>1. CASE r = LeaseTxn
      BY <3>1 DEF SentInv, LeaseTxn
    <3>2. CASE r # LeaseTxn
      BY <1>1, <2>1, <3>2 DEF TxnRow
    <3> QED BY <3>1, <3>2
  <2>3. SentInv(c, q)'
    BY <1>1, <2>1
  <2> QED
    BY <2>1, <2>2, <2>3 DEF SentInv
<1> QED
  BY <1>1, <1>2, <1>3 DEF WInv

\* A step of one build, beside a quiet step of the worker.
LEMMA QuietBuildStep ==
  ASSUME WInv, QueueInv', Quiet, NEW b \in Build, OnlyBuild(b), AttemptsGrow, UNCHANGED machines,
         \A n \in AttemptNo : LaunchInv(b, n)', Heard(b)
  PROVE  WInv'
BY QuietStep, LaunchElsewhere, HeardElsewhere

LEMMA WorkUnchanged ==
  ASSUME WInv, UNCHANGED work
  PROVE  Quiet
BY DEF WInv, WTypeOK, Quiet

\* Only the worker and its machines move.
LEMMA AloneStep ==
  ASSUME WInv, UNCHANGED vars, Quiet, UNCHANGED machines
  PROVE  WInv'
<1>1. QueueInv'
  BY UnchangedKeeps DEF WInv, vars
<1>2. AttemptsGrow /\ \A c \in Build, n \in AttemptNo : LaunchInv(c, n)'
  BY SameLaunch DEF vars
<1>3. \A c \in Build : Heard(c)
  BY HeardStays DEF vars
<1> QED
  BY <1>1, <1>2, <1>3, QuietStep

\* Who waits for the answer to a request is at the point that sends it.
LEMMA MineAt ==
  ASSUME WInv, NEW b \in Build, NEW r, Mine(b, r)
  PROVE  /\ work.build = b /\ r.attempt = W.attempt
         /\ r.op = "materialize" => W.pc = "source"
         /\ r.op = "credentials" => W.pc = "credentials"
         /\ r.op = "renew" => W.pc = "vm"
         /\ r.op = "complete" => W.pc = "complete"
<1>1. work.build = b /\ r = TheRequest
  BY DEF Mine
<1>2. r.attempt = W.attempt /\ r.op = OpAt(W.pc)
  BY <1>1 DEF TheRequest
<1>3. W.pc \in Pc
  BY WorkTyped DEF WInv
<1>4. /\ OpAt(W.pc) = "materialize" => W.pc = "source"
      /\ OpAt(W.pc) = "credentials" => W.pc = "credentials"
      /\ OpAt(W.pc) = "renew" => W.pc = "vm"
      /\ OpAt(W.pc) = "complete" => W.pc = "complete"
  BY <1>3 DEF OpAt, Pc
<1> QED
  BY <1>1, <1>2, <1>4

\* What the worker sends is true.
LEMMA AskIsTrue ==
  ASSUME WInv, NEW b \in Build, work.build = b, TheRequest \in Request
  PROVE  SentInv(b, TheRequest)
<1>1. W.pc \in Pc /\ W.report.state # "retriable"
  BY WorkTyped DEF WInv
<1>2. CASE TheRequest.op # "complete"
  BY <1>2 DEF SentInv
<1>3. CASE TheRequest.op = "complete"
  <2>1. W.pc = "complete"
    BY <1>1, <1>3 DEF TheRequest, OpAt, Pc
  <2>2. /\ TheRequest.outcome = W.report /\ TheRequest.attempt = W.attempt
    BY <2>1 DEF TheRequest
  <2>3. WorkInv /\ OnAttempt
    BY <2>1 DEF WInv, OnAttempt
  <2>4. /\ W.report.elapsed > 0 => attempts[b][W.attempt].launched
        /\ W.report.state = "succeeded" => <<b, W.attempt>> \notin machines
    BY <2>1, <2>3 DEF WorkInv
  <2> HIDE DEF TheRequest
  <2> QED
    BY <1>1, <2>1, <2>2, <2>4 DEF SentInv
<1> QED BY <1>2, <1>3

\* Every step of queue and worker is a step of the queue or leaves it alone.
LEMMA StepIsQueueStep ==
  ASSUME WInv, [WNext]_wvars
  PROVE  [Next]_vars
<1>1. CASE UNCHANGED wvars
  BY <1>1 DEF wvars
<1>2. ASSUME NEW b \in Build, Poll(b) \/ Ask(b)
      PROVE  Next
  BY <1>2 DEF Poll, Ask, Next
<1>3. ASSUME NEW b \in Build, AskRefused(b) \/ \E n \in AttemptNo : UnitStops(b, n)
      PROVE  UNCHANGED vars
  BY <1>3 DEF AskRefused, UnitStops
<1>4. ASSUME NEW b \in Build,
             \/ Leased(b) \/ NotLeased(b) \/ Materialized(b) \/ SourceRejected(b)
             \/ Resolved(b) \/ Renewed(b) \/ Completed(b) \/ RolledBack(b) \/ Woken(b)
             \/ Elsewhere(b)
      PROVE  Next
  BY <1>4 DEF Leased, NotLeased, Materialized, SourceRejected, Resolved, Renewed, Completed,
              RolledBack, Woken, Elsewhere, Next
<1>5. ASSUME NEW b \in Build, Acknowledge(b)
      PROVE  Next
  <2>1. W.attempt \in AttemptNo /\ W.report \in Report
    BY <1>5 DEF Acknowledge, At, WInv, WorkInv, OnAttempt
  <2>2. W.report.elapsed \in 0..Reserved
    BY <2>1, ReportsTyped
  <2> QED
    BY <1>5, <2>1, <2>2 DEF Acknowledge, Next
<1>6. CASE Time
  BY <1>6 DEF Time, Next
<1>7. ASSUME GiveUp \/ AcknowledgeRefused \/ Crash \/ Restart \/ (\E r \in Report : MachineEnds(r))
      PROVE  UNCHANGED vars
  BY <1>7 DEF MachineEnds, GiveUp, AcknowledgeRefused, Crash, Restart
<1> QED
  BY <1>1, <1>2, <1>3, <1>4, <1>5, <1>6, <1>7 DEF WNext

LEMMA QueueStep ==
  ASSUME WInv, [WNext]_wvars
  PROVE  QueueInv'
BY StepIsQueueStep, StepKeeps DEF WInv

\* The locks change hands, and no row is written.
LEMMA LocksLaunch ==
  ASSUME WInv, NEW b \in Build, LeaseClaim(b) \/ LeaseYield(b) \/ Wake(b) \/ Rollback(b)
                                  \/ MaterializeAgain(b), UNCHANGED machines
  PROVE  /\ OnlyBuild(b) /\ AttemptsGrow /\ \A n \in AttemptNo : LaunchInv(b, n)'
         /\ Heard(b)
<1>1. UNCHANGED <<builds, attempts, effects, receipts, usage, debits>>
  BY DEF LeaseClaim, LeaseYield, Wake, Rollback, MaterializeAgain
<1>2. /\ \A c \in Build \ {b} : txn'[c] = txn[c] /\ waiting'[c] = waiting[c]
      /\ txn'[b] \in {txn[b], NoTxn, LeaseTxn, waiting[b].req}
      /\ waiting'[b].req \in {waiting[b].req, NoTxn}
  <2>1. txn \in [Build -> TxnRow] /\ waiting \in [Build -> WaitRow]
    BY DEF WInv, QueueInv, TypeOK
  <2>2. CASE Wake(b)
    BY <2>1, <2>2 DEF Wake, NotWaiting
  <2>3. CASE ~ Wake(b)
    BY <2>1, <2>3 DEF LeaseClaim, LeaseYield, Rollback, MaterializeAgain, Release
  <2> QED BY <2>2, <2>3
<1> QED
  BY <1>1, <1>2, SameLaunch, HeardStays DEF OnlyBuild

\* A renewal or the answer about a source.
LEMMA RenewLaunch ==
  ASSUME WInv, NEW b \in Build, RenewCommit(b) \/ MaterializeCommit(b) \/ MaterializeReject(b),
         UNCHANGED machines
  PROVE  /\ OnlyBuild(b) /\ AttemptsGrow /\ \A n \in AttemptNo : LaunchInv(b, n)'
         /\ Heard(b)
<1>1. /\ UNCHANGED <<attempts, effects, receipts, usage, debits>> /\ Touch(b) /\ Release(b)
  BY DEF RenewCommit, MaterializeCommit, MaterializeReject
<1>2. /\ \A c \in Build \ {b} : builds'[c] = builds[c]
      /\ builds'[b].state = builds[b].state /\ builds'[b].cleanup = builds[b].cleanup
      /\ builds'[b].attempt_count = builds[b].attempt_count
  <2>1. builds \in [Build -> BuildRow] /\ builds[b] \in BuildRow
    BY DEF WInv, QueueInv, TypeOK
  <2>2. PICK l : \/ builds' = [builds EXCEPT ![b] = [builds[b] EXCEPT !.lease = l]]
                 \/ builds' = [builds EXCEPT ![b] = [builds[b] EXCEPT !.materialized = TRUE]]
    BY <2>1 DEF RenewCommit, MaterializeCommit, MaterializeReject
  <2>3. CASE builds' = [builds EXCEPT ![b] = [builds[b] EXCEPT !.lease = l]]
    BY <2>1, <2>3 DEF BuildRow
  <2>4. CASE builds' = [builds EXCEPT ![b] = [builds[b] EXCEPT !.materialized = TRUE]]
    BY <2>1, <2>4 DEF BuildRow
  <2> QED BY <2>2, <2>3, <2>4
<1>3. OnlyBuild(b) /\ Heard(b)
  BY <1>1, <1>2, TouchEffect, ReleaseLock, HeardStays DEF OnlyBuild, WInv
<1> QED
  BY <1>1, <1>2, <1>3, SameLaunch

\* The worker hears nothing, or what an answer makes it do is quiet.
LEMMA AnswersQuietly ==
  ASSUME WInv,
         \/ UNCHANGED work
         \/ Stop \/ Done \/ Failed
         \/ W.pc \in Before /\ \E x \in BOOLEAN : FailEarly(x)
         \/ W.pc = "source" /\ Goto("credentials")
         \/ W.pc = "vm" /\ Goto("vm")
  PROVE  Quiet
<1>1. WTypeOK /\ WorkInv
  BY DEF WInv
<1>2. CASE W.pc = "vm" /\ Goto("vm")
  <2>1. OnAttempt /\ "vm" \in Pc
    BY <1>2, PcTyped DEF OnAttempt
  <2> QED
    BY <1>1, <1>2, <2>1, GotoIsQuiet
<1>3. CASE W.pc = "source" /\ Goto("credentials")
  BY <1>1, <1>3, GotoIsQuiet, PcTyped
<1> QED
  BY <1>1, <1>2, <1>3, WorkUnchanged, StopIsQuiet, FailedIsQuiet, FailEarlyIsQuiet

LEMMA PollSafe ==
  ASSUME WInv, NEW b \in Build, Poll(b), QueueInv'
  PROVE  WInv'
<1>1. LeaseClaim(b) /\ UNCHANGED machines /\ W.pc = "idle"
  BY DEF Poll, At
<1>2. Quiet
  <2> DEFINE w == [W EXCEPT !.asked = TRUE]
  <2>1. w \in WorkState
    BY WorkTyped, StateUpdate, ReportsTyped DEF WInv
  <2>2. w.pc = W.pc /\ w.attempt = W.attempt /\ w.report = W.report
    BY WorkTyped DEF WorkState, WInv
  <2>3. work' = [state |-> w, build |-> b]
    BY DEF Poll
  <2> HIDE DEF w
  <2>4. W' = w /\ work' \in [state : WorkState, build : Build \cup {"none"}]
    BY <2>1, <2>3 DEF W
  <2>5. W.attempt = NoAttempt /\ W.report = NoOutcome
    BY <1>1 DEF WInv, WorkInv, OnAttempt
  <2> QED
    BY <1>1, <2>2, <2>4, <2>5 DEF Quiet
<1> QED
  BY <1>1, <1>2, LocksLaunch, QuietBuildStep

LEMMA AskSafe ==
  ASSUME WInv, NEW b \in Build, Ask(b), QueueInv'
  PROVE  WInv'
<1>0. /\ work.build = b /\ TheRequest \in Request /\ UNCHANGED machines
      /\ UNCHANGED <<builds, attempts, effects, receipts, usage, debits>>
  BY DEF Ask, Lock, Join
<1>1. PICK r \in Request : r = TheRequest /\ SentInv(b, r)
  BY <1>0, AskIsTrue
<1>2. Lock(b, r) \/ Join(b, r)
  BY <1>1 DEF Ask
<1>3. /\ OnlyBuild(b)
      /\ \/ txn'[b] = r /\ waiting'[b].req = waiting[b].req
         \/ txn'[b] = txn[b] /\ waiting'[b].req = r
  <2>1. txn \in [Build -> TxnRow] /\ waiting \in [Build -> WaitRow]
    BY DEF WInv, QueueInv, TypeOK
  <2> QED
    BY <1>0, <1>2, <2>1 DEF Lock, Join, OnlyBuild
<1>4. Heard(b)
  <2>1. /\ txn[b] \in TxnRow /\ waiting[b].req \in Request \cup {NoTxn} /\ r \in TxnRow
        /\ SentInv(b, txn[b]) /\ SentInv(b, waiting[b].req)
    BY RowsTyped DEF WInv, QueueInv, WaitRow, TxnRow
  <2> QED
    BY <1>1, <1>3, <2>1 DEF Heard
<1>5. Quiet
  <2> DEFINE w == [W EXCEPT !.asked = TRUE]
  <2>0. WTypeOK
    BY DEF WInv
  <2>1. w \in WorkState
    BY <2>0, WorkTyped, StateUpdate, ReportsTyped
  <2>2. w.pc = W.pc /\ w.attempt = W.attempt /\ w.report = W.report
    BY <2>0, WorkTyped DEF WorkState
  <2>3. work' = [work EXCEPT !.state = w]
    BY <2>0, WorkTyped DEF Ask, W
  <2> HIDE DEF w
  <2>4. /\ work' \in [state : WorkState, build : Build \cup {"none"}]
        /\ W' = w /\ work'.build = work.build
    BY <2>0, <2>1, <2>3, WorkUpdate
  <2>5. OnAttempt
    BY DEF Ask, MayAsk, OnAttempt
  <2> QED
    BY <2>2, <2>4, <2>5 DEF Quiet, OnAttempt
<1> QED
  BY <1>0, <1>3, <1>4, <1>5, SameLaunch, QuietBuildStep

\* The steps whose answer is quiet.
LEMMA AnswerSafe ==
  ASSUME WInv, NEW b \in Build, QueueInv',
         \/ NotLeased(b) \/ Materialized(b) \/ SourceRejected(b) \/ Renewed(b) \/ Completed(b)
         \/ RolledBack(b) \/ Woken(b)
  PROVE  WInv'
<1>0. UNCHANGED machines
  BY DEF NotLeased, Materialized, SourceRejected, Renewed, Completed, RolledBack, Woken
<1>1. Quiet
  <2>1. CASE NotLeased(b) \/ Completed(b) \/ RolledBack(b) \/ Woken(b)
    BY <2>1, AnswersQuietly DEF NotLeased, Completed, RolledBack, Woken, Answer
  <2>2. CASE Materialized(b) \/ SourceRejected(b)
    <3>1. txn[b].op = "materialize"
      BY <2>2 DEF Materialized, SourceRejected, MaterializeCommit, MaterializeAgain,
                  MaterializeReject
    <3>2. Mine(b, txn[b]) => W.pc = "source"
      BY <3>1, MineAt
    <3> QED
      BY <2>2, <3>2, AnswersQuietly DEF Materialized, SourceRejected, Answer, Before
  <2>3. CASE Renewed(b)
    <3>1. Mine(b, txn[b]) => W.pc = "vm"
      BY <2>3, MineAt DEF Renewed, RenewCommit
    <3> QED
      BY <2>3, <3>1, AnswersQuietly DEF Renewed, Answer
  <2> QED BY <2>1, <2>2, <2>3
<1>2. \/ LeaseYield(b) \/ Wake(b) \/ Rollback(b) \/ MaterializeAgain(b)
      \/ RenewCommit(b) \/ MaterializeCommit(b) \/ MaterializeReject(b)
      \/ LeaseStale(b) \/ CompleteCommit(b)
  BY DEF NotLeased, Materialized, SourceRejected, Renewed, Completed, RolledBack, Woken
<1>3. OnlyBuild(b) /\ AttemptsGrow /\ (\A n \in AttemptNo : LaunchInv(b, n)') /\ Heard(b)
  BY <1>0, <1>2, LocksLaunch, RenewLaunch, StaleLaunch, CompleteLaunch, HeardStays
<1> QED
  BY <1>0, <1>1, <1>3, QuietBuildStep

LEMMA ElsewhereSafe ==
  ASSUME WInv, NEW b \in Build, QueueInv', Elsewhere(b)
  PROVE  WInv'
<1>0. UNCHANGED <<work, machines>>
  BY DEF Elsewhere
<1>1. CASE Revoke(b)
  <2>1. UNCHANGED <<builds, attempts, effects, receipts, usage, debits, txn, waiting>>
    BY <1>1 DEF Revoke
  <2> QED
    BY <1>0, <2>1, WorkUnchanged, SameLaunch, HeardStays, QuietStep
<1>2. CASE Enqueue(b) \/ Cancel(b) \/ \E s \in 0..Reserved : Reap(b, s)
  <2>1. CASE Enqueue(b)
    BY <1>0, <2>1, EnqueueLaunch, HeardStays, WorkUnchanged, QuietBuildStep DEF Enqueue
  <2>2. CASE Cancel(b)
    BY <1>0, <2>2, CancelLaunch, HeardStays, WorkUnchanged, QuietBuildStep
  <2>3. ASSUME NEW s \in 0..Reserved, Reap(b, s) PROVE WInv'
    BY <1>0, <2>3, ReapLaunch, HeardStays, WorkUnchanged, QuietBuildStep
  <2> QED BY <1>2, <2>1, <2>2, <2>3
<1> QED BY <1>1, <1>2 DEF Elsewhere

LEMMA TimeSafe ==
  ASSUME WInv, QueueInv', Time
  PROVE  WInv'
<1>1. UNCHANGED <<attempts, debits, receipts, txn, waiting, work, machines>>
  BY DEF Time, Tick
<1>2. ASSUME NEW b \in Build
      PROVE  /\ builds'[b].state = builds[b].state /\ builds'[b].cleanup = builds[b].cleanup
             /\ builds'[b].attempt_count = builds[b].attempt_count
  <2>1. builds[b] \in BuildRow
    BY RowsTyped DEF WInv, QueueInv
  <2>2. PICK l : builds'[b] = [builds[b] EXCEPT !.lease = l]
    BY DEF Time, Tick
  <2> QED
    BY <2>1, <2>2 DEF BuildRow
<1> QED
  BY <1>1, <1>2, SameLaunch, HeardStays, WorkUnchanged, QuietStep

LEMMA AcknowledgeSafe ==
  ASSUME WInv, NEW b \in Build, QueueInv', Acknowledge(b)
  PROVE  WInv'
<1>1. W.pc = "ack" /\ work.build = b /\ W.report.cleanup = "confirmed" /\ Done /\ UNCHANGED machines
  BY DEF Acknowledge, At
<1>2. /\ W.attempt \in AttemptNo /\ W.report \in Report /\ attempts[b][W.attempt].launched
  BY <1>1 DEF WInv, WorkInv, OnAttempt
<1>3. W.report.elapsed \in 0..Reserved /\ CancelAck(b, W.attempt, W.report.elapsed)
  BY <1>2, ReportsTyped DEF Acknowledge
<1>4. /\ OnlyBuild(b) /\ AttemptsGrow /\ \A n \in AttemptNo : LaunchInv(b, n)'
      /\ UNCHANGED txn /\ waiting'[b].req = waiting[b].req
  BY <1>1, <1>2, <1>3, AcknowledgeLaunch
<1> QED
  BY <1>1, <1>4, HeardStays, AnswersQuietly, QuietBuildStep

\* The worker takes a lease: nothing is known of the attempt yet.
LEMMA LeasedSafe ==
  ASSUME WInv, NEW b \in Build, QueueInv', Leased(b)
  PROVE  WInv'
<1>0. LeaseGrant(b) /\ UNCHANGED machines
  BY DEF Leased
<1>1. PICK n \in AttemptNo :
        /\ n = builds[b].attempt_count + 1
        /\ OnlyBuild(b) /\ AttemptsGrow /\ \A m \in AttemptNo : LaunchInv(b, m)'
        /\ attempts[b][n].state = "absent" /\ attempts'[b][n].state = "running"
        /\ txn'[b] = NoTxn /\ waiting'[b].req = waiting[b].req
  BY <1>0, GrantLaunch
<1>2. CASE ~ Mine(b, txn[b])
  BY <1>0, <1>1, <1>2, WorkUnchanged, HeardStays, QuietBuildStep DEF Leased, Answer
<1>3. CASE Mine(b, txn[b])
  <2>0. WTypeOK /\ WorkInv /\ QueueInv
    BY DEF WInv
  <2>1. work.build = b /\ W.attempt = NoAttempt
    BY <1>0, <1>3, MineAt DEF LeaseGrant, LeaseTxn
  <2>2. PICK next \in {<<"source", NoOutcome>>, <<"complete", EarlyFailure(TRUE)>>} :
          work' = [work EXCEPT !.state =
                     [@ EXCEPT !.pc = next[1], !.asked = FALSE, !.attempt = n,
                               !.report = next[2]]]
    BY <1>1, <1>3 DEF Leased, Answer
  <2>p. PICK p \in {"source", "complete"}, o \in Report \cup {NoOutcome} :
          p = next[1] /\ o = next[2] /\ o.elapsed = 0 /\ o.state # "succeeded"
    <3>1. PICK e \in Report : e = EarlyFailure(TRUE) /\ e.elapsed = 0 /\ e.state # "succeeded"
      BY ReportsTyped
    <3>2. PICK z \in {NoOutcome} : z = NoOutcome /\ z.elapsed = 0 /\ z.state # "succeeded"
      BY ReportsTyped
    <3>3. next = <<"source", z>> \/ next = <<"complete", e>>
      BY <2>2, <3>1, <3>2
    <3>4. CASE next = <<"source", z>>
      <4>1. next[1] = "source" /\ next[2] = z
        BY <3>4
      <4> QED
        BY <3>2, <4>1
    <3>5. CASE next = <<"complete", e>>
      <4>1. next[1] = "complete" /\ next[2] = e
        BY <3>5
      <4> QED
        BY <3>1, <4>1
    <3> QED
      BY <3>3, <3>4, <3>5
  <2> DEFINE w == [W EXCEPT !.pc = p, !.asked = FALSE, !.attempt = n, !.report = o]
  <2>3. w \in WorkState /\ w.pc = p /\ w.attempt = n /\ w.report = o
    BY <2>0, WorkTyped, PcTyped, NumbersTyped DEF WorkState
  <2>4. work' = [work EXCEPT !.state = w]
    BY <2>2, <2>p DEF W
  <2> HIDE DEF w
  <2>5. /\ work' \in [state : WorkState, build : Build \cup {"none"}]
        /\ W' = w /\ work'.build = b
    BY <2>0, <2>1, <2>3, <2>4, WorkUpdate
  <2>6. <<b, n>> \notin machines
    <3>1. LaunchInv(b, n) /\ ~ attempts[b][n].launched
      BY <1>1, <2>0 DEF WInv, QueueInv, BuildInv, AttemptInv
    <3> QED
      BY <3>1 DEF LaunchInv
  <2>7. WorkInv'
    BY <1>0, <1>1, <2>p, <2>3, <2>5, <2>6 DEF WorkInv, OnAttempt, Before
  <2>8. WTypeOK'
    BY <1>0, <2>0, <2>5 DEF QueueInv, WTypeOK
  <2>9. ASSUME NEW c \in Build PROVE SentInv(c, txn[c])' /\ SentInv(c, waiting[c].req)'
    <3>1. PICK r \in TxnRow, q \in Request \cup {NoTxn} :
            /\ txn'[c] = r /\ waiting'[c].req = q /\ SentInv(c, r) /\ SentInv(c, q)
            /\ c = b => r = NoTxn /\ q = waiting[b].req
      <4>1. Heard(c)
        BY <1>1, HeardStays, HeardElsewhere
      <4> QED
        BY <1>1, <4>1 DEF Heard
    <3>2. ASSUME NEW x \in TxnRow, SentInv(c, x), c = b => x.op # "complete" \/ x.attempt # n
          PROVE  SentInv(c, x)'
      <4>1. x.op = "complete" => x.attempt \in AttemptNo
        BY RequestsTyped DEF TxnRow
      <4> QED
        BY <1>0, <1>1, <2>3, <2>5, <3>2, <4>1 DEF SentInv, AttemptsGrow
    <3>3. c = b => q.op # "complete" \/ q.attempt # n
      <4>1. c = b /\ q # NoTxn => attempts[b][q.attempt].state # "absent"
        BY <2>0, <3>1 DEF QueueInv, BuildInv, LockInv
      <4> QED
        BY <1>1, <4>1, RequestsTyped
    <3>4. c = b => r.op # "complete"
      BY <3>1, RequestsTyped
    <3>5. SentInv(c, r)' /\ SentInv(c, q)'
      BY <3>1, <3>2, <3>3, <3>4 DEF TxnRow
    <3> QED
      BY <3>1, <3>5 DEF SentInv
  <2>10. \A c \in Build, m \in AttemptNo : LaunchInv(c, m)'
    BY <1>0, <1>1, LaunchElsewhere
  <2> QED
    BY <2>7, <2>8, <2>9, <2>10 DEF WInv
<1> QED BY <1>2, <1>3

\* The credentials are resolved: the machine starts, unless the worker cannot.
LEMMA ResolvedSafe ==
  ASSUME WInv, NEW b \in Build, QueueInv', Resolved(b)
  PROVE  WInv'
<1>0. CredentialsCommit(b) /\ WTypeOK /\ WorkInv /\ txn[b].op = "credentials"
  BY DEF Resolved, WInv, CredentialsCommit
<1>1. Mine(b, txn[b]) => W.pc = "credentials" /\ work.build = b /\ txn[b].attempt = W.attempt
  BY <1>0, MineAt
<1>2. ASSUME UNCHANGED machines,
             Answer(b, \/ FailEarly(FALSE)
                       \/ work' = [work EXCEPT !.state =
                            [@ EXCEPT !.pc = "complete", !.asked = FALSE, !.report = Unaccepted]])
      PROVE  WInv'
  <2>1. /\ OnlyBuild(b) /\ AttemptsGrow /\ (\A m \in AttemptNo : LaunchInv(b, m)') /\ Heard(b)
    BY <1>0, <1>2, CredentialsLaunch, HeardStays
  <2>2. ASSUME W.pc = "credentials",
               work' = [work EXCEPT !.state = [@ EXCEPT !.pc = "complete", !.asked = FALSE,
                                                        !.report = Unaccepted]]
        PROVE  Quiet
    <3> DEFINE w == [W EXCEPT !.pc = "complete", !.asked = FALSE, !.report = NoOutcome]
    <3>1. w \in WorkState
      BY <1>0, WorkTyped, StateUpdate, PcTyped, ReportsTyped
    <3>2. w.pc = "complete" /\ w.attempt = W.attempt /\ w.report = NoOutcome
      BY <1>0, WorkTyped DEF WorkState
    <3>3. work' = [work EXCEPT !.state = w]
      BY <2>2 DEF W, Unaccepted
    <3> HIDE DEF w
    <3>4. /\ work' \in [state : WorkState, build : Build \cup {"none"}]
          /\ W' = w /\ work'.build = work.build
      BY <1>0, <3>1, <3>3, WorkUpdate
    <3> QED
      BY <2>2, <3>2, <3>4, ReportsTyped DEF Quiet, OnAttempt, Before
  <2>3. Quiet
    <3>1. CASE ~ Mine(b, txn[b])
      BY <1>2, <3>1, WorkUnchanged DEF Answer
    <3>2. CASE Mine(b, txn[b])
      BY <1>1, <1>2, <2>2, <3>2, AnswersQuietly DEF Answer, Before
    <3> QED BY <3>1, <3>2
  <2> QED
    BY <1>2, <2>1, <2>3, QuietBuildStep
<1>3. ASSUME Mine(b, txn[b]), Goto("vm"), machines' = machines \cup {<<b, W.attempt>>}
      PROVE  WInv'
  <2>0. W.pc = "credentials" /\ work.build = b /\ txn[b].attempt = W.attempt
    BY <1>1, <1>3
  <2>1. PICK n \in AttemptNo :
          /\ n = W.attempt /\ machines' = machines \cup {<<b, n>>}
          /\ OnlyBuild(b) /\ AttemptsGrow /\ \A m \in AttemptNo : LaunchInv(b, m)'
          /\ attempts'[b][n].launched /\ attempts'[b][n].state # "absent"
          /\ txn'[b] = NoTxn /\ waiting'[b].req = waiting[b].req
    BY <1>0, <1>3, <2>0, CredentialsLaunch
  <2> DEFINE w == [W EXCEPT !.pc = "vm", !.asked = FALSE]
  <2>2. w \in WorkState
    BY <1>0, WorkTyped, StateUpdate, PcTyped, ReportsTyped
  <2>3. w.pc = "vm" /\ w.attempt = n
    BY <1>0, <2>1, WorkTyped DEF WorkState
  <2>4. work' = [work EXCEPT !.state = w]
    BY <1>3 DEF Goto, W
  <2> HIDE DEF w
  <2>5. /\ work' \in [state : WorkState, build : Build \cup {"none"}]
        /\ W' = w /\ work'.build = b
    BY <1>0, <2>0, <2>2, <2>4, WorkUpdate
  <2>6. WorkInv'
    BY <2>1, <2>3, <2>5 DEF WorkInv, OnAttempt, Before
  <2>7. WTypeOK'
    BY <1>0, <2>1, <2>5 DEF QueueInv, WTypeOK
  <2>8. ASSUME NEW c \in Build PROVE SentInv(c, txn[c])' /\ SentInv(c, waiting[c].req)'
    <3>1. PICK r \in TxnRow, q \in Request \cup {NoTxn} :
            txn'[c] = r /\ waiting'[c].req = q /\ SentInv(c, r) /\ SentInv(c, q)
      <4>1. Heard(c)
        BY <2>1, HeardStays, HeardElsewhere
      <4> QED
        BY <4>1 DEF Heard
    <3>2. ASSUME NEW x \in TxnRow, SentInv(c, x) PROVE SentInv(c, x)'
      <4>1. CASE x.op # "complete"
        BY <4>1 DEF SentInv
      <4>2. CASE x.op = "complete"
        <5>1. x.attempt \in AttemptNo
          BY <4>2, RequestsTyped DEF TxnRow
        <5>2. ~ (c = b /\ x.attempt = n)
          BY <2>0, <2>1, <3>2, <4>2 DEF SentInv
        <5>3. <<c, x.attempt>> \in machines' => <<c, x.attempt>> \in machines
          BY <2>1, <5>2
        <5>4. ~ (work'.build = c /\ W'.attempt = x.attempt)
          BY <2>3, <2>5, <5>2
        <5>5. attempts[c][x.attempt].launched => attempts'[c][x.attempt].launched
          BY <2>1, <5>1 DEF AttemptsGrow
        <5> QED
          BY <3>2, <4>2, <5>3, <5>4, <5>5 DEF SentInv
      <4> QED BY <4>1, <4>2
    <3>3. SentInv(c, r)' /\ SentInv(c, q)'
      BY <3>1, <3>2 DEF TxnRow
    <3> QED
      BY <3>1, <3>3 DEF SentInv
  <2>9. \A c \in Build, m \in AttemptNo : LaunchInv(c, m)'
    BY <2>1, LaunchElsewhere
  <2> QED
    BY <2>6, <2>7, <2>8, <2>9 DEF WInv
<1> QED BY <1>2, <1>3 DEF Resolved

\* Machines go away, while the worker stays where it is or reports their end.
LEMMA MachineGone ==
  ASSUME WInv, UNCHANGED vars, machines' \subseteq machines, WorkInv',
         work' \in [state : WorkState, build : Build \cup {"none"}],
         \/ UNCHANGED work
         \/ W'.pc \in {"complete", "ack"}
  PROVE  WInv'
<1>1. QueueInv'
  BY UnchangedKeeps DEF WInv, vars
<1>2. \A c \in Build, n \in AttemptNo : LaunchInv(c, n)'
  BY SameLaunch DEF vars
<1>3. WTypeOK'
  BY <1>1 DEF WInv, WTypeOK, QueueInv
<1>4. ASSUME NEW c \in Build PROVE SentInv(c, txn[c])' /\ SentInv(c, waiting[c].req)'
  <2>1. /\ SentInv(c, txn[c]) /\ SentInv(c, waiting[c].req)
        /\ UNCHANGED <<attempts, txn, waiting>>
    BY DEF WInv, vars
  <2>2. CASE UNCHANGED work
    BY <2>1, <2>2 DEF SentInv, W
  <2>3. CASE W'.pc \in {"complete", "ack"}
    BY <2>1, <2>3 DEF SentInv
  <2> QED BY <2>2, <2>3
<1> QED BY <1>1, <1>2, <1>3, <1>4 DEF WInv

LEMMA MachineEndsSafe ==
  ASSUME WInv, NEW r \in Report, MachineEnds(r)
  PROVE  WInv'
<1>0. /\ WTypeOK /\ WorkInv /\ W.pc = "vm" /\ UNCHANGED vars /\ machines' \subseteq machines
      /\ r.state = "succeeded" => <<work.build, W.attempt>> \notin machines'
  BY DEF WInv, MachineEnds, At
<1>1. PICK p \in {"ack", "complete"} : p = AfterMachine
  BY DEF AfterMachine
<1> DEFINE w == [W EXCEPT !.pc = p, !.fenced = FALSE, !.report = r]
<1>2. w \in WorkState
  BY <1>0, WorkTyped, StateUpdate, PcTyped
<1>3. w.pc = p /\ w.attempt = W.attempt /\ w.report = r
  BY <1>0, WorkTyped DEF WorkState
<1>4. work' = [work EXCEPT !.state = w]
  BY <1>1 DEF MachineEnds, W
<1> HIDE DEF w
<1>5. /\ work' \in [state : WorkState, build : Build \cup {"none"}]
      /\ W' = w /\ work'.build = work.build
  BY <1>0, <1>2, <1>4, WorkUpdate
<1>6. WorkInv'
  <2>1. /\ work.build \in Build /\ W.attempt \in AttemptNo
        /\ attempts[work.build][W.attempt].state # "absent"
        /\ attempts[work.build][W.attempt].launched
    BY <1>0 DEF WorkInv, OnAttempt
  <2> QED
    BY <1>0, <1>3, <1>5, <2>1 DEF WorkInv, OnAttempt, Before, vars
<1> QED
  BY <1>0, <1>3, <1>5, <1>6, MachineGone

LEMMA UnitStopsSafe ==
  ASSUME WInv, NEW b \in Build, NEW n \in AttemptNo, UnitStops(b, n)
  PROVE  WInv'
<1>1. UNCHANGED vars /\ UNCHANGED work /\ machines' \subseteq machines
  BY DEF UnitStops
<1>2. WorkInv'
  BY <1>1 DEF WInv, WorkInv, OnAttempt, W, vars
<1>3. work' \in [state : WorkState, build : Build \cup {"none"}]
  BY <1>1 DEF WInv, WTypeOK
<1> QED
  BY <1>1, <1>2, <1>3, MachineGone

LEMMA WorkerStepKeeps ==
  ASSUME WInv, [WNext]_wvars
  PROVE  WInv'
<1>1. QueueInv'
  BY QueueStep
<1>2. CASE UNCHANGED wvars
  BY <1>2, WorkUnchanged, AloneStep DEF wvars
<1>3. CASE GiveUp \/ AcknowledgeRefused \/ Crash \/ Restart \/ \E b \in Build : AskRefused(b)
  BY <1>3, AnswersQuietly, AloneStep
     DEF GiveUp, AcknowledgeRefused, Crash, Restart, AskRefused
<1>4. ASSUME NEW b \in Build,
             \/ Poll(b) \/ Ask(b) \/ Leased(b) \/ Resolved(b) \/ Acknowledge(b) \/ Elsewhere(b)
             \/ \E n \in AttemptNo : UnitStops(b, n)
      PROVE  WInv'
  BY <1>1, <1>4, PollSafe, AskSafe, LeasedSafe, ResolvedSafe, AcknowledgeSafe, ElsewhereSafe,
     UnitStopsSafe
<1>5. ASSUME NEW b \in Build,
             \/ NotLeased(b) \/ Materialized(b) \/ SourceRejected(b) \/ Renewed(b) \/ Completed(b)
             \/ RolledBack(b) \/ Woken(b)
      PROVE  WInv'
  BY <1>1, <1>5, AnswerSafe
<1> QED
  BY <1>1, <1>2, <1>3, <1>4, <1>5, TimeSafe, MachineEndsSafe DEF WNext

LEMMA WorkerInitKeeps == WInit => WInv
<1> SUFFICES ASSUME WInit PROVE WInv
  OBVIOUS
<1>1. QueueInv /\ TypeOK /\ machines = {} /\ work = [state |-> Fresh, build |-> "none"]
  BY InitKeeps DEF WInit, QueueInv
<1>2. W = Fresh /\ work \in [state : WorkState, build : Build \cup {"none"}]
  BY <1>1, FreshTyped DEF W
<1>3. WTypeOK /\ WorkInv
  BY <1>1, <1>2, FreshTyped DEF WTypeOK, WorkInv, OnAttempt
<1>4. ASSUME NEW b \in Build PROVE SentInv(b, txn[b]) /\ SentInv(b, waiting[b].req)
  BY Unsent DEF WInit, Init, NotWaiting
<1>5. ASSUME NEW b \in Build, NEW n \in AttemptNo PROVE LaunchInv(b, n)
  BY <1>1 DEF WInit, Init, AbsentAttempt, LaunchInv
<1> QED BY <1>1, <1>3, <1>4, <1>5 DEF WInv

-----------------------------------------------------------------------------
(* What holds of the queue and its worker together. *)

\* The worker, its losses and its crashes add nothing to what the queue may do:
\* every theorem about Spec holds of WSpec.
THEOREM WorkerIsQueueClient == WSpec => Spec
<1>1. WInit => Init
  BY DEF WInit
<1> QED
  BY <1>1, WorkerInitKeeps, WorkerStepKeeps, StepIsQueueStep, PTL DEF WSpec, Spec

\* What the worker knows, the requests it sent and the rows keep their types.
THEOREM WorkerTypeCorrect == WSpec => []WTypeOK
<1>1. WInv => WTypeOK
  BY DEF WInv
<1> QED BY <1>1, WorkerInitKeeps, WorkerStepKeeps, PTL DEF WSpec

\* A machine keeps its build in the account's only slot until its own worker has
\* reported a failure or a cancellation with its cleanup confirmed.
THEOREM MachineSafety == WSpec => []SlotHeldUntilReported
<1>1. ASSUME WInv PROVE SlotHeldUntilReported
  <2>1. ASSUME NEW p \in machines
        PROVE  /\ p[2] = builds[p[1]].attempt_count
               /\ Active(builds[p[1]]) \/ ReportedGone(p[1], p[2])
    <3>1. PICK b \in Build, n \in AttemptNo : p = <<b, n>>
      BY <1>1, <2>1 DEF WInv, WTypeOK
    <3>2. LaunchInv(b, n)
      BY <1>1 DEF WInv
    <3> QED
      BY <2>1, <3>1, <3>2 DEF LaunchInv
  <2> QED
    BY <1>1, <2>1 DEF SlotHeldUntilReported, WInv, QueueInv
<1> QED BY <1>1, WorkerInitKeeps, WorkerStepKeeps, PTL DEF WSpec

\* Only a launched attempt is billed, and no attempt follows it.
THEOREM LaunchSafety == WSpec => []LaunchIsFinal
<1>1. WInv => LaunchIsFinal
  BY DEF WInv, LaunchInv, LaunchIsFinal
<1> QED BY <1>1, WorkerInitKeeps, WorkerStepKeeps, PTL DEF WSpec
=============================================================================
