---------------------------- MODULE JobsProofs -----------------------------
(***************************************************************************)
(* Machine-checked proofs about Jobs, for any number of jobs, workers,     *)
(* keys, attempts and any lease length.                                    *)
(***************************************************************************)
EXTENDS Jobs, TLAPS

-----------------------------------------------------------------------------
(* Type correctness. *)

LEMMA ConstantsTyped ==
  /\ NoLease \in NoLease..LeaseSeconds
  /\ LeaseSeconds \in NoLease..LeaseSeconds
  /\ NoAttempt \in 0..MaxAttempts
  /\ AbsentJob \in JobRow
  /\ AbsentAttempt \in AttemptRow
  /\ NoEffect \in EffectRow
  /\ NoTxn \in TxnRow
BY MaxAttemptsAssumption, LeaseSecondsAssumption
   DEF NoLease, NoAttempt, AbsentJob, AbsentAttempt, NoEffect, NoTxn, JobRow,
       AttemptRow, EffectRow, TxnRow, JobState, AttemptState, Outcome, Terminal

LEMMA InitTyped == Init => TypeOK
BY ConstantsTyped DEF Init, TypeOK

\* What an update of a job row yields.
LEMMA MovedTyped ==
  ASSUME NEW row \in JobRow, NEW s \in JobState, NEW c \in 0..MaxAttempts,
         NEW n \in 0..MaxAttempts, NEW f \in Nat, NEW l \in NoLease..LeaseSeconds
  PROVE  Moved(row, s, c, n, f, l) \in JobRow
BY DEF Moved, JobRow, NextRevision

\* What closing an attempt yields.
LEMMA ClosedTyped ==
  ASSUME NEW rows \in [AttemptNo -> AttemptRow], NEW n, NEW s \in AttemptState,
         NEW h \in Outcome \cup {"none"}
  PROVE  Closed(rows, n, s, h) \in [AttemptNo -> AttemptRow]
<1>1. CASE n \in AttemptNo /\ rows[n].state = "running"
  <2> DEFINE new == [state |-> s, fence |-> rows[n].fence, worker |-> rows[n].worker,
                     lease |-> rows[n].lease, hash |-> h]
  <2>1. new \in AttemptRow
    BY <1>1 DEF AttemptRow
  <2> HIDE DEF new
  <2>2. [rows EXCEPT ![n] = new] \in [AttemptNo -> AttemptRow]
    BY <1>1, <2>1
  <2> QED
    BY <1>1, <2>2 DEF Closed, new
<1>2. CASE ~ (n \in AttemptNo /\ rows[n].state = "running")
  BY <1>2 DEF Closed
<1> QED
  BY <1>1, <1>2

\* Setting the expiry of an attempt row.
LEMMA AttemptLeaseTyped ==
  ASSUME NEW r \in AttemptRow, NEW l \in NoLease..LeaseSeconds
  PROVE  [r EXCEPT !.lease = l] \in AttemptRow
BY DEF AttemptRow

LEMMA StoreReplayTyped ==
  ASSUME TypeOK, NEW op \in Op, NEW k \in Key, NEW p \in Payload, NEW j \in Job,
         StoreReplay(op, k, p, j)
  PROVE  /\ DOMAIN replays' \subseteq Op \X Key
         /\ \A r \in DOMAIN replays' : replays'[r] \in ReplayRow
BY DEF TypeOK, StoreReplay, ReplayRow

\* Every step keeps the tables well typed, one action at a time.
LEMMA NextTyped == TypeOK /\ [Next]_vars => TypeOK'
<1> SUFFICES ASSUME TypeOK, [Next]_vars PROVE TypeOK'
  OBVIOUS
<1> USE ConstantsTyped, MaxAttemptsAssumption, LeaseSecondsAssumption
<1>0. \A j \in Job : /\ jobs[j] \in JobRow
                    /\ attempts[j] \in [AttemptNo -> AttemptRow]
                    /\ jobs[j].attempt_count \in 0..MaxAttempts
                    /\ jobs[j].current_attempt \in 0..MaxAttempts
                    /\ jobs[j].current_fence \in Nat
                    /\ NextFence(jobs[j].current_fence) \in Nat
  <2>1. \A j \in Job : jobs[j] \in JobRow /\ attempts[j] \in [AttemptNo -> AttemptRow]
    BY DEF TypeOK
  <2>2. \A row \in JobRow : /\ row.attempt_count \in 0..MaxAttempts
                            /\ row.current_attempt \in 0..MaxAttempts
                            /\ row.current_fence \in Nat
    BY DEF JobRow
  <2>3. \A f \in Nat : NextFence(f) \in Nat
    BY DEF NextFence
  <2> QED BY <2>1, <2>2, <2>3
<1>1. ASSUME NEW j \in Job, NEW k \in Key, NEW p \in Payload, CreateJob(j, k, p)
      PROVE  TypeOK'
  <2>1. <<"create", "any">> \in Op
    BY DEF Op
  <2>2. order' \in Seq(Job)
    BY <1>1 DEF CreateJob, TypeOK
  <2>3. Moved(jobs[j], "queued", 0, NoAttempt, 0, NoLease) \in JobRow
    <3>1. "queued" \in JobState /\ 0 \in 0..MaxAttempts /\ 0 \in Nat
      BY DEF JobState
    <3> QED BY <1>0, <3>1, MovedTyped, ConstantsTyped, Zenon
  <2> QED
    BY <1>1, <2>1, <2>2, <2>3, StoreReplayTyped DEF CreateJob, TypeOK
<1>2. ASSUME NEW j \in Job, NEW k \in Key, NEW p \in Payload,
             NEW r \in 1..jobs[j].revision, CancelJob(j, k, p, r)
      PROVE  TypeOK'
  <2>1. <<"cancel", j>> \in Op
    BY DEF Op
  <2>2. Closed(attempts[j], jobs[j].current_attempt, "canceled", "none")
          \in [AttemptNo -> AttemptRow]
    BY <1>0, ClosedTyped DEF AttemptState
  <2>3. Moved(jobs[j], "canceled", jobs[j].attempt_count, NoAttempt,
              NextFence(jobs[j].current_fence), NoLease) \in JobRow
    <3>1. "canceled" \in JobState
      BY DEF JobState, Terminal
    <3> QED BY <1>0, <3>1, MovedTyped, ConstantsTyped, Zenon
  <2> QED
    BY <1>2, <2>1, <2>2, <2>3, StoreReplayTyped DEF CancelJob, TypeOK
<1>3. ASSUME NEW j \in Job, ReapExpired(j) PROVE TypeOK'
  <2>1. Closed(attempts[j], jobs[j].current_attempt, "expired", "none")
          \in [AttemptNo -> AttemptRow]
    BY <1>0, ClosedTyped DEF AttemptState
  <2>2. \A s \in {"failed", "retriable"} :
          Moved(jobs[j], s, jobs[j].attempt_count, NoAttempt,
                jobs[j].current_fence, NoLease) \in JobRow
    <3>1. \A s \in {"failed", "retriable"} : s \in JobState
      BY DEF JobState, Terminal
    <3> QED BY <1>0, <3>1, MovedTyped, ConstantsTyped, Zenon
  <2>3. ExhaustedEffect(j) \in EffectRow /\ effects[j] \in EffectRow
    BY <1>0 DEF ExhaustedEffect, TypeOK, EffectRow
  <2> QED
    BY <1>3, <2>1, <2>2, <2>3 DEF ReapExpired, TypeOK
<1>4. ASSUME NEW j \in Job, NEW w \in Worker, LeaseJob(j, w) PROVE TypeOK'
  <2> DEFINE n == jobs[j].attempt_count + 1
             new == [state |-> "running", fence |-> NextFence(jobs[j].current_fence),
                     worker |-> w, lease |-> LeaseSeconds, hash |-> "none"]
  <2>1. n \in AttemptNo /\ n \in 0..MaxAttempts
    BY <1>0, <1>4 DEF LeaseJob, NextClaim, Claimable, AttemptNo
  <2>2. new \in AttemptRow
    BY <1>0 DEF AttemptRow, AttemptState
  <2>3. Moved(jobs[j], "running", n, n, NextFence(jobs[j].current_fence), LeaseSeconds)
          \in JobRow
    <3>1. "running" \in JobState
      BY DEF JobState
    <3> QED BY <1>0, <2>1, <3>1, MovedTyped, ConstantsTyped, Zenon
  <2>4. /\ attempts' = [attempts EXCEPT ![j] = [@ EXCEPT ![n] = new]]
        /\ jobs' = [jobs EXCEPT ![j] =
                      Moved(@, "running", n, n, NextFence(jobs[j].current_fence), LeaseSeconds)]
    BY <1>4 DEF LeaseJob
  <2> HIDE DEF n, new
  <2>5. [attempts[j] EXCEPT ![n] = new] \in [AttemptNo -> AttemptRow]
    BY <1>0, <2>1, <2>2
  <2>6. jobs' \in [Job -> JobRow] /\ attempts' \in [Job -> [AttemptNo -> AttemptRow]]
    BY <2>3, <2>4, <2>5 DEF TypeOK
  <2>7. UNCHANGED <<effects, replays, order, txn, answers, dead>>
    BY <1>4 DEF LeaseJob
  <2> QED
    BY <2>6, <2>7 DEF TypeOK
<1>5. ASSUME NEW j \in Job, NEW n \in AttemptNo, RenewLock(j, n) PROVE TypeOK'
  BY <1>5 DEF RenewLock, TypeOK, TxnRow
<1>6. ASSUME NEW j \in Job, RenewCommit(j) PROVE TypeOK'
  <2> DEFINE n == txn[j].attempt
             new == [attempts[j][n] EXCEPT !.lease = LeaseSeconds]
  <2>1. n \in AttemptNo
    BY <1>6 DEF RenewCommit, TypeOK, TxnRow, NoTxn
  <2>2. new \in AttemptRow
    <3>1. attempts[j][n] \in AttemptRow
      BY <1>0, <2>1
    <3> QED
      BY <3>1, AttemptLeaseTyped
  <2>3. attempts' = [attempts EXCEPT ![j] = [@ EXCEPT ![n] = new]]
    BY <1>6 DEF RenewCommit
  <2> HIDE DEF n, new
  <2>4. attempts' \in [Job -> [AttemptNo -> AttemptRow]]
    BY <2>1, <2>2, <2>3 DEF TypeOK
  <2>5. jobs' \in [Job -> JobRow]
    BY <1>6 DEF RenewCommit, TypeOK, JobRow
  <2> QED
    BY <1>6, <2>4, <2>5 DEF RenewCommit, TypeOK
<1>7. ASSUME NEW j \in Job, NEW n \in AttemptNo, NEW o \in Outcome, CompleteReplay(j, n, o)
      PROVE  TypeOK'
  BY <1>7 DEF CompleteReplay, TypeOK
<1>8. ASSUME NEW j \in Job, NEW n \in AttemptNo, NEW o \in Outcome, CompleteLock(j, n, o)
      PROVE  TypeOK'
  BY <1>8 DEF CompleteLock, TypeOK, TxnRow
<1>9. ASSUME NEW j \in Job, CompleteCommit(j) PROVE TypeOK'
  <2> DEFINE n == txn[j].attempt
             o == txn[j].outcome
             s == Effective(jobs[j], o)
  <2>1. n \in AttemptNo /\ n \in 0..MaxAttempts /\ o \in Outcome
    BY <1>9 DEF CompleteCommit, TypeOK, TxnRow, NoTxn, AttemptNo
  <2>2. s \in Outcome /\ s \in AttemptState /\ s \in JobState
    BY <2>1 DEF Effective, Outcome, AttemptState, JobState, Terminal
  <2>3. Closed(attempts[j], n, s, o) \in [AttemptNo -> AttemptRow]
    BY <1>0, <2>1, <2>2, ClosedTyped
  <2>4. KeptAttempt(jobs[j], s) \in 0..MaxAttempts
    BY <1>0 DEF KeptAttempt
  <2>5. Moved(jobs[j], s, jobs[j].attempt_count, KeptAttempt(jobs[j], s),
              jobs[j].current_fence, NoLease) \in JobRow
    BY <1>0, <2>2, <2>4, MovedTyped
  <2>6. s /= "retriable" =>
          [state |-> s, attempt |-> n, fence |-> attempts[j][n].fence, hash |-> o,
           body |-> "complete_response"] \in EffectRow
    BY <1>0, <2>1, <2>2 DEF EffectRow, AttemptRow, Outcome
  <2>7. answers' \subseteq [job : Job, attempt : AttemptNo, outcome : Outcome]
    BY <1>9, <2>1 DEF CompleteCommit, TypeOK
  <2>8. /\ attempts' = [attempts EXCEPT ![j] = Closed(@, n, s, o)]
        /\ jobs' = [jobs EXCEPT ![j] = Moved(@, s, @.attempt_count, KeptAttempt(@, s),
                                            @.current_fence, NoLease)]
        /\ effects' = [effects EXCEPT ![j] =
             IF s /= "retriable"
             THEN [state |-> s, attempt |-> n, fence |-> attempts[j][n].fence, hash |-> o,
                   body |-> "complete_response"]
             ELSE @]
        /\ txn' = [txn EXCEPT ![j] = NoTxn]
        /\ UNCHANGED <<replays, order, dead>>
    BY <1>9 DEF CompleteCommit
  <2> HIDE DEF n, o, s
  <2> QED
    BY <2>3, <2>5, <2>6, <2>7, <2>8 DEF TypeOK
<1>10. ASSUME NEW j \in Job, Rollback(j) PROVE TypeOK'
  BY <1>10 DEF Rollback, TypeOK
<1>11. CASE Tick
  <2>1. \A t \in NoLease..LeaseSeconds : OneLess(t) \in NoLease..LeaseSeconds
    BY DEF OneLess, NoLease
  <2>2. jobs' \in [Job -> JobRow]
    BY <1>11, <2>1 DEF Tick, TypeOK, JobRow
  <2>3. attempts' \in [Job -> [AttemptNo -> AttemptRow]]
    <3> DEFINE row(j, n) == [attempts[j][n] EXCEPT !.lease = OneLess(attempts[j][n].lease)]
    <3>1. \A j \in Job, n \in AttemptNo : row(j, n) \in AttemptRow
      <4> TAKE j \in Job, n \in AttemptNo
      <4>1. attempts[j][n] \in AttemptRow
        BY DEF TypeOK
      <4>2. OneLess(attempts[j][n].lease) \in NoLease..LeaseSeconds
        BY <2>1, <4>1 DEF AttemptRow
      <4> QED
        BY <4>1, <4>2, AttemptLeaseTyped
    <3>2. attempts' = [j \in Job |-> [n \in AttemptNo |-> row(j, n)]]
      BY <1>11 DEF Tick
    <3> HIDE DEF row
    <3> QED
      BY <3>1, <3>2
  <2> QED
    BY <1>11, <2>2, <2>3 DEF Tick, TypeOK
<1>12. ASSUME NEW w \in Worker, Crash(w) PROVE TypeOK'
  BY <1>12 DEF Crash, TypeOK
<1>13. CASE UNCHANGED vars
  BY <1>13 DEF vars, TypeOK
<1> QED
  BY <1>1, <1>2, <1>3, <1>4, <1>5, <1>6, <1>7, <1>8, <1>9, <1>10, <1>11, <1>12, <1>13
     DEF Next

\* The tables stay well typed in every behaviour of the queue.
THEOREM TypeCorrect == Spec => []TypeOK
BY InitTyped, NextTyped, PTL DEF Spec

-----------------------------------------------------------------------------
(* The inductive invariant.  Everything but the answers concerns one job,    *)
(* so it is stated, and each operation proved, on the rows of one job: its   *)
(* row, its attempt rows, its effect and the transaction that locks it.      *)

JobOK(row, rows, effect, lock) ==
  /\ RowConstraints(row, rows)
  /\ LiveIsCurrent(row, rows)
  /\ FencesOrdered(row, rows)
  /\ Waiting(row) => Claimable(row)
  /\ EffectOfLast(row, effect)
  /\ Decodes(row, rows, effect)
  /\ lock /= NoTxn => Holds(row, rows, lock.attempt)

IInv ==
  /\ TypeOK
  /\ \A j \in Job : JobOK(jobs[j], attempts[j], effects[j], txn[j])
  /\ AnswersHold

Rows == [AttemptNo -> AttemptRow]

\* create_job on an absent row.
LEMMA CreateKeeps ==
  ASSUME NEW row \in JobRow, NEW rows \in Rows, NEW effect \in EffectRow,
         NEW lock \in TxnRow, JobOK(row, rows, effect, lock), row.state = "absent"
  PROVE  JobOK(Moved(row, "queued", 0, NoAttempt, 0, NoLease), rows, effect, lock)
BY MaxAttemptsAssumption
   DEF JobOK, Moved, RowConstraints, LiveIsCurrent, FencesOrdered, Waiting, Claimable,
       EffectOfLast, Decodes, Holds, Terminal, NoAttempt, NoLease, JobRow, AttemptRow,
       Rows, AttemptNo

\* What Closed leaves in each attempt row.
LEMMA ClosedAt ==
  ASSUME NEW rows \in Rows, NEW n, NEW s, NEW h, NEW m \in AttemptNo
  PROVE  /\ Closed(rows, n, s, h)[m].fence = rows[m].fence
         /\ Closed(rows, n, s, h)[m].lease = rows[m].lease
         /\ Closed(rows, n, s, h)[m].state =
              IF m = n /\ rows[m].state = "running" THEN s ELSE rows[m].state
         /\ Closed(rows, n, s, h)[m].hash =
              IF m = n /\ rows[m].state = "running" THEN h ELSE rows[m].hash
BY DEF Closed, Rows, AttemptRow

\* A job leaves running, or is canceled while it waits: its open attempt, if
\* any, is closed, and it keeps a current attempt only if that settled it.
Leaves(row, old, effect, s, t, h, n, f) ==
  /\ row.state = "running" \/ (Waiting(row) /\ s = "canceled")
  /\ s \in {"retriable", "succeeded", "failed", "canceled"}
  /\ t \in {"retriable", "succeeded", "failed", "canceled", "expired"}
  /\ t = "retriable" => h = "retriable"
  /\ n \in {NoAttempt, row.current_attempt}
  /\ f \in Nat /\ f >= row.current_fence
  /\ s /= "canceled" => f = row.current_fence
  /\ s = "retriable" => row.attempt_count < MaxAttempts
  /\ s \in {"retriable", "canceled"} => n = NoAttempt /\ effect = old
  /\ s \notin {"retriable", "canceled"} =>
       /\ effect.state = s
       /\ effect.attempt = row.attempt_count
       /\ effect.fence = f
       /\ n /= NoAttempt => effect.body = "complete_response" /\ effect.hash = h

LEMMA LeaveKeeps ==
  ASSUME NEW row \in JobRow, NEW rows \in Rows, NEW old \in EffectRow,
         NEW effect \in EffectRow, NEW lock \in TxnRow, JobOK(row, rows, old, lock),
         NEW s, NEW t, NEW h, NEW n, NEW f, Leaves(row, old, effect, s, t, h, n, f)
  PROVE  JobOK(Moved(row, s, row.attempt_count, n, f, NoLease),
               Closed(rows, row.current_attempt, t, h), effect, NoTxn)
<1> USE DEF Leaves
<1> DEFINE r == Moved(row, s, row.attempt_count, n, f, NoLease)
           a == Closed(rows, row.current_attempt, t, h)
<1>1. /\ r.state = s /\ r.attempt_count = row.attempt_count /\ r.current_attempt = n
      /\ r.current_fence = f /\ r.lease = NoLease
  BY DEF Moved
<1>2. \A m \in AttemptNo :
        /\ a[m].fence = rows[m].fence
        /\ a[m].lease = rows[m].lease
        /\ a[m].state = IF m = row.current_attempt /\ rows[m].state = "running"
                        THEN t ELSE rows[m].state
        /\ a[m].hash = IF m = row.current_attempt /\ rows[m].state = "running"
                       THEN h ELSE rows[m].hash
  BY ClosedAt
<1>3. row.state = "running" => row.current_attempt \in AttemptNo
  BY DEF JobOK, RowConstraints, JobRow, NoAttempt, AttemptNo
<1>4. \A m \in AttemptNo : rows[m].fence \in Nat
  BY DEF Rows, AttemptRow
<1> HIDE DEF r, a
<1>5. RowConstraints(r, a)
  BY <1>1, <1>2, <1>3 DEF JobOK, RowConstraints, NoLease, NoAttempt, Waiting
<1>6. LiveIsCurrent(r, a)
  BY <1>1, <1>2, <1>3 DEF JobOK, LiveIsCurrent, Waiting
<1>7. FencesOrdered(r, a)
  <2> SUFFICES ASSUME NEW m \in AttemptNo
               PROVE  /\ a[m].state /= "absent" <=> m <= r.attempt_count
                      /\ a[m].fence <= r.current_fence
                      /\ \A i \in AttemptNo : i < m /\ m <= r.attempt_count =>
                                              a[i].fence < a[m].fence
    BY DEF FencesOrdered
  <2>1. a[m].state /= "absent" <=> m <= r.attempt_count
    BY <1>1, <1>2 DEF JobOK, FencesOrdered
  <2>2. a[m].fence <= r.current_fence
    BY <1>1, <1>2, <1>4 DEF JobOK, FencesOrdered, JobRow
  <2>3. \A i \in AttemptNo : i < m /\ m <= r.attempt_count => a[i].fence < a[m].fence
    BY <1>1, <1>2 DEF JobOK, FencesOrdered
  <2> QED
    BY <2>1, <2>2, <2>3
<1>8. Waiting(r) => Claimable(r)
  BY <1>1 DEF Waiting, Claimable
<1>9. EffectOfLast(r, effect)
  BY <1>1 DEF JobOK, EffectOfLast, NoEffect, Waiting
<1>10. Decodes(r, a, effect)
  <2>1. \A m \in AttemptNo : a[m].state = "retriable" => a[m].hash = "retriable"
    BY <1>2 DEF JobOK, Decodes
  <2>2. r.state \in Terminal /\ r.current_attempt /= NoAttempt =>
          /\ effect.attempt = r.current_attempt
          /\ effect.body = "complete_response"
          /\ effect.hash = a[r.current_attempt].hash
    BY <1>1, <1>2, <1>3 DEF JobOK, RowConstraints, LiveIsCurrent, Terminal, Waiting
  <2> QED
    BY <2>1, <2>2 DEF Decodes
<1> QED
  BY <1>5, <1>6, <1>7, <1>8, <1>9, <1>10 DEF JobOK, r, a

\* An attempt is leased to a worker.
LEMMA LeaseKeeps ==
  ASSUME NEW row \in JobRow, NEW rows \in Rows, NEW effect \in EffectRow, NEW w \in Worker,
         JobOK(row, rows, effect, NoTxn), Claimable(row),
         NEW n \in AttemptNo, n = row.attempt_count + 1,
         NEW f \in Nat, f = row.current_fence + 1
  PROVE  JobOK(Moved(row, "running", n, n, f, LeaseSeconds),
               [rows EXCEPT ![n] = [state |-> "running", fence |-> f, worker |-> w,
                                    lease |-> LeaseSeconds, hash |-> "none"]],
               effect, NoTxn)
<1> DEFINE r == Moved(row, "running", n, n, f, LeaseSeconds)
           a == [rows EXCEPT ![n] = [state |-> "running", fence |-> f, worker |-> w,
                                     lease |-> LeaseSeconds, hash |-> "none"]]
<1>1. /\ r.state = "running" /\ r.attempt_count = n /\ r.current_attempt = n
      /\ r.current_fence = f /\ r.lease = LeaseSeconds
  BY DEF Moved
<1>2. /\ a[n].state = "running" /\ a[n].fence = f /\ a[n].lease = LeaseSeconds
      /\ \A m \in AttemptNo \ {n} : a[m] = rows[m]
  BY DEF Rows
<1>3. row.state \in {"queued", "retriable"} /\ row.attempt_count \in Nat
      /\ row.current_fence \in Nat /\ NoLease /= LeaseSeconds
  BY LeaseSecondsAssumption DEF Claimable, Waiting, JobRow, NoLease
<1>4. \A m \in AttemptNo : m \in Nat /\ rows[m].fence \in Nat /\ rows[m].fence <= row.current_fence
  BY DEF JobOK, FencesOrdered, Rows, AttemptRow, AttemptNo
<1> HIDE DEF r, a
<1>5. RowConstraints(r, a)
  BY <1>1, <1>2, <1>3 DEF JobOK, RowConstraints, NoAttempt, AttemptNo
<1>6. LiveIsCurrent(r, a)
  BY <1>1, <1>2, <1>3 DEF JobOK, LiveIsCurrent
<1>7. FencesOrdered(r, a)
  <2> SUFFICES ASSUME NEW m \in AttemptNo
               PROVE  /\ a[m].state /= "absent" <=> m <= r.attempt_count
                      /\ a[m].fence <= r.current_fence
                      /\ \A i \in AttemptNo : i < m /\ m <= r.attempt_count =>
                                              a[i].fence < a[m].fence
    BY DEF FencesOrdered
  <2>1. a[m].state /= "absent" <=> m <= r.attempt_count
    BY <1>1, <1>2, <1>3, <1>4 DEF JobOK, FencesOrdered
  <2>2. a[m].fence <= r.current_fence
    BY <1>1, <1>2, <1>3, <1>4
  <2>3. \A i \in AttemptNo : i < m /\ m <= r.attempt_count => a[i].fence < a[m].fence
    BY <1>1, <1>2, <1>3, <1>4 DEF JobOK, FencesOrdered
  <2> QED
    BY <2>1, <2>2, <2>3
<1>8. Waiting(r) => Claimable(r)
  BY <1>1 DEF Waiting
<1>9. EffectOfLast(r, effect)
  BY <1>1, <1>3 DEF JobOK, EffectOfLast
<1>10. Decodes(r, a, effect)
  BY <1>1, <1>2 DEF JobOK, Decodes, Terminal
<1> QED
  BY <1>5, <1>6, <1>7, <1>8, <1>9, <1>10 DEF JobOK, r, a

\* Only the two expiries of a job change, and both to the same value.
LEMMA LeaseSetKeeps ==
  ASSUME NEW row, NEW rows, NEW effect, NEW lock, NEW new, NEW news, NEW newlock,
         JobOK(row, rows, effect, lock),
         new.state = row.state, new.attempt_count = row.attempt_count,
         new.current_attempt = row.current_attempt, new.current_fence = row.current_fence,
         new.lease = NoLease <=> row.lease = NoLease,
         row.current_attempt \in {NoAttempt} \cup AttemptNo,
         \A n \in AttemptNo : /\ news[n].state = rows[n].state
                              /\ news[n].fence = rows[n].fence
                              /\ news[n].hash = rows[n].hash
                              /\ rows[n].state = "running" => news[n].lease = new.lease,
         newlock \in {NoTxn, lock}, lock /= NoTxn => lock.attempt \in AttemptNo
  PROVE  JobOK(new, news, effect, newlock)
<1>1. RowConstraints(new, news)
  BY DEF JobOK, RowConstraints
<1>2. LiveIsCurrent(new, news)
  BY DEF JobOK, LiveIsCurrent
<1>3. FencesOrdered(new, news)
  BY DEF JobOK, FencesOrdered
<1>4. Waiting(new) => Claimable(new)
  BY DEF JobOK, Waiting, Claimable
<1>5. EffectOfLast(new, effect)
  BY DEF JobOK, EffectOfLast
<1>6. Decodes(new, news, effect)
  BY DEF JobOK, Decodes
<1>7. newlock /= NoTxn => Holds(new, news, newlock.attempt)
  BY DEF JobOK, Holds
<1> QED
  BY <1>1, <1>2, <1>3, <1>4, <1>5, <1>6, <1>7 DEF JobOK

\* The initial tables satisfy the invariant.
LEMMA InitIInv == Init => IInv
<1> SUFFICES ASSUME Init PROVE IInv
  OBVIOUS
<1>1. ASSUME NEW j \in Job PROVE JobOK(jobs[j], attempts[j], effects[j], txn[j])
  <2>1. /\ jobs[j] = AbsentJob
        /\ attempts[j] = [n \in AttemptNo |-> AbsentAttempt]
        /\ effects[j] = NoEffect
        /\ txn[j] = NoTxn
    BY DEF Init
  <2>2. RowConstraints(AbsentJob, attempts[j])
    BY DEF RowConstraints, AbsentJob, NoLease, NoAttempt
  <2>3. LiveIsCurrent(AbsentJob, attempts[j])
    BY <2>1 DEF LiveIsCurrent, AbsentJob, AbsentAttempt
  <2>4. FencesOrdered(AbsentJob, attempts[j])
    BY <2>1, MaxAttemptsAssumption DEF FencesOrdered, AbsentJob, AbsentAttempt, AttemptNo
  <2> QED
    BY <2>1, <2>2, <2>3, <2>4
       DEF JobOK, Waiting, EffectOfLast, Decodes, AbsentJob, AbsentAttempt, NoEffect, NoAttempt
<1>2. AnswersHold
  BY DEF Init, AnswersHold
<1> QED
  BY <1>1, <1>2, InitTyped DEF IInv

\* An answer stays on record: attempt rows that are closed keep their outcome,
\* effects are never replaced, and a step adds at most one answer, on record too.
LEMMA AnswersKept ==
  ASSUME TypeOK, AnswersHold, NEW x,
         answers' \subseteq answers \cup {x},
         \A a \in answers :
           /\ attempts'[a.job][a.attempt].state = attempts[a.job][a.attempt].state
           /\ attempts'[a.job][a.attempt].hash = attempts[a.job][a.attempt].hash,
         \A a \in answers : a.outcome /= "retriable" => effects'[a.job] = effects[a.job],
         x \in answers' =>
           /\ attempts'[x.job][x.attempt].state \notin {"absent", "running"}
           /\ attempts'[x.job][x.attempt].hash = x.outcome
           /\ x.outcome /= "retriable" =>
                /\ effects'[x.job].attempt = x.attempt
                /\ effects'[x.job].hash = x.outcome
  PROVE  AnswersHold'
BY DEF AnswersHold

\* Every step preserves the invariant, one action at a time.
LEMMA NextIInv == IInv /\ [Next]_vars => IInv'
<1> SUFFICES ASSUME IInv, [Next]_vars PROVE IInv'
  OBVIOUS
<1> DEFINE OK(j) == JobOK(jobs[j], attempts[j], effects[j], txn[j])
<1>t. TypeOK /\ TypeOK'
  BY NextTyped DEF IInv
<1>a. AnswersHold /\ \A j \in Job : OK(j)
  BY DEF IInv
<1>r. \A j \in Job : /\ jobs[j] \in JobRow /\ attempts[j] \in Rows
                     /\ effects[j] \in EffectRow /\ txn[j] \in TxnRow
  BY <1>t DEF TypeOK, Rows
<1>1. ASSUME NEW j \in Job, NEW k \in Key, NEW p \in Payload, CreateJob(j, k, p)
      PROVE  IInv'
  <2>1. JobOK(Moved(jobs[j], "queued", 0, NoAttempt, 0, NoLease), attempts[j], effects[j], txn[j])
    BY <1>1, <1>a, <1>r, CreateKeeps DEF CreateJob
  <2>2. \A i \in Job : OK(i)'
    BY <1>1, <1>t, <1>a, <2>1 DEF CreateJob, TypeOK
  <2>3. AnswersHold'
    BY <1>1, <1>a DEF CreateJob, AnswersHold
  <2> QED
    BY <1>t, <2>2, <2>3 DEF IInv
<1>2. ASSUME NEW j \in Job, NEW k \in Key, NEW p \in Payload,
             NEW r \in 1..jobs[j].revision, CancelJob(j, k, p, r)
      PROVE  IInv'
  <2>1. JobOK(Moved(jobs[j], "canceled", jobs[j].attempt_count, NoAttempt,
                    NextFence(jobs[j].current_fence), NoLease),
              Closed(attempts[j], jobs[j].current_attempt, "canceled", "none"),
              effects[j], NoTxn)
    <3>1. jobs[j].state = "running" \/ Waiting(jobs[j])
      BY <1>2, <1>r DEF CancelJob, Waiting, JobRow, JobState, Terminal
    <3>2. /\ NextFence(jobs[j].current_fence) \in Nat
          /\ NextFence(jobs[j].current_fence) >= jobs[j].current_fence
      BY <1>r DEF NextFence, JobRow
    <3>3. Leaves(jobs[j], effects[j], effects[j], "canceled", "canceled", "none", NoAttempt,
                 NextFence(jobs[j].current_fence))
      BY <3>1, <3>2 DEF Leaves
    <3> QED
      BY <1>a, <1>r, <3>3, LeaveKeeps
  <2>2. \A i \in Job : OK(i)'
    BY <1>2, <1>t, <1>a, <2>1 DEF CancelJob, Unlocked, TypeOK
  <2>3. \A a \in answers :
           /\ attempts'[a.job][a.attempt].state = attempts[a.job][a.attempt].state
           /\ attempts'[a.job][a.attempt].hash = attempts[a.job][a.attempt].hash
    BY <1>2, <1>t, <1>a, <1>r, ClosedAt DEF CancelJob, TypeOK, AnswersHold
  <2>4. AnswersHold'
    BY <1>2, <1>a, <2>3 DEF CancelJob, AnswersHold
  <2> QED
    BY <1>t, <2>2, <2>4 DEF IInv
<1>3. ASSUME NEW j \in Job, ReapExpired(j) PROVE IInv'
  <2> DEFINE exhausted == jobs[j].attempt_count >= MaxAttempts
             s == IF exhausted THEN "failed" ELSE "retriable"
             e == IF exhausted THEN ExhaustedEffect(j) ELSE effects[j]
  <2>1. JobOK(Moved(jobs[j], s, jobs[j].attempt_count, NoAttempt,
                    jobs[j].current_fence, NoLease),
              Closed(attempts[j], jobs[j].current_attempt, "expired", "none"), e, NoTxn)
    <3>1. jobs[j].state = "running" /\ effects[j] = NoEffect
      BY <1>3, <1>a DEF ReapExpired, Expired, JobOK, EffectOfLast
    <3>2. jobs[j].current_attempt = jobs[j].attempt_count
      BY <1>a, <3>1 DEF JobOK, RowConstraints
    <3>3. jobs[j].current_fence \in Nat /\ jobs[j].attempt_count \in Nat
          /\ jobs[j].current_fence >= jobs[j].current_fence
      BY <1>r DEF JobRow
    <3>4. e \in EffectRow
      BY <1>r, <3>1, <3>3 DEF ExhaustedEffect, EffectRow, JobRow
    <3>5. exhausted => e.state = "failed" /\ e.attempt = jobs[j].attempt_count
                       /\ e.fence = jobs[j].current_fence
      BY <3>1, <3>2 DEF ExhaustedEffect
    <3>6. s = "retriable" => jobs[j].attempt_count < MaxAttempts /\ e = effects[j]
      BY <3>3, MaxAttemptsAssumption
    <3>7. s = "failed" => exhausted
      OBVIOUS
    <3>8. s \in {"failed", "retriable"}
      OBVIOUS
    <3>9. /\ s \in {"retriable", "canceled"} => e = effects[j]
          /\ s \notin {"retriable", "canceled"} =>
               /\ e.state = s
               /\ e.attempt = jobs[j].attempt_count
               /\ e.fence = jobs[j].current_fence
      BY <3>5, <3>6, <3>7, <3>8
    <3> HIDE DEF s, e, exhausted
    <3>10. Leaves(jobs[j], effects[j], e, s, "expired", "none", NoAttempt, jobs[j].current_fence)
      BY <3>1, <3>3, <3>6, <3>8, <3>9 DEF Leaves
    <3> QED
      BY <1>a, <1>r, <3>4, <3>10, LeaveKeeps
  <2>2. /\ jobs' = [jobs EXCEPT ![j] = Moved(@, s, @.attempt_count, NoAttempt,
                                             @.current_fence, NoLease)]
        /\ attempts' = [attempts EXCEPT ![j] = Closed(@, jobs[j].current_attempt, "expired", "none")]
        /\ effects' = [effects EXCEPT ![j] = e]
        /\ txn[j] = NoTxn /\ UNCHANGED <<txn, answers>>
    BY <1>3, <1>r DEF ReapExpired, Unlocked
  <2> HIDE DEF s, e, exhausted
  <2>3. \A i \in Job : OK(i)'
    BY <1>t, <1>a, <2>1, <2>2 DEF TypeOK
  <2>4. \A a \in answers :
           /\ attempts'[a.job][a.attempt].state = attempts[a.job][a.attempt].state
           /\ attempts'[a.job][a.attempt].hash = attempts[a.job][a.attempt].hash
    BY <1>t, <1>a, <1>r, <2>2, ClosedAt DEF TypeOK, AnswersHold
  <2>5. \A a \in answers : a.outcome /= "retriable" => effects'[a.job] = effects[a.job]
    <3>1. effects[j] = NoEffect
      BY <1>3, <1>a DEF ReapExpired, Expired, JobOK, EffectOfLast
    <3>2. \A a \in answers : a.attempt /= NoAttempt /\ a.job \in Job
      BY <1>t, MaxAttemptsAssumption DEF TypeOK, AttemptNo, NoAttempt
    <3> QED
      BY <1>t, <1>a, <2>2, <3>1, <3>2 DEF AnswersHold, NoEffect, TypeOK
  <2>6. AnswersHold'
    BY <1>a, <2>2, <2>4, <2>5 DEF AnswersHold
  <2> QED
    BY <1>t, <2>3, <2>6 DEF IInv
<1>4. ASSUME NEW j \in Job, NEW w \in Worker, LeaseJob(j, w) PROVE IInv'
  <2> DEFINE n == jobs[j].attempt_count + 1
             f == NextFence(jobs[j].current_fence)
             new == [state |-> "running", fence |-> f, worker |-> w,
                     lease |-> LeaseSeconds, hash |-> "none"]
  <2>1. n \in AttemptNo /\ f \in Nat /\ f = jobs[j].current_fence + 1
    BY <1>4, <1>r, MaxAttemptsAssumption
       DEF LeaseJob, NextClaim, Claimable, AttemptNo, JobRow, NextFence
  <2>2. /\ jobs' = [jobs EXCEPT ![j] = Moved(@, "running", n, n, f, LeaseSeconds)]
        /\ attempts' = [attempts EXCEPT ![j] = [@ EXCEPT ![n] = new]]
        /\ txn[j] = NoTxn /\ UNCHANGED <<effects, txn, answers>> /\ Claimable(jobs[j])
    BY <1>4 DEF LeaseJob, NextClaim, Unlocked
  <2>3. JobOK(Moved(jobs[j], "running", n, n, f, LeaseSeconds),
              [attempts[j] EXCEPT ![n] = new], effects[j], NoTxn)
    BY <1>a, <1>r, <2>1, <2>2, LeaseKeeps
  <2>4. attempts[j][n].state = "absent"
    BY <1>a, <1>r, <2>1 DEF JobOK, FencesOrdered, JobRow
  <2> HIDE DEF n, f, new
  <2>5. \A i \in Job : OK(i)'
    BY <1>t, <1>a, <2>2, <2>3 DEF TypeOK
  <2>6. \A a \in answers : attempts'[a.job][a.attempt] = attempts[a.job][a.attempt]
    BY <1>t, <1>a, <2>1, <2>2, <2>4 DEF TypeOK, AnswersHold
  <2>7. AnswersHold'
    BY <1>a, <2>2, <2>6 DEF AnswersHold
  <2> QED
    BY <1>t, <2>5, <2>7 DEF IInv
<1>5. ASSUME NEW j \in Job, NEW n \in AttemptNo, NEW o \in Outcome \cup {"none"},
             NEW op \in {"renew", "complete"},
             Holds(jobs[j], attempts[j], n),
             txn' = [txn EXCEPT ![j] = [op |-> op, attempt |-> n, outcome |-> o]],
             UNCHANGED <<jobs, attempts, effects, answers>>
      PROVE  IInv'
  <2>1. \A i \in Job : OK(i)'
    BY <1>5, <1>t, <1>a DEF TypeOK, JobOK
  <2>2. AnswersHold'
    BY <1>5, <1>a DEF AnswersHold
  <2> QED
    BY <1>t, <2>1, <2>2 DEF IInv
<1>6. ASSUME NEW j \in Job, RenewCommit(j) PROVE IInv'
  <2> DEFINE n == txn[j].attempt
             new == [jobs[j] EXCEPT !.lease = LeaseSeconds]
             news == [attempts[j] EXCEPT ![n].lease = LeaseSeconds]
  <2>1. txn[j] /= NoTxn /\ n \in AttemptNo
    BY <1>6, <1>r DEF RenewCommit, TxnRow, NoTxn
  <2>2. Holds(jobs[j], attempts[j], n)
    BY <1>a, <2>1 DEF JobOK
  <2>3. /\ jobs' = [jobs EXCEPT ![j] = new]
        /\ attempts' = [attempts EXCEPT ![j] = news]
        /\ txn' = [txn EXCEPT ![j] = NoTxn]
        /\ UNCHANGED <<effects, answers>>
    BY <1>6, <2>2 DEF RenewCommit, Holds
  <2>4. /\ new.state = jobs[j].state /\ new.attempt_count = jobs[j].attempt_count
        /\ new.current_attempt = jobs[j].current_attempt
        /\ new.current_fence = jobs[j].current_fence /\ new.lease = LeaseSeconds
    BY <1>r DEF JobRow
  <2>5. \A m \in AttemptNo : /\ news[m].state = attempts[j][m].state
                             /\ news[m].fence = attempts[j][m].fence
                             /\ news[m].hash = attempts[j][m].hash
                             /\ m = n => news[m].lease = LeaseSeconds
    BY <1>r, <2>1 DEF Rows, AttemptRow
  <2>6. \A m \in AttemptNo : attempts[j][m].state = "running" => m = n
    BY <1>a, <2>2 DEF JobOK, LiveIsCurrent, Holds
  <2>7. new.lease = NoLease <=> jobs[j].lease = NoLease
    BY <1>a, <2>2, <2>4, LeaseSecondsAssumption DEF JobOK, RowConstraints, Holds, NoLease
  <2>8. jobs[j].current_attempt \in {NoAttempt} \cup AttemptNo
    BY <2>1, <2>2 DEF Holds
  <2> HIDE DEF n, new, news
  <2>9. JobOK(new, news, effects[j], NoTxn)
    BY <1>a, <2>1, <2>4, <2>5, <2>6, <2>7, <2>8, LeaseSetKeeps DEF n
  <2>10. \A i \in Job : OK(i)'
    BY <1>t, <1>a, <2>3, <2>9 DEF TypeOK
  <2>11. AnswersHold'
    BY <1>t, <1>a, <2>3, <2>5 DEF AnswersHold, TypeOK
  <2> QED
    BY <1>t, <2>10, <2>11 DEF IInv
<1>7. ASSUME NEW j \in Job, NEW n \in AttemptNo, NEW o \in Outcome, CompleteReplay(j, n, o)
      PROVE  IInv'
  <2>1. \A i \in Job : OK(i)'
    BY <1>7, <1>a DEF CompleteReplay
  <2>2. /\ attempts[j][n].state \notin {"absent", "running"}
        /\ attempts[j][n].hash = o
        /\ o /= "retriable" => effects[j].attempt = n /\ effects[j].hash = o
    <3>1. CASE RetryReplayed(j, n) /\ attempts[j][n].state = "retriable"
               /\ attempts[j][n].hash = o
      BY <1>a, <3>1 DEF JobOK, Decodes
    <3>2. CASE TerminalReplayed(j, n) /\ effects[j].attempt = n /\ effects[j].hash = o
      <4>1. n <= jobs[j].attempt_count
        BY <1>a, <1>r, <3>2, MaxAttemptsAssumption
           DEF TerminalReplayed, JobOK, RowConstraints, AttemptNo, NoAttempt, JobRow
      <4>2. attempts[j][n].state \notin {"absent", "running"}
        BY <1>a, <3>2, <4>1 DEF TerminalReplayed, JobOK, FencesOrdered, LiveIsCurrent
      <4>3. attempts[j][n].hash = o
        BY <1>a, <3>2, MaxAttemptsAssumption
           DEF TerminalReplayed, JobOK, Decodes, Terminal, AttemptNo, NoAttempt
      <4> QED
        BY <3>2, <4>2, <4>3
    <3> QED
      BY <1>7, <3>1, <3>2 DEF CompleteReplay, SameCompletion
  <2>3. AnswersHold'
    BY <1>7, <1>a, <2>2 DEF CompleteReplay, AnswersHold
  <2> QED
    BY <1>t, <2>1, <2>3 DEF IInv
<1>8. ASSUME NEW j \in Job, CompleteCommit(j) PROVE IInv'
  <2> DEFINE n == txn[j].attempt
             o == txn[j].outcome
             s == Effective(jobs[j], o)
             k == KeptAttempt(jobs[j], s)
             e == IF s /= "retriable"
                  THEN [state |-> s, attempt |-> n, fence |-> attempts[j][n].fence,
                        hash |-> o, body |-> "complete_response"]
                  ELSE effects[j]
             x == [job |-> j, attempt |-> n, outcome |-> o]
  <2>1. txn[j] /= NoTxn /\ n \in AttemptNo /\ o \in Outcome
    BY <1>8, <1>r DEF CompleteCommit, TxnRow, NoTxn
  <2>2. Holds(jobs[j], attempts[j], n) /\ effects[j] = NoEffect
    BY <1>a, <2>1 DEF JobOK, Holds, EffectOfLast
  <2>3. /\ s \in {"retriable", "succeeded", "failed"}
        /\ s = "retriable" => o = "retriable" /\ jobs[j].attempt_count < MaxAttempts
    BY <1>r, <2>1, MaxAttemptsAssumption DEF Effective, Outcome, JobRow
  <2>4. /\ k \in {NoAttempt, jobs[j].current_attempt}
        /\ s = "retriable" => k = NoAttempt
    BY DEF KeptAttempt
  <2>5. /\ jobs[j].current_attempt = n /\ jobs[j].attempt_count = n
        /\ attempts[j][n].fence = jobs[j].current_fence /\ jobs[j].current_fence \in Nat
        /\ jobs[j].current_fence >= jobs[j].current_fence
    BY <1>a, <1>r, <2>1, <2>2, MaxAttemptsAssumption
       DEF JobOK, RowConstraints, Holds, JobRow, NoAttempt, AttemptNo
  <2>6. e \in EffectRow
    BY <1>r, <2>1, <2>3, <2>5 DEF EffectRow, Outcome, AttemptNo
  <2>7. /\ s = "retriable" => e = effects[j]
        /\ s /= "retriable" => /\ e.state = s /\ e.attempt = n
                               /\ e.fence = jobs[j].current_fence
                               /\ e.body = "complete_response" /\ e.hash = o
    BY <2>5
  <2>8. /\ jobs' = [jobs EXCEPT ![j] = Moved(@, s, @.attempt_count, k, @.current_fence, NoLease)]
        /\ attempts' = [attempts EXCEPT ![j] = Closed(@, n, s, o)]
        /\ effects' = [effects EXCEPT ![j] = e]
        /\ txn' = [txn EXCEPT ![j] = NoTxn]
        /\ answers' = answers \cup {x}
    BY <1>8 DEF CompleteCommit
  <2>9. x.job = j /\ x.attempt = n /\ x.outcome = o
    OBVIOUS
  <2> HIDE DEF n, o, s, k, e, x
  <2>10. JobOK(Moved(jobs[j], s, jobs[j].attempt_count, k, jobs[j].current_fence, NoLease),
               Closed(attempts[j], n, s, o), e, NoTxn)
    <3>1. jobs[j].state = "running"
      BY <2>2 DEF Holds
    <3>2. JobOK(Moved(jobs[j], s, jobs[j].attempt_count, k, jobs[j].current_fence, NoLease),
                Closed(attempts[j], jobs[j].current_attempt, s, o), e, NoTxn)
      <4>1. /\ s \in {"retriable", "canceled"} => e = effects[j] /\ k = NoAttempt
            /\ s \notin {"retriable", "canceled"} =>
                 /\ e.state = s
                 /\ e.attempt = jobs[j].attempt_count
                 /\ e.fence = jobs[j].current_fence
                 /\ e.body = "complete_response" /\ e.hash = o
            /\ s /= "canceled"
        BY <2>3, <2>4, <2>5, <2>7
      <4>2. Leaves(jobs[j], effects[j], e, s, s, o, k, jobs[j].current_fence)
        BY <2>3, <2>4, <2>5, <3>1, <4>1 DEF Leaves
      <4> QED
        BY <1>a, <1>r, <2>6, <4>2, LeaveKeeps
    <3> QED
      BY <2>5, <3>2
  <2>11. \A i \in Job : OK(i)'
    BY <1>t, <1>a, <2>8, <2>10 DEF TypeOK
  <2>12. \A a \in answers :
           /\ attempts'[a.job][a.attempt].state = attempts[a.job][a.attempt].state
           /\ attempts'[a.job][a.attempt].hash = attempts[a.job][a.attempt].hash
    BY <1>t, <1>a, <1>r, <2>8, ClosedAt DEF TypeOK, AnswersHold
  <2>13. \A a \in answers : a.outcome /= "retriable" => effects'[a.job] = effects[a.job]
    <3>1. \A a \in answers : a.attempt /= NoAttempt /\ a.job \in Job
      BY <1>t, MaxAttemptsAssumption DEF TypeOK, AttemptNo, NoAttempt
    <3> QED
      BY <1>t, <1>a, <2>2, <2>8, <3>1 DEF AnswersHold, NoEffect, TypeOK
  <2>14. /\ attempts'[j][n].state \notin {"absent", "running"}
         /\ attempts'[j][n].hash = o
         /\ o /= "retriable" => effects'[j].attempt = n /\ effects'[j].hash = o
    <3>1. attempts'[j] = Closed(attempts[j], n, s, o) /\ effects'[j] = e
      BY <1>t, <2>8 DEF TypeOK
    <3>2. attempts[j][n].state = "running"
      BY <2>2 DEF Holds
    <3>3. attempts'[j][n].state = s /\ attempts'[j][n].hash = o
      BY <1>r, <2>1, <3>1, <3>2, ClosedAt
    <3> QED
      BY <2>3, <2>7, <3>1, <3>3
  <2>15. AnswersHold'
    BY <1>t, <1>a, <2>8, <2>9, <2>12, <2>13, <2>14, AnswersKept
  <2> QED
    BY <1>t, <2>11, <2>15 DEF IInv
<1>9. ASSUME NEW j \in Job, Rollback(j) PROVE IInv'
  <2>1. \A i \in Job : OK(i)'
    BY <1>9, <1>t, <1>a DEF Rollback, TypeOK, JobOK
  <2>2. AnswersHold'
    BY <1>9, <1>a DEF Rollback, AnswersHold
  <2> QED
    BY <1>t, <2>1, <2>2 DEF IInv
<1>10. CASE Tick
  <2>1. ASSUME NEW j \in Job PROVE OK(j)'
    <3> DEFINE new == [jobs[j] EXCEPT !.lease = OneLess(jobs[j].lease)]
               news == [n \in AttemptNo |->
                          [attempts[j][n] EXCEPT !.lease = OneLess(attempts[j][n].lease)]]
    <3>1. jobs'[j] = new /\ attempts'[j] = news /\ effects'[j] = effects[j] /\ txn'[j] = txn[j]
      BY <1>10 DEF Tick
    <3>2. /\ new.state = jobs[j].state /\ new.attempt_count = jobs[j].attempt_count
          /\ new.current_attempt = jobs[j].current_attempt
          /\ new.current_fence = jobs[j].current_fence /\ new.lease = OneLess(jobs[j].lease)
      BY <1>r DEF JobRow
    <3>3. \A m \in AttemptNo : /\ news[m].state = attempts[j][m].state
                               /\ news[m].fence = attempts[j][m].fence
                               /\ news[m].hash = attempts[j][m].hash
                               /\ news[m].lease = OneLess(attempts[j][m].lease)
      BY <1>r DEF Rows, AttemptRow
    <3>4. \A m \in AttemptNo : attempts[j][m].state = "running" =>
                                 attempts[j][m].lease = jobs[j].lease
      BY <1>a DEF JobOK, LiveIsCurrent
    <3>5. new.lease = NoLease <=> jobs[j].lease = NoLease
      BY <1>r, <3>2, LeaseSecondsAssumption DEF OneLess, NoLease, JobRow
    <3>6. /\ jobs[j].current_attempt \in {NoAttempt} \cup AttemptNo
          /\ txn[j] /= NoTxn => txn[j].attempt \in AttemptNo
      BY <1>r, MaxAttemptsAssumption DEF JobRow, TxnRow, NoAttempt, AttemptNo
    <3> HIDE DEF new, news
    <3>7. JobOK(new, news, effects[j], txn[j])
      BY <1>a, <3>2, <3>3, <3>4, <3>5, <3>6, LeaseSetKeeps
    <3> QED
      BY <3>1, <3>7
  <2>2. \A a \in answers :
           /\ attempts'[a.job][a.attempt].state = attempts[a.job][a.attempt].state
           /\ attempts'[a.job][a.attempt].hash = attempts[a.job][a.attempt].hash
    <3> SUFFICES ASSUME NEW j \in Job, NEW n \in AttemptNo
                 PROVE  /\ attempts'[j][n].state = attempts[j][n].state
                        /\ attempts'[j][n].hash = attempts[j][n].hash
      BY <1>t DEF TypeOK
    <3>1. attempts'[j][n] = [attempts[j][n] EXCEPT !.lease = OneLess(attempts[j][n].lease)]
      BY <1>10 DEF Tick
    <3> QED
      BY <1>r, <3>1 DEF Rows, AttemptRow
  <2>3. AnswersHold'
    BY <1>10, <1>a, <2>2 DEF Tick, AnswersHold
  <2> QED
    BY <1>t, <2>1, <2>3 DEF IInv
<1>11. ASSUME UNCHANGED <<jobs, attempts, effects, txn, answers>> PROVE IInv'
  <2>1. \A i \in Job : OK(i)'
    BY <1>11, <1>a
  <2>2. AnswersHold'
    BY <1>11, <1>a DEF AnswersHold
  <2> QED
    BY <1>t, <2>1, <2>2 DEF IInv
<1>12. ASSUME NEW j \in Job, NEW n \in AttemptNo, RenewLock(j, n) PROVE IInv'
  BY <1>5, <1>12 DEF RenewLock
<1>13. ASSUME NEW j \in Job, NEW n \in AttemptNo, NEW o \in Outcome, CompleteLock(j, n, o)
       PROVE  IInv'
  BY <1>5, <1>13 DEF CompleteLock
<1>14. ASSUME NEW w \in Worker, Crash(w) PROVE IInv'
  BY <1>11, <1>14 DEF Crash
<1>15. CASE UNCHANGED vars
  BY <1>11, <1>15 DEF vars
<1> QED
  BY <1>1, <1>2, <1>3, <1>4, <1>6, <1>7, <1>8, <1>9, <1>10, <1>12, <1>13, <1>14, <1>15
     DEF Next

LEMMA Invariant == Spec => []IInv
BY InitIInv, NextIInv, PTL DEF Spec

-----------------------------------------------------------------------------
(* What follows from the invariant in every state. *)

\* A job is decided by its last attempt under its current fence, and by
\* nothing else: complete_job, reap_expired and cancel_job between them keep
\* job_effects in step with jobs whatever requests arrive late or twice.
THEOREM EffectSafety == Spec => []EffectOfLastAttempt
<1>1. IInv => EffectOfLastAttempt
  BY DEF IInv, JobOK, EffectOfLastAttempt
<1> QED
  BY <1>1, Invariant, PTL

\* complete_job tells an attempt OK for one outcome only, the one recorded.
THEOREM AnswerSafety == Spec => []AnswersHold
<1>1. IInv => AnswersHold
  BY DEF IInv
<1> QED
  BY <1>1, Invariant, PTL

\* A job has a running attempt exactly while it runs, and only one, under its
\* current fence; the expiries of the two tables never disagree.
THEOREM LiveAttemptSafety == Spec => []OneLiveAttempt
<1>1. IInv => OneLiveAttempt
  BY DEF IInv, JobOK, OneLiveAttempt
<1> QED
  BY <1>1, Invariant, PTL

\* A renewal or completion that passed its live check still finds its attempt
\* current when it commits: the row lock is enough.
THEOREM LockSafety == Spec => []LockHolds
<1>1. IInv => LockHolds
  BY DEF IInv, JobOK, LockHolds
<1> QED
  BY <1>1, Invariant, PTL

\* No job waits where lease_job can no longer claim it.
THEOREM StrandingSafety == Spec => []NeverStranded
<1>1. IInv => NeverStranded
  BY DEF IInv, JobOK, NeverStranded
<1> QED
  BY <1>1, Invariant, PTL

\* The terminal replay branch of complete_job always finds a body it can decode.
THEOREM ReplaySafety == Spec => []ReplayDecodes
<1>1. IInv => ReplayDecodes
  BY DEF IInv, JobOK, ReplayDecodes
<1> QED
  BY <1>1, Invariant, PTL

-----------------------------------------------------------------------------
(* What follows from the invariant about every step. *)

\* Closing the running attempt changes no attempt that is closed already.
LEMMA ClosedSpares ==
  ASSUME NEW rows \in Rows, NEW n, NEW s, NEW h, NEW m \in AttemptNo,
         rows[m].state /= "running"
  PROVE  Closed(rows, n, s, h)[m].state = rows[m].state
         /\ Closed(rows, n, s, h)[m].hash = rows[m].hash
BY ClosedAt

\* One step leaves a settled job, its effect and every closed attempt alone.
SettledStays(j) ==
  /\ jobs[j].state \in Terminal => jobs'[j] = jobs[j] /\ effects'[j] = effects[j]
  /\ \A n \in AttemptNo : attempts[j][n].state \notin {"absent", "running"} =>
       /\ attempts'[j][n].state = attempts[j][n].state
       /\ attempts'[j][n].hash = attempts[j][n].hash

LEMMA SettledStep == IInv /\ [Next]_vars => \A j \in Job : SettledStays(j)
<1> SUFFICES ASSUME IInv, [Next]_vars, NEW i \in Job PROVE SettledStays(i)
  OBVIOUS
<1>t. TypeOK /\ \A j \in Job : JobOK(jobs[j], attempts[j], effects[j], txn[j])
  BY DEF IInv
<1>r. \A j \in Job : /\ jobs[j] \in JobRow /\ attempts[j] \in Rows
                     /\ txn[j] \in TxnRow
  BY <1>t DEF TypeOK, Rows
<1>c. \A j \in Job : \A n, s, h : \A m \in AttemptNo : attempts[j][m].state /= "running" =>
        /\ Closed(attempts[j], n, s, h)[m].state = attempts[j][m].state
        /\ Closed(attempts[j], n, s, h)[m].hash = attempts[j][m].hash
  BY <1>r, ClosedSpares
<1>1. ASSUME NEW j \in Job, NEW k \in Key, NEW p \in Payload, CreateJob(j, k, p)
      PROVE  SettledStays(i)
  BY <1>1, <1>t DEF CreateJob, SettledStays, Terminal, TypeOK
<1>2. ASSUME NEW j \in Job, NEW k \in Key, NEW p \in Payload,
             NEW r \in 1..jobs[j].revision, CancelJob(j, k, p, r)
      PROVE  SettledStays(i)
  BY <1>2, <1>t, <1>c DEF CancelJob, SettledStays, TypeOK
<1>3. ASSUME NEW j \in Job, ReapExpired(j) PROVE SettledStays(i)
  BY <1>3, <1>t, <1>c DEF ReapExpired, Expired, SettledStays, Terminal, TypeOK
<1>4. ASSUME NEW j \in Job, NEW w \in Worker, LeaseJob(j, w) PROVE SettledStays(i)
  <2> DEFINE n == jobs[j].attempt_count + 1
             new == [state |-> "running", fence |-> NextFence(jobs[j].current_fence),
                     worker |-> w, lease |-> LeaseSeconds, hash |-> "none"]
  <2>1. n \in AttemptNo
    BY <1>4, <1>r, MaxAttemptsAssumption DEF LeaseJob, NextClaim, Claimable, AttemptNo, JobRow
  <2>2. attempts[j][n].state = "absent"
    BY <1>t, <1>r, <2>1 DEF JobOK, FencesOrdered, JobRow
  <2>3. attempts' = [attempts EXCEPT ![j] = [@ EXCEPT ![n] = new]]
    BY <1>4 DEF LeaseJob
  <2> HIDE DEF n, new
  <2>4. \A m \in AttemptNo : attempts[i][m].state /= "absent" =>
                               attempts'[i][m] = attempts[i][m]
    BY <1>t, <2>1, <2>2, <2>3 DEF TypeOK
  <2>5. jobs[i].state \in Terminal => jobs'[i] = jobs[i] /\ effects'[i] = effects[i]
    BY <1>4, <1>t DEF LeaseJob, NextClaim, Claimable, Waiting, Terminal, TypeOK
  <2> QED
    BY <2>4, <2>5 DEF SettledStays
<1>5. ASSUME NEW j \in Job, RenewCommit(j) PROVE SettledStays(i)
  <2>1. txn[j] /= NoTxn
    BY <1>5 DEF RenewCommit, NoTxn
  <2>2. jobs[j].state = "running"
    BY <1>t, <2>1 DEF JobOK, Holds
  <2>3. jobs[i].state \in Terminal => jobs'[i] = jobs[i] /\ effects'[i] = effects[i]
    BY <1>5, <1>t, <2>2 DEF RenewCommit, Terminal, TypeOK
  <2>4. \A m \in AttemptNo : /\ attempts'[i][m].state = attempts[i][m].state
                             /\ attempts'[i][m].hash = attempts[i][m].hash
    BY <1>5, <1>t DEF RenewCommit, TypeOK, AttemptRow
  <2> QED
    BY <2>3, <2>4 DEF SettledStays
<1>6. ASSUME NEW j \in Job, CompleteCommit(j) PROVE SettledStays(i)
  <2>1. txn[j] /= NoTxn
    BY <1>6 DEF CompleteCommit, NoTxn
  <2>2. jobs[j].state = "running"
    BY <1>t, <2>1 DEF JobOK, Holds
  <2>3. jobs[i].state \in Terminal => jobs'[i] = jobs[i] /\ effects'[i] = effects[i]
    BY <1>6, <1>t, <2>2 DEF CompleteCommit, Terminal, TypeOK
  <2>4. \A m \in AttemptNo : attempts[i][m].state /= "running" =>
                             /\ attempts'[i][m].state = attempts[i][m].state
                             /\ attempts'[i][m].hash = attempts[i][m].hash
    BY <1>6, <1>t, <1>c DEF CompleteCommit, TypeOK
  <2> QED
    BY <2>3, <2>4 DEF SettledStays
<1>7. CASE Tick
  <2>1. jobs[i].state \in Terminal => jobs'[i] = jobs[i] /\ effects'[i] = effects[i]
    <3>1. jobs[i].state \in Terminal => jobs[i].lease = NoLease
      BY <1>t DEF JobOK, RowConstraints, Terminal
    <3>2. jobs'[i] = [jobs[i] EXCEPT !.lease = OneLess(jobs[i].lease)]
      BY <1>7 DEF Tick
    <3>3. OneLess(NoLease) = NoLease
      BY DEF OneLess, NoLease
    <3>4. [jobs[i] EXCEPT !.lease = jobs[i].lease] = jobs[i]
      BY <1>r DEF JobRow
    <3>5. UNCHANGED effects
      BY <1>7 DEF Tick
    <3> QED
      BY <3>1, <3>2, <3>3, <3>4, <3>5
  <2>2. \A m \in AttemptNo : attempts'[i][m] = [attempts[i][m] EXCEPT !.lease =
                                                   OneLess(attempts[i][m].lease)]
    BY <1>7 DEF Tick
  <2>3. \A m \in AttemptNo : /\ attempts'[i][m].state = attempts[i][m].state
                             /\ attempts'[i][m].hash = attempts[i][m].hash
    <3> SUFFICES ASSUME NEW m \in AttemptNo
                 PROVE  /\ attempts'[i][m].state = attempts[i][m].state
                        /\ attempts'[i][m].hash = attempts[i][m].hash
      OBVIOUS
    <3>1. attempts[i][m] \in AttemptRow
      BY <1>r DEF Rows
    <3>2. attempts'[i][m] = [attempts[i][m] EXCEPT !.lease = OneLess(attempts[i][m].lease)]
      BY <2>2
    <3> QED
      BY <3>1, <3>2 DEF AttemptRow
  <2> QED
    BY <2>1, <2>3, Zenon DEF SettledStays
<1>8. ASSUME UNCHANGED <<jobs, attempts, effects>> PROVE SettledStays(i)
  BY <1>8 DEF SettledStays
<1>9. ASSUME NEW j \in Job, NEW n \in AttemptNo, RenewLock(j, n) PROVE SettledStays(i)
  BY <1>8, <1>9 DEF RenewLock
<1>10. ASSUME NEW j \in Job, NEW n \in AttemptNo, NEW o \in Outcome,
              CompleteLock(j, n, o) \/ CompleteReplay(j, n, o)
       PROVE  SettledStays(i)
  BY <1>8, <1>10 DEF CompleteLock, CompleteReplay
<1>11. ASSUME NEW j \in Job, Rollback(j) PROVE SettledStays(i)
  BY <1>8, <1>11 DEF Rollback
<1>12. ASSUME NEW w \in Worker, Crash(w) PROVE SettledStays(i)
  BY <1>8, <1>12 DEF Crash
<1>13. CASE UNCHANGED vars
  BY <1>8, <1>13 DEF vars
<1> QED
  BY <1>1, <1>2, <1>3, <1>4, <1>5, <1>6, <1>7, <1>9, <1>10, <1>11, <1>12, <1>13 DEF Next

\* Nothing that arrives late changes a settled job, its effect, or an attempt
\* that is closed.
THEOREM SettlingIsFinal == Spec => SettledForever
<1>1. IInv /\ [Next]_vars => [\A j \in Job :
        /\ jobs[j].state \in Terminal => jobs'[j] = jobs[j] /\ effects'[j] = effects[j]
        /\ \A n \in AttemptNo : attempts[j][n].state \notin {"absent", "running"} =>
             /\ attempts'[j][n].state = attempts[j][n].state
             /\ attempts'[j][n].hash = attempts[j][n].hash]_vars
  BY SettledStep DEF SettledStays
<1> QED
  BY <1>1, Invariant, PTL DEF Spec, SettledForever

\* What LapsedIsLost says of one job.
LapsedStays(j) ==
  Expired(j) /\ txn[j] = NoTxn =>
    /\ txn'[j] = NoTxn
    /\ jobs'[j].lease <= 0
    /\ {a \in answers' : a.job = j} = {a \in answers : a.job = j}

LEMMA LapsedStep == TypeOK /\ [Next]_vars => \A j \in Job : LapsedStays(j)
<1> SUFFICES ASSUME TypeOK, [Next]_vars, NEW i \in Job, Expired(i), txn[i] = NoTxn
             PROVE  LapsedStays(i)
  BY DEF LapsedStays
<1>r. \A j \in Job : jobs[j] \in JobRow
  BY DEF TypeOK
<1>e. jobs[i].state = "running" /\ jobs[i].lease = 0
  BY DEF Expired
<1>t. DOMAIN jobs = Job /\ DOMAIN txn = Job
  BY DEF TypeOK
\* Whoever ends a job's run leaves no lease behind.
<1>m. \A row, s, c, n, f : Moved(row, s, c, n, f, NoLease).lease <= 0
  BY DEF Moved, NoLease
<1>s. ASSUME jobs'[i] = jobs[i] \/ jobs'[i].lease <= 0, txn'[i] = txn[i], UNCHANGED answers
      PROVE  LapsedStays(i)
  BY <1>e, <1>s DEF LapsedStays
<1>1. ASSUME NEW j \in Job, NEW k \in Key, NEW p \in Payload, CreateJob(j, k, p)
      PROVE  LapsedStays(i)
  BY <1>1, <1>s, <1>e, <1>t DEF CreateJob
<1>2. ASSUME NEW j \in Job, NEW k \in Key, NEW p \in Payload,
             NEW r \in 1..jobs[j].revision, CancelJob(j, k, p, r)
      PROVE  LapsedStays(i)
  BY <1>2, <1>s, <1>m, <1>t DEF CancelJob
<1>3. ASSUME NEW j \in Job, ReapExpired(j) PROVE LapsedStays(i)
  BY <1>3, <1>s, <1>m, <1>t DEF ReapExpired
<1>4. ASSUME NEW j \in Job, NEW w \in Worker, LeaseJob(j, w) PROVE LapsedStays(i)
  <2>1. j # i
    BY <1>4, <1>e DEF LeaseJob, NextClaim, Claimable, Waiting
  <2> QED
    BY <1>4, <1>s, <1>t, <2>1 DEF LeaseJob
\* A transaction that commits had opened while the lease ran.
<1>5. ASSUME NEW j \in Job, RenewCommit(j) PROVE LapsedStays(i)
  <2>1. j # i
    BY <1>5 DEF RenewCommit, NoTxn
  <2> QED
    BY <1>5, <1>s, <1>t, <2>1 DEF RenewCommit
<1>6. ASSUME NEW j \in Job, CompleteCommit(j) PROVE LapsedStays(i)
  <2>1. j # i
    BY <1>6 DEF CompleteCommit, NoTxn
  <2>2. jobs'[i] = jobs[i] /\ txn'[i] = txn[i]
    BY <1>6, <1>t, <2>1 DEF CompleteCommit
  <2>3. answers' = answers \cup {[job |-> j, attempt |-> txn[j].attempt, outcome |-> txn[j].outcome]}
    BY <1>6 DEF CompleteCommit
  <2> QED
    BY <1>e, <2>1, <2>2, <2>3 DEF LapsedStays
\* No transaction opens: the clock is read under the row's lock.
<1>7. ASSUME NEW j \in Job, NEW n \in AttemptNo, RenewLock(j, n) PROVE LapsedStays(i)
  <2>1. j # i
    BY <1>7, <1>e DEF RenewLock, LeaseLive
  <2> QED
    BY <1>7, <1>s, <1>t, <2>1 DEF RenewLock
<1>8. ASSUME NEW j \in Job, NEW n \in AttemptNo, NEW o \in Outcome, CompleteLock(j, n, o)
      PROVE  LapsedStays(i)
  <2>1. j # i
    BY <1>8, <1>e DEF CompleteLock, LeaseLive
  <2> QED
    BY <1>8, <1>s, <1>t, <2>1 DEF CompleteLock
\* No answer is repeated: a job that runs is in neither replay branch.
<1>9. ASSUME NEW j \in Job, NEW n \in AttemptNo, NEW o \in Outcome, CompleteReplay(j, n, o)
      PROVE  LapsedStays(i)
  <2>1. j # i
    BY <1>9, <1>e DEF CompleteReplay, RetryReplayed, TerminalReplayed
  <2>2. jobs'[i] = jobs[i] /\ txn'[i] = txn[i]
    BY <1>9 DEF CompleteReplay
  <2>3. answers' = answers \cup {[job |-> j, attempt |-> n, outcome |-> o]}
    BY <1>9 DEF CompleteReplay
  <2> QED
    BY <1>e, <2>1, <2>2, <2>3 DEF LapsedStays
<1>10. ASSUME NEW j \in Job, Rollback(j) PROVE LapsedStays(i)
  <2>1. j # i
    BY <1>10 DEF Rollback
  <2> QED
    BY <1>10, <1>s, <1>t, <2>1 DEF Rollback
<1>11. CASE Tick
  <2>1. jobs'[i] = [jobs[i] EXCEPT !.lease = OneLess(jobs[i].lease)]
    BY <1>11 DEF Tick
  <2>2. OneLess(jobs[i].lease) = 0
    BY <1>e DEF OneLess
  <2>3. jobs'[i].lease = 0
    BY <1>r, <2>1, <2>2 DEF JobRow
  <2> QED
    BY <1>11, <1>s, <2>3 DEF Tick
<1>12. ASSUME NEW w \in Worker, Crash(w) PROVE LapsedStays(i)
  BY <1>12, <1>s DEF Crash
<1>13. CASE UNCHANGED vars
  BY <1>13, <1>s DEF vars
<1> QED
  BY <1>1, <1>2, <1>3, <1>4, <1>5, <1>6, <1>7, <1>8, <1>9, <1>10, <1>11, <1>12, <1>13 DEF Next

\* Nothing a worker sends revives a lease that has run out, and nothing is
\* answered for it.
THEOREM LapsedSafety == Spec => LapsedIsLost
<1>1. TypeOK /\ [Next]_vars => [\A j \in Job :
        Expired(j) /\ txn[j] = NoTxn =>
          /\ txn'[j] = NoTxn
          /\ jobs'[j].lease <= 0
          /\ {a \in answers' : a.job = j} = {a \in answers : a.job = j}]_vars
  BY LapsedStep DEF LapsedStays
<1> QED
  BY <1>1, TypeCorrect, PTL DEF Spec, LapsedIsLost
-----------------------------------------------------------------------------
(* The queue implements WorkQueue. *)

\* The abstract state of one job.
Status(row) ==
  CASE row.state \in {"queued", "retriable"} -> "waiting"
    [] row.state = "running" -> "owned"
    [] OTHER -> row.state
Owner(row, rows) ==
  IF row.state = "running" THEN rows[row.current_attempt].worker ELSE NoWorker

StatusOf == [j \in Job |-> Status(jobs[j])]
OwnerOf == [j \in Job |-> Owner(jobs[j], attempts[j])]
GrantsOf == [j \in Job |-> jobs[j].attempt_count]

\* A step that moves one job's abstract state and leaves the others' alone.
LEMMA OneJobMoves ==
  ASSUME NEW j \in Job, NEW st, NEW ow, NEW gr,
         Status(jobs[j])' = st, Owner(jobs[j], attempts[j])' = ow,
         jobs'[j].attempt_count = gr,
         \A i \in Job \ {j} : jobs'[i] = jobs[i] /\ attempts'[i] = attempts[i]
  PROVE  /\ StatusOf' = [StatusOf EXCEPT ![j] = st]
         /\ OwnerOf' = [OwnerOf EXCEPT ![j] = ow]
         /\ GrantsOf' = [GrantsOf EXCEPT ![j] = gr]
BY DEF StatusOf, OwnerOf, GrantsOf, Status, Owner

LEMMA InitRefines == Init => WQ!QInit
BY DEF Init, WQ!QInit, AbsentJob

\* The actions of WorkQueue, in terms of the abstract state above.
LEMMA AbstractActions ==
  ASSUME NEW j \in Job
  PROVE  /\ WQ!Submit(j) <=>
              /\ StatusOf[j] = "absent"
              /\ StatusOf' = [StatusOf EXCEPT ![j] = "waiting"]
              /\ OwnerOf' = OwnerOf /\ GrantsOf' = GrantsOf
         /\ \A w : WQ!Grant(j, w) <=>
              /\ StatusOf[j] = "waiting" /\ GrantsOf[j] < MaxAttempts
              /\ StatusOf' = [StatusOf EXCEPT ![j] = "owned"]
              /\ OwnerOf' = [OwnerOf EXCEPT ![j] = w]
              /\ GrantsOf' = [GrantsOf EXCEPT ![j] = @ + 1]
         /\ WQ!GiveBack(j) <=>
              /\ StatusOf[j] = "owned" /\ GrantsOf[j] < MaxAttempts
              /\ StatusOf' = [StatusOf EXCEPT ![j] = "waiting"]
              /\ OwnerOf' = [OwnerOf EXCEPT ![j] = NoWorker] /\ GrantsOf' = GrantsOf
         /\ \A o : WQ!Settle(j, o) <=>
              /\ StatusOf[j] = "owned"
              /\ StatusOf' = [StatusOf EXCEPT ![j] = o]
              /\ OwnerOf' = [OwnerOf EXCEPT ![j] = NoWorker] /\ GrantsOf' = GrantsOf
         /\ WQ!Withdraw(j) <=>
              /\ StatusOf[j] \in {"waiting", "owned"}
              /\ StatusOf' = [StatusOf EXCEPT ![j] = "canceled"]
              /\ OwnerOf' = [OwnerOf EXCEPT ![j] = NoWorker] /\ GrantsOf' = GrantsOf
BY DEF WQ!Submit, WQ!Grant, WQ!GiveBack, WQ!Settle, WQ!Withdraw, StatusOf, OwnerOf,
       GrantsOf, Status, Owner

\* A step that touches no abstract state is a stuttering step of WorkQueue.
LEMMA Stutters ==
  ASSUME TypeOK,
         \A j \in Job : /\ jobs'[j].state = jobs[j].state
                        /\ jobs'[j].current_attempt = jobs[j].current_attempt
                        /\ jobs'[j].attempt_count = jobs[j].attempt_count
                        /\ \A n \in AttemptNo : attempts'[j][n].worker = attempts[j][n].worker
                        /\ jobs[j].state = "running" => jobs[j].current_attempt \in AttemptNo
  PROVE  UNCHANGED WQ!qvars
BY DEF WQ!qvars

LEMMA NextRefines == IInv /\ [Next]_vars => [WQ!QNext]_(WQ!qvars)
<1> SUFFICES ASSUME IInv, [Next]_vars PROVE [WQ!QNext]_(WQ!qvars)
  OBVIOUS
<1>t. TypeOK /\ \A j \in Job : JobOK(jobs[j], attempts[j], effects[j], txn[j])
  BY DEF IInv
<1>r. \A j \in Job : /\ jobs[j] \in JobRow /\ attempts[j] \in Rows /\ txn[j] \in TxnRow
  BY <1>t DEF TypeOK, Rows
<1>l. \A j \in Job : txn[j] /= NoTxn => jobs[j].state = "running" /\ Holds(jobs[j], attempts[j], txn[j].attempt)
  BY <1>t DEF JobOK, Holds
<1>n. \A j \in Job : jobs[j].state = "running" => jobs[j].current_attempt \in AttemptNo
  BY <1>t, <1>r DEF JobOK, RowConstraints, JobRow, NoAttempt, AttemptNo
<1>s. \A j \in Job : /\ StatusOf[j] = Status(jobs[j])
                     /\ OwnerOf[j] = Owner(jobs[j], attempts[j])
                     /\ GrantsOf[j] = jobs[j].attempt_count
  BY DEF StatusOf, OwnerOf, GrantsOf
<1>e. \A j \in Job : /\ [OwnerOf EXCEPT ![j] = OwnerOf[j]] = OwnerOf
                     /\ [GrantsOf EXCEPT ![j] = GrantsOf[j]] = GrantsOf
  BY DEF OwnerOf, GrantsOf
<1>q. ASSUME NEW j \in Job, \/ WQ!Submit(j) \/ WQ!GiveBack(j) \/ WQ!Withdraw(j)
                            \/ \E w \in Worker : WQ!Grant(j, w)
                            \/ \E o \in {"succeeded", "failed"} : WQ!Settle(j, o)
      PROVE  WQ!QNext
  BY <1>q DEF WQ!QNext, WQ!Outcomes
<1>1. ASSUME NEW j \in Job, NEW k \in Key, NEW p \in Payload, CreateJob(j, k, p)
      PROVE  WQ!Submit(j)
  <2>1. /\ jobs[j].state = "absent" /\ jobs'[j].state = "queued"
        /\ jobs'[j].attempt_count = 0 /\ jobs[j].attempt_count = 0
        /\ \A i \in Job \ {j} : jobs'[i] = jobs[i] /\ attempts'[i] = attempts[i]
    BY <1>1, <1>t DEF CreateJob, Moved, TypeOK, JobOK, RowConstraints
  <2>2. /\ Status(jobs[j]) = "absent" /\ Status(jobs[j])' = "waiting"
        /\ Owner(jobs[j], attempts[j])' = NoWorker /\ Owner(jobs[j], attempts[j]) = NoWorker
    BY <2>1 DEF Status, Owner
  <2>3. /\ StatusOf' = [StatusOf EXCEPT ![j] = "waiting"]
        /\ OwnerOf' = [OwnerOf EXCEPT ![j] = NoWorker]
        /\ GrantsOf' = [GrantsOf EXCEPT ![j] = 0]
    BY <2>1, <2>2, OneJobMoves
  <2>4. OwnerOf' = OwnerOf /\ GrantsOf' = GrantsOf
    <3>1. OwnerOf[j] = NoWorker /\ GrantsOf[j] = 0
      BY <1>s, <2>1, <2>2
    <3> QED
      BY <1>e, <2>3, <3>1
  <2> QED
    BY <1>s, <2>2, <2>3, <2>4, AbstractActions
<1>2. ASSUME NEW j \in Job, NEW k \in Key, NEW p \in Payload,
             NEW r \in 1..jobs[j].revision, CancelJob(j, k, p, r)
      PROVE  WQ!Withdraw(j)
  <2>1. /\ jobs[j].state \in {"queued", "retriable", "running"} /\ jobs'[j].state = "canceled"
        /\ jobs'[j].attempt_count = jobs[j].attempt_count
        /\ \A i \in Job \ {j} : jobs'[i] = jobs[i] /\ attempts'[i] = attempts[i]
    BY <1>2, <1>t, <1>r DEF CancelJob, Moved, TypeOK, JobRow, JobState, Terminal
  <2>2. /\ Status(jobs[j]) \in {"waiting", "owned"} /\ Status(jobs[j])' = "canceled"
        /\ Owner(jobs[j], attempts[j])' = NoWorker
    BY <2>1 DEF Status, Owner
  <2>3. /\ StatusOf' = [StatusOf EXCEPT ![j] = "canceled"]
        /\ OwnerOf' = [OwnerOf EXCEPT ![j] = NoWorker]
        /\ GrantsOf' = [GrantsOf EXCEPT ![j] = jobs[j].attempt_count]
    BY <2>1, <2>2, OneJobMoves
  <2> QED
    BY <1>s, <1>e, <2>2, <2>3, AbstractActions
<1>3. ASSUME NEW j \in Job, ReapExpired(j)
      PROVE  WQ!GiveBack(j) \/ \E o \in {"succeeded", "failed"} : WQ!Settle(j, o)
  <2>1. /\ jobs[j].state = "running" /\ jobs'[j].state \in {"failed", "retriable"}
        /\ jobs'[j].state = "retriable" => jobs[j].attempt_count < MaxAttempts
        /\ jobs'[j].attempt_count = jobs[j].attempt_count
        /\ \A i \in Job \ {j} : jobs'[i] = jobs[i] /\ attempts'[i] = attempts[i]
    BY <1>3, <1>t, <1>r, MaxAttemptsAssumption DEF ReapExpired, Expired, Moved, TypeOK, JobRow
  <2> QED
    BY <1>s, <1>e, <2>1, AbstractActions, OneJobMoves DEF Status, Owner
<1>4. ASSUME NEW j \in Job, NEW w \in Worker, LeaseJob(j, w) PROVE WQ!Grant(j, w)
  <2> DEFINE n == jobs[j].attempt_count + 1
             f == NextFence(jobs[j].current_fence)
             new == [state |-> "running", fence |-> f, worker |-> w,
                     lease |-> LeaseSeconds, hash |-> "none"]
             row == Moved(jobs[j], "running", n, n, f, LeaseSeconds)
  <2>1. n \in AttemptNo
    BY <1>4, <1>r, MaxAttemptsAssumption DEF LeaseJob, NextClaim, Claimable, AttemptNo, JobRow
  <2>2. /\ jobs' = [jobs EXCEPT ![j] = row]
        /\ attempts' = [attempts EXCEPT ![j] = [@ EXCEPT ![n] = new]]
        /\ jobs[j].state \in {"queued", "retriable"} /\ jobs[j].attempt_count < MaxAttempts
    BY <1>4 DEF LeaseJob, NextClaim, Claimable, Waiting
  <2>3. row.state = "running" /\ row.attempt_count = n /\ row.current_attempt = n
        /\ new.worker = w
    BY DEF Moved
  <2> HIDE DEF f, new, row
  <2>4. /\ jobs'[j] = row /\ attempts'[j][n] = new
        /\ \A i \in Job \ {j} : jobs'[i] = jobs[i] /\ attempts'[i] = attempts[i]
    BY <1>t, <2>1, <2>2 DEF TypeOK
  <2>5. /\ Status(jobs[j]) = "waiting" /\ Status(jobs[j])' = "owned"
        /\ Owner(jobs[j], attempts[j])' = w
    BY <2>2, <2>3, <2>4 DEF Status, Owner
  <2>6. /\ StatusOf' = [StatusOf EXCEPT ![j] = "owned"]
        /\ OwnerOf' = [OwnerOf EXCEPT ![j] = w]
        /\ GrantsOf' = [GrantsOf EXCEPT ![j] = n]
    BY <2>3, <2>4, <2>5, OneJobMoves
  <2> QED
    BY <1>s, <2>2, <2>5, <2>6, AbstractActions
<1>5. ASSUME NEW j \in Job, CompleteCommit(j)
      PROVE  WQ!GiveBack(j) \/ \E o \in {"succeeded", "failed"} : WQ!Settle(j, o)
  <2>1. txn[j].op = "complete"
    BY <1>5 DEF CompleteCommit
  <2>2. txn[j] /= NoTxn /\ txn[j].outcome \in Outcome
    BY <1>r, <2>1 DEF TxnRow, NoTxn
  <2>3. jobs[j].state = "running"
    BY <1>l, <2>2
  <2>4. /\ jobs'[j].state \in {"succeeded", "failed", "retriable"}
        /\ jobs'[j].state = "retriable" => jobs[j].attempt_count < MaxAttempts
        /\ jobs'[j].attempt_count = jobs[j].attempt_count
        /\ \A i \in Job \ {j} : jobs'[i] = jobs[i] /\ attempts'[i] = attempts[i]
    BY <1>5, <1>t, <1>r, <2>2, MaxAttemptsAssumption
       DEF CompleteCommit, Moved, Effective, Outcome, TypeOK, JobRow
  <2> QED
    BY <1>s, <1>e, <2>3, <2>4, AbstractActions, OneJobMoves DEF Status, Owner
<1>6. ASSUME NEW j \in Job, RenewCommit(j) PROVE UNCHANGED WQ!qvars
  <2>1. \A i \in Job : /\ jobs'[i].state = jobs[i].state
                       /\ jobs'[i].current_attempt = jobs[i].current_attempt
                       /\ jobs'[i].attempt_count = jobs[i].attempt_count
    BY <1>6, <1>t DEF RenewCommit, TypeOK, JobRow
  <2>2. \A i \in Job, n \in AttemptNo : attempts'[i][n].worker = attempts[i][n].worker
    BY <1>6, <1>t DEF RenewCommit, TypeOK, AttemptRow
  <2> QED
    BY <1>t, <1>n, <2>1, <2>2, Stutters
<1>7. ASSUME Tick PROVE UNCHANGED WQ!qvars
  <2>1. \A i \in Job : jobs'[i] = [jobs[i] EXCEPT !.lease = OneLess(jobs[i].lease)]
    BY <1>7 DEF Tick
  <2>2. \A i \in Job, n \in AttemptNo :
          attempts'[i][n] = [attempts[i][n] EXCEPT !.lease = OneLess(attempts[i][n].lease)]
    BY <1>7 DEF Tick
  <2>3. \A i \in Job : /\ jobs'[i].state = jobs[i].state
                       /\ jobs'[i].current_attempt = jobs[i].current_attempt
                       /\ jobs'[i].attempt_count = jobs[i].attempt_count
    BY <1>r, <2>1 DEF JobRow
  <2>4. ASSUME NEW i \in Job, NEW n \in AttemptNo
        PROVE  attempts'[i][n].worker = attempts[i][n].worker
    <3>1. attempts[i][n] \in AttemptRow
      BY <1>r DEF Rows
    <3>2. attempts'[i][n] = [attempts[i][n] EXCEPT !.lease = OneLess(attempts[i][n].lease)]
      BY <2>2
    <3> QED
      BY <3>1, <3>2 DEF AttemptRow
  <2> QED
    BY <1>t, <1>n, <2>3, <2>4, Stutters
<1>8. ASSUME UNCHANGED <<jobs, attempts>> PROVE UNCHANGED WQ!qvars
  BY <1>8 DEF WQ!qvars
<1>9. ASSUME NEW j \in Job, NEW n \in AttemptNo,
             \/ RenewLock(j, n) \/ \E o \in Outcome : CompleteLock(j, n, o) \/ CompleteReplay(j, n, o)
      PROVE  UNCHANGED WQ!qvars
  BY <1>8, <1>9 DEF RenewLock, CompleteLock, CompleteReplay
<1>10. ASSUME NEW j \in Job, Rollback(j) PROVE UNCHANGED WQ!qvars
  BY <1>8, <1>10 DEF Rollback
<1>11. ASSUME NEW w \in Worker, Crash(w) PROVE UNCHANGED WQ!qvars
  BY <1>8, <1>11 DEF Crash
<1>12. CASE UNCHANGED vars
  BY <1>8, <1>12 DEF vars
<1>13. CASE Next
  BY <1>q, <1>1, <1>2, <1>3, <1>4, <1>5, <1>6, <1>7, <1>9, <1>10, <1>11, <1>13 DEF Next
<1> QED
  BY <1>12, <1>13

\* The job queue, with its tables, leases, row locks and late requests, is an
\* implementation of WorkQueue.
THEOREM Refinement == Spec => ImplementsWorkQueue
BY Invariant, InitRefines, NextRefines, PTL DEF Spec, ImplementsWorkQueue, WQ!QSpec
=============================================================================
