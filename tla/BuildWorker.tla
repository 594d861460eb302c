---------------------------- MODULE BuildWorker ----------------------------
(***************************************************************************)
(* The project build worker (crates/builder/src/project_build.rs and the   *)
(* supervisor crates/builder/src/vm.rs) against the build queue of Builds. *)
(*                                                                         *)
(* One worker process leases a build, has its source materialized, asks    *)
(* for its credentials, runs a virtual machine while a second thread       *)
(* renews the lease, and completes.  Every request is synchronous and is   *)
(* sent once: the worker sees the answer when the transaction ends, or     *)
(* gives up on it (REQUEST_TIMEOUT) while the transaction goes on.  A      *)
(* request that fails while the machine runs sets "fenced"; a completion   *)
(* or an acknowledgement that fails ends the process.  The machine is a    *)
(* systemd unit of its own: it outlives a killed worker until systemd      *)
(* stops it.                                                               *)
(***************************************************************************)
EXTENDS Builds

CONSTANT Faults  \* bound: which of "crash" and "timeout" the worker may meet

ASSUME FaultsAssumption == Faults \subseteq {"crash", "timeout"}

VARIABLES
  work,      \* what the worker process knows and waits for
  machines   \* the virtual machines that exist, by build and attempt

wvars == <<vars, work, machines>>

Pc == {"idle", "source", "credentials", "vm", "complete", "ack", "exited"}
\* What vm::run and the worker can report: success may come with a failed cleanup.
Report == [state : {"succeeded", "failed"}, elapsed : 0..Reserved,
           cleanup : {"confirmed", "pending"}, rejected : BOOLEAN]
EarlyFailure(rejected) == [state |-> "failed", elapsed |-> 0, cleanup |-> "confirmed",
                           rejected |-> rejected]
\* An early failure under a code valid_completion does not know.
Unaccepted == NoOutcome

WorkState == [pc : Pc, asked : BOOLEAN, attempt : 0..MaxAttempts, fenced : BOOLEAN,
              report : Report \cup {NoOutcome}]
Fresh == [pc |-> "idle", asked |-> FALSE, attempt |-> NoAttempt, fenced |-> FALSE,
          report |-> NoOutcome]

\* The build the worker is on: "none" is no build.
WInit ==
  /\ Init
  /\ work = [state |-> Fresh, build |-> "none"]
  /\ machines = {}

W == work.state
At(pc) == W.pc = pc /\ ~ W.asked

\* The request the worker sends from where it is.
OpAt(pc) == CASE pc = "source" -> "materialize" [] pc = "credentials" -> "credentials"
              [] pc = "vm" -> "renew" [] pc = "complete" -> "complete" [] OTHER -> "lease"
TheRequest == [op |-> OpAt(W.pc), attempt |-> W.attempt,
               outcome |-> IF W.pc = "complete" THEN W.report ELSE NoOutcome]

\* The worker waits for the answer to request r of build b; an earlier request
\* it gave up on may still be running.
Mine(b, r) == W.asked /\ work.build = b /\ r = TheRequest

Goto(pc) == work' = [work EXCEPT !.state = [@ EXCEPT !.pc = pc, !.asked = FALSE]]
Stop == work' = [state |-> [Fresh EXCEPT !.pc = "exited"], build |-> "none"]
Done == work' = [state |-> Fresh, build |-> "none"]

\* complete_early_failure: nothing ran, so the cleanup is confirmed.
FailEarly(rejected) ==
  work' = [work EXCEPT !.state = [@ EXCEPT !.pc = "complete", !.asked = FALSE,
                                           !.report = EarlyFailure(rejected)]]

\* The request failed: what process() does with the error.
Failed ==
  CASE W.pc = "source" -> FailEarly(FALSE)
    [] W.pc = "credentials" -> \E rejected \in BOOLEAN : FailEarly(rejected)
    [] W.pc = "vm" -> work' = [work EXCEPT !.state = [@ EXCEPT !.asked = FALSE, !.fenced = TRUE]]
    [] OTHER -> Stop

\* A request the worker still waits for is answered; nobody waits for another.
Answer(b, known) == IF Mine(b, txn[b]) THEN known ELSE UNCHANGED work

-----------------------------------------------------------------------------
(* Requests. *)

Poll(b) ==
  /\ At("idle")
  /\ LeaseClaim(b)
  /\ work' = [state |-> [W EXCEPT !.asked = TRUE], build |-> b]
  /\ UNCHANGED machines

\* spawn_renewal stops at its first error, and only runs beside the machine.
MayAsk == ~ W.asked /\ W.pc \in {"source", "credentials", "vm", "complete"} /\ ~ W.fenced

Ask(b) ==
  /\ MayAsk
  /\ work.build = b
  /\ TheRequest \in Request
  /\ Lock(b, TheRequest) \/ Join(b, TheRequest)
  /\ work' = [work EXCEPT !.state.asked = TRUE]
  /\ UNCHANGED machines

\* A fenced attempt, or a success without a confirmed cleanup, is refused.
AskRefused(b) ==
  /\ MayAsk
  /\ work.build = b
  /\ TheRequest \in Request => ~ Live(b, W.attempt)
  /\ Failed
  /\ UNCHANGED <<vars, machines>>

GiveUp ==
  /\ "timeout" \in Faults
  /\ W.asked
  /\ Failed
  /\ UNCHANGED <<vars, machines>>

-----------------------------------------------------------------------------
(* Answers: the transaction of Builds, and what the worker makes of it. *)

\* What process() does with a lease: validate_lease takes it, or fails it early.
Leased(b) ==
  /\ LeaseGrant(b)
  /\ Answer(b, \E next \in {<<"source", NoOutcome>>, <<"complete", EarlyFailure(TRUE)>>} :
       work' = [work EXCEPT !.state =
         [@ EXCEPT !.pc = next[1], !.asked = FALSE, !.attempt = builds[b].attempt_count + 1,
                   !.report = next[2]]])
  /\ UNCHANGED machines

NotLeased(b) ==
  /\ LeaseYield(b) \/ LeaseStale(b)
  /\ Answer(b, Done)
  /\ UNCHANGED machines

Materialized(b) ==
  /\ MaterializeCommit(b) \/ MaterializeAgain(b)
  /\ Answer(b, Goto("credentials") \/ FailEarly(TRUE))   \* its digests may not match
  /\ UNCHANGED machines

SourceRejected(b) ==
  /\ MaterializeReject(b)
  /\ Answer(b, FailEarly(TRUE))
  /\ UNCHANGED machines

\* The machine is launched only after the answer arrived.  The directory of the
\* attempt may be taken, or the credentials may fail the worker's own checks,
\* which it reports under a code control refuses.
Resolved(b) ==
  /\ CredentialsCommit(b)
  /\ \/ /\ Mine(b, txn[b])
        /\ Goto("vm")
        /\ machines' = machines \cup {<<b, W.attempt>>}
     \/ /\ Answer(b, \/ FailEarly(FALSE)
                     \/ work' = [work EXCEPT !.state =
                          [@ EXCEPT !.pc = "complete", !.asked = FALSE, !.report = Unaccepted]])
        /\ UNCHANGED machines

Renewed(b) ==
  /\ RenewCommit(b)
  /\ Answer(b, Goto("vm"))
  /\ UNCHANGED machines

Completed(b) ==
  /\ CompleteCommit(b)
  /\ Answer(b, Done)
  /\ UNCHANGED machines

RolledBack(b) ==
  /\ Rollback(b)
  /\ Answer(b, Failed)
  /\ UNCHANGED machines

Woken(b) ==
  /\ Wake(b)
  /\ IF txn'[b] = NoTxn /\ Mine(b, waiting[b].req) THEN Failed ELSE UNCHANGED work
  /\ UNCHANGED machines

-----------------------------------------------------------------------------
(* The machine and the process. *)

\* vm::run returned and the renewal thread has ended.  systemd-run --wait reports
\* success only of a unit that has ended.  On every other way out (fence, timeout,
\* bad output, an error of the supervisor itself) terminate ignores whether
\* systemctl killed the unit and kills its own client, and qemu_exited is reported
\* all the same: the machine may run on, whatever the report says of the cleanup.
AfterMachine == IF W.fenced THEN "ack" ELSE "complete"

MachineEnds(r) ==
  /\ At("vm")
  /\ r.state = "succeeded" => r.elapsed > 0
  /\ ~ r.rejected
  /\ \/ machines' = machines \ {<<work.build, W.attempt>>}
     \/ r.state = "failed" /\ UNCHANGED machines
  /\ work' = [work EXCEPT !.state = [@ EXCEPT !.pc = AfterMachine, !.fenced = FALSE,
                                              !.report = r]]
  /\ UNCHANGED vars

Acknowledge(b) ==
  /\ At("ack")
  /\ work.build = b
  /\ W.report.cleanup = "confirmed"
  /\ CancelAck(b, W.attempt, W.report.elapsed)
  /\ Done
  /\ UNCHANGED machines

\* cancel_ack refuses an attempt that was not canceled, or a pending cleanup.
AcknowledgeRefused ==
  /\ At("ack")
  /\ \/ W.report.cleanup = "pending"
     \/ builds[work.build].state /= "canceled"
  /\ Stop
  /\ UNCHANGED <<vars, machines>>

Crash ==
  /\ "crash" \in Faults
  /\ W.pc /= "exited"
  /\ Stop
  /\ UNCHANGED <<vars, machines>>

Restart ==
  /\ W.pc = "exited"
  /\ Done
  /\ UNCHANGED <<vars, machines>>

\* RuntimeMaxSec of the transient unit.
UnitStops(b, n) ==
  /\ <<b, n>> \in machines
  /\ ~ (W.pc = "vm" /\ work.build = b /\ W.attempt = n)
  /\ machines' = machines \ {<<b, n>>}
  /\ UNCHANGED <<vars, work>>

Elsewhere(b) ==
  /\ Enqueue(b) \/ Cancel(b) \/ Revoke(b) \/ (\E s \in 0..Reserved : Reap(b, s))
  /\ UNCHANGED <<work, machines>>

Time == Tick /\ UNCHANGED <<work, machines>>

WNext ==
  \/ \E b \in Build :
       \/ Poll(b) \/ Ask(b) \/ AskRefused(b)
       \/ Leased(b) \/ NotLeased(b) \/ Materialized(b) \/ SourceRejected(b)
       \/ Resolved(b) \/ Renewed(b) \/ Completed(b) \/ RolledBack(b) \/ Woken(b)
       \/ Acknowledge(b) \/ Elsewhere(b)
       \/ \E n \in AttemptNo : UnitStops(b, n)
  \/ \E r \in Report : MachineEnds(r)
  \/ GiveUp \/ AcknowledgeRefused \/ Crash \/ Restart \/ Time

WSpec == WInit /\ [][WNext]_wvars

WorkerStep ==
  \/ \E b \in Build :
       \/ Poll(b) \/ Ask(b) \/ AskRefused(b)
       \/ Leased(b) \/ NotLeased(b) \/ Materialized(b) \/ SourceRejected(b)
       \/ Resolved(b) \/ Renewed(b) \/ Completed(b) \/ RolledBack(b) \/ Woken(b)
       \/ Acknowledge(b)
  \/ AcknowledgeRefused \/ Restart

\* The worker and the database keep going, builds end (their time is limited),
\* time passes and the reaper runs.
WFairness ==
  /\ WF_wvars(WorkerStep)
  /\ WF_wvars(\E r \in Report : MachineEnds(r))
  /\ WF_wvars(Time)
  /\ \A b \in Build : WF_wvars(\E s \in 0..Reserved : Reap(b, s) /\ UNCHANGED <<work, machines>>)

WFairSpec == WSpec /\ WFairness

-----------------------------------------------------------------------------
(* Properties. *)

WTypeOK ==
  /\ TypeOK
  /\ work \in [state : WorkState, build : Build \cup {"none"}]
  /\ machines \subseteq (Build \X AttemptNo)

\* The worker of attempt n reported that the attempt is over and cleaned up.
ReportedGone(b, n) ==
  receipts[b][n].state \in {"failed", "canceled"} /\ receipts[b][n].cleanup = "confirmed"

\* An account never has two active builds, and a machine that runs belongs to the
\* last attempt of its build and keeps that build in the slot until the attempt's
\* own worker reports a failure or a cancellation with its cleanup confirmed.
\* Nothing else frees the slot of a machine: no lost lease, crash, timeout or
\* cancellation, no pending cleanup, and no success.  launched_at is committed
\* before the launch, and complete, cancel and reap_expired all leave the cleanup
\* pending while nothing is known of the machine.
SlotHeldUntilReported ==
  /\ OneActiveBuild
  /\ \A p \in machines :
       /\ p[2] = builds[p[1]].attempt_count
       /\ Active(builds[p[1]]) \/ ReportedGone(p[1], p[2])

\* Resolving the credentials is the point of no return of an attempt: only then
\* may it be billed (docs/M3-BUILD-CONTRACT.md: "marks the execution-time meter
\* boundary"), although complete and cancel_ack take any number of seconds, and
\* from then on no other attempt follows it ("Pre-launch platform faults are the
\* only automatic retry").
LaunchIsFinal ==
  \A b \in Build, n \in AttemptNo :
    /\ debits[b][n] > 0 => attempts[b][n].launched
    /\ attempts[b][n].launched =>
         n = builds[b].attempt_count /\ builds[b].state /= "retriable"

\* docs/M3-BUILD-WORKER.md: after it lost the fence to a cancellation, a worker
\* that stays up acknowledges the cleanup, which frees the account's slot.
CanceledIsAcknowledged ==
  \A b \in Build :
    builds[b].state = "canceled" /\ builds[b].cleanup = "pending"
      ~> builds[b].cleanup = "confirmed"
=============================================================================
