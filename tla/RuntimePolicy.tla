--------------------------- MODULE RuntimePolicy ----------------------------
(***************************************************************************)
(* The runtime of a project's service as control sees it                   *)
(* (crates/control/src/runtime_policy.rs over migration 0006): evaluation  *)
(* intents and the credentials given out under them, the evidence that     *)
(* consumes an intent, the allocations that evidence allows, and what the  *)
(* executor reports of them.                                               *)
(*                                                                         *)
(* A row lock or one statement makes each handler a step, except           *)
(* resolve_evaluation_credential, which is three statements without a      *)
(* transaction.  One project, one reservation, one service; an artifact    *)
(* stands for its build and its deployment.  The subject, generation and   *)
(* fence of an evaluation are its Subject, a digest is what it digests, a  *)
(* time the fact whether it has passed.  Handlers that only read (the      *)
(* allocation's credential, the two lists) change nothing.                 *)
(***************************************************************************)
EXTENDS Naturals, Sequences, FiniteSets

CONSTANTS
  Artifact,
  Subject,
  Evidence,        \* evaluation receipts: the patterns of this project's
                   \*   artifacts seen, those that passed, whether everything
                   \*   else measured is good, and the verdict claimed
  Worker,          \* bound: evaluation credential requests at a time
  MaxAllocations,  \* bound: allocations of the service
  MaxReceipts      \* bound: executor receipts of all allocations

ASSUME BoundsAssumption == MaxAllocations \in Nat /\ MaxReceipts \in Nat
ASSUME EvidenceAssumption ==
  /\ Evidence \subseteq [seen : SUBSET Artifact, passing : SUBSET Artifact,
                         measured : BOOLEAN, claimed : BOOLEAN]
  /\ \A e \in Evidence : e.passing \subseteq e.seen

VARIABLES
  lifecycle,     \* the deployment of each artifact
  slot,          \* whether the reservation is live and the project shows it
  database,      \* the reservation's tenant database: usable, with or without
                 \*   a validated restore drill, or not
  intents,       \* the runtime_evaluation_intents table
  probes,        \* the runtime_restore_probe_intents table
  evaluations,   \* the runtime_evaluations table, by intent
  allocations,   \* the runtime_allocations table, in order of generation
  observations,  \* the runtime_observations table, in order of arrival
  requests,      \* evaluation credential requests under way
  receipts       \* what the executor wrote about each allocation, in order

vars == <<lifecycle, slot, database, intents, probes, evaluations, allocations,
          observations, requests, receipts>>

surroundings == <<lifecycle, slot, database>>
evidence == <<intents, probes, evaluations>>

-----------------------------------------------------------------------------
(* Rows. *)

None == [state |-> "none"]
Idle == [pc |-> "idle"]

State == {"allocated", "running", "healthy", "backoff", "stopped", "cleaned"}
\* validate_state_receipt: operation, status, limits, health and cleanup facts
\* of a receipt prove one of these and no other.
ReceiptState == State \ {"allocated"}

IntentRow == [artifact : Artifact, state : {"requested", "credential_issued", "consumed"},
              fresh : BOOLEAN]
ProbeRow == [source : 1..MaxAllocations, state : {"credential_issued", "consumed"}]
EvaluationRow == [state : {"passed", "failed"}, of : Evidence, expired : BOOLEAN]
\* generation and fence are the row's place in the sequence.
AllocationRow == [artifact : Artifact, evaluation : Subject, state : State]
ObservationRow == [allocation : 1..MaxAllocations, receipt : Nat \ {0}, state : ReceiptState]
RequestRow == [pc : {"scoped", "stored"}, subject : Subject, artifact : Artifact]

Init ==
  /\ lifecycle = [a \in Artifact |-> "queued"]
  /\ slot = "held" /\ database = "drilled"
  /\ intents = [s \in Subject |-> None]
  /\ probes = [s \in Subject |-> None]
  /\ evaluations = [s \in Subject |-> None]
  /\ allocations = <<>>
  /\ observations = <<>>
  /\ requests = [w \in Worker |-> Idle]
  /\ receipts = <<>>

Retained == {"running", "healthy", "stopped"}
RetainedOf(a) == {x \in DOMAIN allocations : allocations[x].artifact = a
                                             /\ allocations[x].state \in Retained}

-----------------------------------------------------------------------------
(* Credentials for an evaluation. *)

EvaluationScope(a) ==
  /\ slot = "held"
  /\ lifecycle[a] = "queued" \/ (lifecycle[a] = "healthy" /\ RetainedOf(a) # {})

ScopeRead(w, s, a) ==
  /\ requests[w] = Idle
  /\ EvaluationScope(a)
  /\ requests' = [requests EXCEPT ![w] = [pc |-> "scoped", subject |-> s, artifact |-> a]]
  /\ UNCHANGED <<surroundings, evidence, allocations, observations, receipts>>

\* The upsert keeps the state of an intent it finds, and refuses one that is
\* bound to another artifact or consumed.
Bindable(s, a) ==
  intents[s] # None => intents[s].artifact = a /\ intents[s].state # "consumed"
Bound(s, a) ==
  [artifact |-> a, fresh |-> TRUE,
   state |-> IF intents[s] = None THEN "requested" ELSE intents[s].state]

IntentStored(w) ==
  /\ requests[w].pc = "scoped"
  /\ LET s == requests[w].subject
         a == requests[w].artifact
     IN  IF Bindable(s, a)
         THEN /\ intents' = [intents EXCEPT ![s] = Bound(s, a)]
              /\ requests' = [requests EXCEPT ![w].pc = "stored"]
         ELSE requests' = [requests EXCEPT ![w] = Idle] /\ UNCHANGED intents
  /\ UNCHANGED <<surroundings, probes, evaluations, allocations, observations, receipts>>

\* Mutant: the intent is marked whatever became of it meanwhile.
IssuedAlways(intent) == [intent EXCEPT !.state = "credential_issued", !.fresh = TRUE]
Issued(intent) ==
  IF intent.state = "consumed" THEN intent
  ELSE [intent EXCEPT !.state = "credential_issued", !.fresh = TRUE]

\* The credential of the reservation's tenant database opens.
Resolvable == database # "unusable"

\* Otherwise the request ends with an error.
CredentialIssued(w) ==
  /\ requests[w].pc = "stored"
  /\ intents' = IF Resolvable
                THEN [intents EXCEPT ![requests[w].subject] = Issued(@)]
                ELSE intents
  /\ requests' = [requests EXCEPT ![w] = Idle]
  /\ UNCHANGED <<surroundings, probes, evaluations, allocations, observations, receipts>>

\* The process dies or the caller goes away between two statements.
RequestDies(w) ==
  /\ requests[w] # Idle
  /\ requests' = [requests EXCEPT ![w] = Idle]
  /\ UNCHANGED <<surroundings, evidence, allocations, observations, receipts>>

\* The newest retained allocation of the artifact is the probe's source.
ProbeSource(a) == CHOOSE x \in RetainedOf(a) : \A y \in RetainedOf(a) : y <= x

\* A validated restore drill of the project's database.
ProbeScope(a) ==
  /\ slot = "held" /\ database = "drilled"
  /\ lifecycle[a] \in {"queued", "healthy"} /\ RetainedOf(a) # {}

ResolveRestoreProbe(s, a) ==
  /\ ProbeScope(a)
  /\ Bindable(s, a)
  /\ probes[s] # None => probes[s].source = ProbeSource(a)
  /\ intents' = [intents EXCEPT ![s] = Issued(Bound(s, a))]
  /\ probes' = [probes EXCEPT ![s] = [source |-> ProbeSource(a), state |-> "credential_issued"]]
  /\ UNCHANGED <<surroundings, evaluations, allocations, observations, requests, receipts>>

-----------------------------------------------------------------------------
(* Evidence and allocations. *)

Registrable(s) ==
  /\ intents[s] # None /\ intents[s].state \in {"credential_issued", "consumed"}
  /\ intents[s].fresh

\* What the receipt claims counts only if its measurements bear it out.
Passed(e) == e.measured /\ e.claimed

SameEvidence(s, e) == evaluations[s] # None => evaluations[s].of = e

\* An exact replay answers with the first row and consumes the intent again.
RegisterEvaluation(s, e) ==
  /\ Registrable(s)
  /\ intents[s].artifact \in e.seen
  /\ SameEvidence(s, e)
  /\ evaluations' = [evaluations EXCEPT ![s] =
       [state |-> IF Passed(e) THEN "passed" ELSE "failed", of |-> e,
        expired |-> evaluations[s] # None /\ evaluations[s].expired]]
  /\ intents' = [intents EXCEPT ![s].state = "consumed", ![s].fresh = TRUE]
  /\ probes' = IF probes[s] = None THEN probes ELSE [probes EXCEPT ![s].state = "consumed"]
  /\ UNCHANGED <<surroundings, allocations, observations, requests, receipts>>

\* Mutant: the verdict is enough, whichever pattern passed.
AllowsAnyPattern(s, a) ==
  evaluations[s].state = "passed" /\ ~evaluations[s].expired
Allows(s, a) ==
  /\ evaluations[s].state = "passed" /\ ~evaluations[s].expired
  /\ a \in evaluations[s].of.passing

\* A second request for the same artifact and evaluation answers the first row.
CreateAllocation(s, a) ==
  /\ Len(allocations) < MaxAllocations
  /\ lifecycle[a] = "queued" /\ slot = "held"
  /\ Allows(s, a)
  /\ ~\E x \in DOMAIN allocations : allocations[x].artifact = a /\ allocations[x].evaluation = s
  /\ allocations' = Append(allocations, [artifact |-> a, evaluation |-> s, state |-> "allocated"])
  /\ receipts' = Append(receipts, <<>>)
  /\ UNCHANGED <<surroundings, evidence, observations, requests>>

-----------------------------------------------------------------------------
(* Observations. *)

Transitions ==
  [allocated |-> {"running", "backoff", "stopped"},
   running |-> {"running", "healthy", "backoff", "stopped"},
   healthy |-> {"healthy", "backoff", "stopped"},
   backoff |-> {"backoff", "running", "healthy", "stopped"},
   stopped |-> {"stopped", "cleaned"},
   cleaned |-> {"cleaned"}]

\* Mutant: the table lets a stopped sandbox start again.
TransitionRestarts(from, to) == to \in Transitions[from] \/ (from = "stopped" /\ to = "running")
TransitionAllowed(from, to) == to \in Transitions[from]

Unseen(x, n) == ~\E i \in DOMAIN observations :
                    observations[i].allocation = x /\ observations[i].receipt = n

\* Any receipt the executor wrote may arrive, in any order and repeatedly.
RecordObservation(x, n) ==
  LET to == receipts[x][n]
  IN  /\ Unseen(x, n)
      /\ TransitionAllowed(allocations[x].state, to)
      /\ observations' = Append(observations, [allocation |-> x, receipt |-> n, state |-> to])
      /\ allocations' = [allocations EXCEPT ![x].state = to]
      /\ UNCHANGED <<surroundings, evidence, requests, receipts>>

-----------------------------------------------------------------------------
(* What happens around the component. *)

\* The executor: the sandbox's state, as its next receipt tells it.
Now(x) == IF receipts[x] = <<>> THEN "allocated" ELSE receipts[x][Len(receipts[x])]

ExecutorReports(x, to) ==
  /\ Cardinality(UNION {{y} \X DOMAIN receipts[y] : y \in DOMAIN receipts}) < MaxReceipts
  /\ to \in Transitions[Now(x)]
  /\ receipts' = [receipts EXCEPT ![x] = Append(@, to)]
  /\ UNCHANGED <<surroundings, evidence, allocations, observations, requests>>

DeploymentHealthy(a) ==
  /\ lifecycle[a] = "queued"
  /\ lifecycle' = [lifecycle EXCEPT ![a] = "healthy"]
  /\ UNCHANGED <<slot, database, evidence, allocations, observations, requests, receipts>>

SlotReleased ==
  /\ slot = "held"
  /\ slot' = "released"
  /\ UNCHANGED <<lifecycle, database, evidence, allocations, observations, requests, receipts>>

DatabaseChanges(to) ==
  /\ database' = to
  /\ UNCHANGED <<lifecycle, slot, evidence, allocations, observations, requests, receipts>>

\* The age of a consumed intent only decides whether a replay is answered.
IntentAges(s) ==
  /\ intents[s] # None /\ intents[s].fresh /\ intents[s].state # "consumed"
  /\ intents' = [intents EXCEPT ![s].fresh = FALSE]
  /\ UNCHANGED <<surroundings, probes, evaluations, allocations, observations, requests, receipts>>

EvaluationExpires(s) ==
  /\ evaluations[s] # None /\ ~evaluations[s].expired
  /\ evaluations' = [evaluations EXCEPT ![s].expired = TRUE]
  /\ UNCHANGED <<surroundings, intents, probes, allocations, observations, requests, receipts>>

Surroundings ==
  \/ SlotReleased
  \/ \E to \in {"drilled", "ready", "unusable"} : DatabaseChanges(to)
  \/ \E a \in Artifact : DeploymentHealthy(a)
  \/ \E s \in Subject : IntentAges(s) \/ EvaluationExpires(s)
  \/ \E x \in DOMAIN receipts, to \in ReceiptState : ExecutorReports(x, to)

Next ==
  \/ \E w \in Worker :
       \/ \E s \in Subject, a \in Artifact : ScopeRead(w, s, a)
       \/ IntentStored(w) \/ CredentialIssued(w) \/ RequestDies(w)
  \/ \E s \in Subject, a \in Artifact : ResolveRestoreProbe(s, a) \/ CreateAllocation(s, a)
  \/ \E s \in Subject, e \in Evidence : RegisterEvaluation(s, e)
  \/ \E x \in DOMAIN receipts : \E n \in DOMAIN receipts[x] : RecordObservation(x, n)
  \/ Surroundings

Spec == Init /\ [][Next]_vars

-----------------------------------------------------------------------------
(* Properties. *)

\* Every row is one its table can hold.
TypeOK ==
  /\ lifecycle \in [Artifact -> {"queued", "healthy"}]
  /\ slot \in {"held", "released"}
  /\ database \in {"drilled", "ready", "unusable"}
  /\ intents \in [Subject -> IntentRow \cup {None}]
  /\ probes \in [Subject -> ProbeRow \cup {None}]
  /\ evaluations \in [Subject -> EvaluationRow \cup {None}]
  /\ allocations \in Seq(AllocationRow)
  /\ observations \in Seq(ObservationRow)
  /\ requests \in [Worker -> RequestRow \cup {Idle}]
  /\ receipts \in Seq(Seq(ReceiptState))

\* "before consuming the intent": an intent is consumed exactly when it has
\* its evaluation, which saw the intent's artifact, and its probe, if any, is
\* consumed with it and belongs to an allocation of the same artifact; a
\* credential request that is between two statements meanwhile cannot undo it.
IntentConsumedOnce ==
  \A s \in Subject :
    /\ evaluations[s] # None <=> (intents[s] # None /\ intents[s].state = "consumed")
    /\ evaluations[s] # None => intents[s].artifact \in evaluations[s].of.seen
    /\ probes[s] # None =>
         /\ allocations[probes[s].source].artifact = intents[s].artifact
         /\ probes[s].state = "consumed" <=> intents[s].state = "consumed"

\* An allocation never outlives its justification: the evaluation it names
\* still says, whatever was registered since, that this very artifact passed,
\* and no other allocation was made from the same pair.
AllocationJustified ==
  \A x, y \in DOMAIN allocations :
    /\ LET e == evaluations[allocations[x].evaluation]
       IN  e # None /\ e.of.measured /\ e.of.claimed /\ allocations[x].artifact \in e.of.passing
    /\ (allocations[x].artifact = allocations[y].artifact
        /\ allocations[x].evaluation = allocations[y].evaluation) => x = y

\* The observations of an allocation, by their place in the table.
ObservationsOf(x) == {i \in DOMAIN observations : observations[i].allocation = x}

\* "stopped and cleaned states cannot revive" and "exact receipt replay is
\* idempotent": an allocation shows its last observation, no receipt counts
\* twice, and after the first stop only stops and cleanups were ever observed,
\* however late the receipts of earlier states arrive.
ObservationsConsistent ==
  \A x \in DOMAIN allocations :
    /\ \/ ObservationsOf(x) = {} /\ allocations[x].state = "allocated"
       \/ \E last \in ObservationsOf(x) :
            /\ \A i \in ObservationsOf(x) : i <= last
            /\ allocations[x].state = observations[last].state
    /\ \A i, j \in ObservationsOf(x) :
         /\ observations[i].receipt = observations[j].receipt => i = j
         /\ i < j /\ observations[i].state \in {"stopped", "cleaned"} =>
              observations[j].state \in {"stopped", "cleaned"}
=============================================================================
