----------------------------- MODULE Admission ------------------------------
(***************************************************************************)
(* Hosted slots: the project graph's deployments and life-cycle intents    *)
(* (crates/control/src/graph.rs) and their admission                       *)
(* (crates/control/src/admission.rs over migrations 0002 and 0005).        *)
(*                                                                         *)
(* A deployment first takes a capacity hold, which expires, and consumes   *)
(* it for the project's slot reservation, or, when the project has one,    *)
(* for rollout headroom.  Trusted observations keep, release or fill the   *)
(* slot afterwards; they name a reservation epoch and come late and more   *)
(* than once.                                                              *)
(*                                                                         *)
(* Handlers that take capacity hold the pool's row for their whole         *)
(* transaction, the others the project's row, so each is one step.         *)
(* Idempotency records, If-Match revisions and fixture receipts refuse or  *)
(* repeat an answer and change nothing else.  There is one pool.  The      *)
(* epoch of a reservation is its number within the project, the id of a    *)
(* proof its inventory revision, a time the fact whether it has passed.    *)
(***************************************************************************)
EXTENDS Naturals, Sequences, FiniteSets

CONSTANTS
  Account,
  Project,
  AccountOf,       \* the account of a project
  EntitlementRow,  \* [limit, seconds, active] values an entitlement may get
  PoolLimits,      \* [slots, headroom] values the pool may get
  BuildAttempt,    \* build attempts that are metered, one second each
  Explored,        \* bound: projects that are reconfigured, may lose their
                   \*   GitHub authority and ask for a tenant database
  MaxConfigs,      \* bound: configuration revisions of a project
  MaxDeployments,  \* bound: deployments of all projects
  MaxProofs,       \* bound: source proofs of a deployment
  MaxHolds         \* bound: capacity holds

ASSUME AccountAssumption == AccountOf \in [Project -> Account]
ASSUME LimitsAssumption ==
  /\ EntitlementRow \subseteq [limit : Nat, seconds : Nat, active : BOOLEAN]
  /\ \E row \in EntitlementRow : row.active
  /\ PoolLimits \subseteq [slots : Nat, headroom : Nat] /\ PoolLimits # {}
ASSUME ScopeAssumption == Explored \subseteq Project
ASSUME BoundsAssumption ==
  {MaxConfigs, MaxDeployments, MaxProofs, MaxHolds} \subseteq Nat /\ MaxConfigs # 0

VARIABLES
  projects,      \* the projects table
  deployments,   \* the deployments table, by project, with their source proofs
  intents,       \* the requested row of project_lifecycle_intents
  holds,         \* the capacity_holds table
  reservations,  \* the slot_reservations table, by project
  refunds,       \* holds with a row in admission_reconciliation_intents
  entitlements,  \* the admission_entitlements table
  pool,          \* the row of admission_capacity_pools
  usage,         \* the build_usage_events table, by account and attempt
  authorized,    \* projects whose GitHub authority and source are intact
  database       \* the reservation a project's tenant database was made under

vars == <<projects, deployments, intents, holds, reservations, refunds, entitlements, pool,
          usage, authorized, database>>

graph == <<projects, deployments, intents>>
ledger == <<holds, reservations, refunds>>
limits == <<entitlements, pool, usage>>
outside == <<authorized, database>>

-----------------------------------------------------------------------------
(* Rows. *)

Nothing == 0

SlotState == {"no_slot", "admission_required", "reserved", "resources_retained",
              "release_pending", "released"}
Lifecycle == {"admission_required", "queued", "healthy", "failed_no_resources"}

ProjectRow == [slots : {0, 1}, slot_state : SlotState, config : 1..MaxConfigs]
DeploymentRow == [config : 1..MaxConfigs, lifecycle : Lifecycle, proof : 0..MaxProofs,
                  fresh : BOOLEAN]
IntentRow == [kind : {"none", "rollback", "removal"}, target : Nat]
HoldRow == [project : Project, deployment : Nat \ {0}, proof : 1..MaxProofs,
            kind : {"initial", "rollout"}, epoch : Nat, lapsed : BOOLEAN,
            state : {"active", "consumed", "expired", "released"}]
ReservationRow == [first : Nat \ {0}, hold : 1..MaxHolds,
                   state : {"reserved", "resources_retained", "released"}]

NoIntent == [kind |-> "none", target |-> Nothing]

Init ==
  /\ projects = [p \in Project |-> [slots |-> 0, slot_state |-> "no_slot", config |-> 1]]
  /\ deployments = [p \in Project |-> <<>>]
  /\ intents = [p \in Project |-> NoIntent]
  /\ holds = <<>>
  /\ reservations = [p \in Project |-> <<>>]
  /\ refunds = {}
  /\ entitlements \in [Account -> {row \in EntitlementRow : row.active}]
  /\ pool \in PoolLimits
  /\ usage = [a \in Account |-> [n \in BuildAttempt |-> "none"]]
  /\ authorized = Project
  /\ database = [p \in Project |-> Nothing]

-----------------------------------------------------------------------------
(* The project graph. *)

Deployments(p) == DOMAIN deployments[p]
Unresolved(p) == intents[p].kind # "none" \/ projects[p].slot_state = "release_pending"

CreateConfiguration(p) ==
  /\ p \in Explored /\ projects[p].config < MaxConfigs
  /\ projects' = [projects EXCEPT ![p].config = @ + 1]
  /\ UNCHANGED <<deployments, intents, ledger, limits, outside>>

\* A project without a slot asks for one with its deployment.
AwaitingSlot(p) ==
  IF projects[p].slot_state \in {"no_slot", "released"}
  THEN [projects EXCEPT ![p].slots = 0, ![p].slot_state = "admission_required"]
  ELSE projects

\* Any configuration of the project may be deployed, not only the current one.
CreateDeploymentIntent(p, c) ==
  /\ Cardinality(UNION {{q} \X Deployments(q) : q \in Project}) < MaxDeployments
  /\ ~Unresolved(p)
  /\ \A d \in Deployments(p) : deployments[p][d].lifecycle # "admission_required"
  /\ deployments' = [deployments EXCEPT ![p] =
       Append(@, [config |-> c, lifecycle |-> "admission_required", proof |-> 0, fresh |-> FALSE])]
  /\ projects' = AwaitingSlot(p)
  /\ UNCHANGED <<intents, ledger, limits, outside>>

CreateRollbackIntent(p, d) ==
  /\ ~Unresolved(p)
  /\ deployments[p][d].lifecycle = "healthy"
  /\ intents' = [intents EXCEPT ![p] = [kind |-> "rollback", target |-> d]]
  /\ UNCHANGED <<projects, deployments, ledger, limits, outside>>

CreateRemovalIntent(p) ==
  /\ ~Unresolved(p)
  /\ projects[p].slot_state \notin {"no_slot", "released"}
  /\ intents' = [intents EXCEPT ![p] = [kind |-> "removal", target |-> Nothing]]
  /\ projects' = [projects EXCEPT ![p].slot_state = "release_pending"]
  /\ UNCHANGED <<deployments, ledger, limits, outside>>

-----------------------------------------------------------------------------
(* What a hold must find. *)

\* The reservation of a project that is not released: at most one, the last.
Current(p) ==
  IF \E e \in DOMAIN reservations[p] : reservations[p][e].state # "released"
  THEN CHOOSE e \in DOMAIN reservations[p] : reservations[p][e].state # "released"
  ELSE Nothing

RollbackTo(p, d) ==
  intents[p] = [kind |-> "rollback", target |-> d] /\ deployments[p][d].lifecycle = "healthy"

\* ensure_source_context: the current configuration or a rollback target, and
\* the authority of a project that was ever bound to GitHub.
SourceContext(p, d) ==
  /\ deployments[p][d].config = projects[p].config \/ RollbackTo(p, d)
  /\ p \in authorized

ProofValid(p, d, n) ==
  /\ n # 0 /\ deployments[p][d].proof = n /\ deployments[p][d].fresh
  /\ SourceContext(p, d)

LifecycleAllowsHold(p, d) ==
  \/ intents[p].kind = "none" /\ deployments[p][d].lifecycle = "admission_required"
  \/ RollbackTo(p, d)

Spent(a) == Cardinality({n \in BuildAttempt : usage[a][n] = "debited"})

Admissible(p) ==
  LET a == AccountOf[p]
  IN  entitlements[a].active /\ Spent(a) < entitlements[a].seconds

\* expire_holds_for_scope and reconcile.
Overdue(h) == holds[h].state = "active" /\ holds[h].lapsed
Swept == [h \in DOMAIN holds |->
            IF Overdue(h) THEN [holds[h] EXCEPT !.state = "expired"] ELSE holds[h]]
Refunded == refunds \cup {h \in DOMAIN holds : Overdue(h) /\ holds[h].kind = "initial"}

Live(a) == {r \in UNION {{p} \X DOMAIN reservations[p] : p \in {q \in Project : AccountOf[q] = a}} :
              reservations[r[1]][r[2]].state # "released"}
Held(table, a, kind, states) ==
  {h \in DOMAIN table : table[h].kind = kind /\ table[h].state \in states
                        /\ AccountOf[table[h].project] = a}

AccountSlotUse(table, a) ==
  Cardinality(Live(a)) + Cardinality(Held(table, a, "initial", {"active"}))
\* Mutant: holds are not counted against the pool.
PoolSlotUseReserved(table) == Cardinality(UNION {Live(a) : a \in Account})
PoolSlotUse(table) ==
  Cardinality(UNION {Live(a) : a \in Account})
    + Cardinality(UNION {Held(table, a, "initial", {"active"}) : a \in Account})
PoolRolloutUse(table) ==
  Cardinality(UNION {Held(table, a, "rollout", {"active", "consumed"}) : a \in Account})

CapacityAvailable(p, kind) ==
  IF kind = "initial"
  THEN /\ AccountSlotUse(Swept, AccountOf[p]) < entitlements[AccountOf[p]].limit
       /\ PoolSlotUse(Swept) < pool.slots
  ELSE PoolRolloutUse(Swept) < pool.headroom

-----------------------------------------------------------------------------
(* Holds and admission. *)

PutSourceProof(p, d) ==
  /\ deployments[p][d].proof < MaxProofs
  /\ SourceContext(p, d)
  /\ deployments' = [deployments EXCEPT ![p][d].proof = @ + 1, ![p][d].fresh = TRUE]
  /\ UNCHANGED <<projects, intents, ledger, limits, outside>>

CreateHold(p, d) ==
  LET kind == IF Current(p) = Nothing THEN "initial" ELSE "rollout"
      busy == IF kind = "initial" THEN {"active"} ELSE {"active", "consumed"}
      hold == [project |-> p, deployment |-> d, proof |-> deployments[p][d].proof, kind |-> kind,
               epoch |-> Current(p), lapsed |-> FALSE, state |-> "active"]
  IN  /\ Len(holds) < MaxHolds
      /\ Admissible(p)
      /\ ProofValid(p, d, deployments[p][d].proof)
      /\ LifecycleAllowsHold(p, d)
      /\ ~\E h \in DOMAIN holds :
            /\ Swept[h].project = p /\ Swept[h].deployment = d
            /\ Swept[h].kind = kind /\ Swept[h].state \in busy
      /\ CapacityAvailable(p, kind)
      /\ holds' = Append(Swept, hold)
      /\ refunds' = Refunded
      /\ UNCHANGED <<graph, reservations, limits, outside>>

Consume(h) == [Swept EXCEPT ![h].state = "consumed"]

\* Mutant: a hold whose time has passed is still good until it is swept.
UsableUntilSwept(h) == holds[h].state = "active"
Usable(h) == holds[h].state = "active" /\ ~holds[h].lapsed

MayAdmit(h) ==
  LET p == holds[h].project
      d == holds[h].deployment
  IN  Admissible(p) /\ Usable(h) /\ ProofValid(p, d, holds[h].proof) /\ LifecycleAllowsHold(p, d)

\* slot_reservations_one_active_project_idx refuses a second reservation.
AdmitInitial(h) ==
  LET p == holds[h].project
      d == holds[h].deployment
  IN  /\ holds[h].kind = "initial"
      /\ MayAdmit(h)
      /\ Current(p) = Nothing
      /\ holds' = Consume(h)
      /\ refunds' = Refunded
      /\ reservations' = [reservations EXCEPT ![p] =
           Append(@, [first |-> d, hold |-> h, state |-> "reserved"])]
      /\ deployments' = IF deployments[p][d].lifecycle = "admission_required"
                        THEN [deployments EXCEPT ![p][d].lifecycle = "queued"]
                        ELSE deployments
      /\ projects' = [projects EXCEPT ![p].slots = 1, ![p].slot_state = "reserved"]
      /\ UNCHANGED <<intents, limits, outside>>

\* rollout_admitted answers 500, and undoes the step, unless the deployment is
\* awaiting admission: the hold of a rollback target is never consumed.
AdmitRollout(h) ==
  LET p == holds[h].project
      d == holds[h].deployment
  IN  /\ holds[h].kind = "rollout"
      /\ MayAdmit(h)
      /\ Current(p) # Nothing
      /\ deployments[p][d].lifecycle = "admission_required"
      /\ holds' = Consume(h)
      /\ refunds' = Refunded
      /\ deployments' = [deployments EXCEPT ![p][d].lifecycle = "queued"]
      /\ UNCHANGED <<projects, intents, reservations, limits, outside>>

\* The refusal of a lost hold commits the sweep.
AdmitLost(h) ==
  /\ Admissible(holds[h].project)
  /\ ~Usable(h)
  /\ holds' = Swept
  /\ refunds' = Refunded
  /\ holds' # holds
  /\ UNCHANGED <<graph, reservations, limits, outside>>

Reconcile ==
  /\ \E h \in DOMAIN holds : Overdue(h)
  /\ holds' = Swept
  /\ refunds' = Refunded
  /\ UNCHANGED <<graph, reservations, limits, outside>>

-----------------------------------------------------------------------------
(* Trusted observations of reservation e of project p: about its first     *)
(* deployment, or about the deployment of a rollout hold h of that epoch.  *)

Linked(p, e, d, h) ==
  IF h = Nothing
  THEN d = reservations[p][e].first
  ELSE /\ holds[h].project = p /\ holds[h].deployment = d /\ holds[h].epoch = e
       /\ holds[h].kind = "rollout" /\ holds[h].state \in {"consumed", "released"}

Unreleased(p, e) == reservations[p][e].state # "released"

ObserveRetained(p, e, d, h) ==
  /\ Linked(p, e, d, h) /\ Unreleased(p, e)
  /\ reservations' = [reservations EXCEPT ![p][e].state = "resources_retained"]
  /\ projects' = [projects EXCEPT ![p].slots = 1, ![p].slot_state = "resources_retained"]
  /\ UNCHANGED <<deployments, intents, holds, refunds, limits, outside>>

ObserveHealthy(p, e, d, h) ==
  /\ Linked(p, e, d, h) /\ Unreleased(p, e)
  /\ deployments' = [deployments EXCEPT ![p][d].lifecycle = "healthy"]
  /\ UNCHANGED <<projects, intents, ledger, limits, outside>>

\* Mutant: a repeated confirmation releases the project's slot again.
CleanableAgain(p, e) == TRUE
\* Repeating the confirmation of a released reservation changes nothing.
Cleanable(p, e) == Unreleased(p, e)

ObserveCleanup(p, e, d, h) ==
  /\ Linked(p, e, d, h) /\ Cleanable(p, e)
  /\ reservations' = [reservations EXCEPT ![p][e].state = "released"]
  /\ projects' = [projects EXCEPT ![p].slots = 0, ![p].slot_state = "released"]
  /\ deployments' = IF deployments[p][d].lifecycle \in {"admission_required", "queued"}
                    THEN [deployments EXCEPT ![p][d].lifecycle = "failed_no_resources"]
                    ELSE deployments
  /\ UNCHANGED <<intents, holds, refunds, limits, outside>>

ObserveRolloutReleased(p, e, d, h) ==
  /\ h # Nothing /\ Linked(p, e, d, h)
  /\ holds[h].state = "consumed"
  /\ holds' = [holds EXCEPT ![h].state = "released"]
  /\ UNCHANGED <<graph, reservations, refunds, limits, outside>>

-----------------------------------------------------------------------------
(* The tenant database of a project, as far as it touches the slot.        *)

CreateDatabase(p) ==
  /\ p \in Explored /\ database[p] = Nothing /\ Current(p) # Nothing
  /\ \E d \in Deployments(p) : deployments[p][d].config = projects[p].config
  /\ database' = [database EXCEPT ![p] = Current(p)]
  /\ UNCHANGED <<graph, ledger, limits, authorized>>

\* A provisioning that left resources behind: the reservation is kept only if
\* it is not released, the project's slot in any case.
ProvisionRetains(p) ==
  /\ database[p] # Nothing
  /\ reservations' = IF Unreleased(p, database[p])
                     THEN [reservations EXCEPT ![p][database[p]].state = "resources_retained"]
                     ELSE reservations
  /\ projects' = [projects EXCEPT ![p].slots = 1, ![p].slot_state = "resources_retained"]
  /\ UNCHANGED <<deployments, intents, holds, refunds, limits, outside>>

-----------------------------------------------------------------------------
(* Limits and usage. *)

Fits(new) == PoolSlotUse(holds) <= new.slots /\ PoolRolloutUse(holds) <= new.headroom

PutCapacity(new) ==
  /\ Fits(new)
  /\ pool' = new
  /\ UNCHANGED <<graph, ledger, entitlements, usage, outside>>

PutEntitlement(a, new) ==
  /\ AccountSlotUse(holds, a) <= new.limit
  /\ Spent(a) <= new.seconds
  /\ entitlements' = [entitlements EXCEPT ![a] = new]
  /\ UNCHANGED <<graph, ledger, pool, usage, outside>>

Debit(a, n) ==
  /\ entitlements[a].active
  /\ usage[a][n] = "none"
  /\ Spent(a) + 1 <= entitlements[a].seconds
  /\ usage' = [usage EXCEPT ![a][n] = "debited"]
  /\ UNCHANGED <<graph, ledger, entitlements, pool, outside>>

\* A build that ends is debited whatever the entitlement says by then: the
\* limit may have been lowered or spent since its seconds were reserved.
BuildDebit(a, n) ==
  /\ usage[a][n] = "none"
  /\ usage' = [usage EXCEPT ![a][n] = "debited"]
  /\ UNCHANGED <<graph, ledger, entitlements, pool, outside>>

Credit(a, n) ==
  /\ usage[a][n] = "debited"
  /\ usage' = [usage EXCEPT ![a][n] = "credited"]
  /\ UNCHANGED <<graph, ledger, entitlements, pool, outside>>

-----------------------------------------------------------------------------
(* Time and GitHub. *)

HoldLapses(h) ==
  /\ holds[h].state = "active" /\ ~holds[h].lapsed
  /\ holds' = [holds EXCEPT ![h].lapsed = TRUE]
  /\ UNCHANGED <<graph, reservations, refunds, limits, outside>>

ProofLapses(p, d) ==
  /\ deployments[p][d].fresh
  /\ deployments' = [deployments EXCEPT ![p][d].fresh = FALSE]
  /\ UNCHANGED <<projects, intents, ledger, limits, outside>>

AuthorityLost(p) ==
  /\ p \in Explored \cap authorized
  /\ authorized' = authorized \ {p}
  /\ UNCHANGED <<graph, ledger, limits, database>>

Own(p) ==
  \/ CreateConfiguration(p)
  \/ \E c \in 1..projects[p].config : CreateDeploymentIntent(p, c)
  \/ CreateRemovalIntent(p)
  \/ \E d \in Deployments(p) : CreateRollbackIntent(p, d) \/ CreateHold(p, d)

Admit(h) == AdmitInitial(h) \/ AdmitRollout(h) \/ AdmitLost(h)

Observe(p) ==
  \E e \in DOMAIN reservations[p], d \in Deployments(p), h \in DOMAIN holds \cup {Nothing} :
    \/ ObserveRetained(p, e, d, h)
    \/ ObserveHealthy(p, e, d, h)
    \/ ObserveCleanup(p, e, d, h)
    \/ ObserveRolloutReleased(p, e, d, h)

Next ==
  \/ \E p \in Project :
       \/ Own(p)
       \/ Observe(p)
       \/ CreateDatabase(p)
       \/ ProvisionRetains(p)
       \/ AuthorityLost(p)
       \/ \E d \in Deployments(p) : PutSourceProof(p, d) \/ ProofLapses(p, d)
  \/ \E h \in DOMAIN holds : Admit(h) \/ HoldLapses(h)
  \/ Reconcile
  \/ \E new \in PoolLimits : PutCapacity(new)
  \/ \E a \in Account :
       \/ \E new \in EntitlementRow : PutEntitlement(a, new)
       \/ \E n \in BuildAttempt : Debit(a, n) \/ BuildDebit(a, n) \/ Credit(a, n)

Spec == Init /\ [][Next]_vars

-----------------------------------------------------------------------------
(* Properties. *)

\* Every row is one its table can hold.
TypeOK ==
  /\ projects \in [Project -> ProjectRow]
  /\ deployments \in [Project -> Seq(DeploymentRow)]
  /\ intents \in [Project -> IntentRow]
  /\ holds \in Seq(HoldRow)
  /\ reservations \in [Project -> Seq(ReservationRow)]
  /\ refunds \subseteq DOMAIN holds
  /\ entitlements \in [Account -> EntitlementRow]
  /\ pool \in PoolLimits
  /\ usage \in [Account -> [BuildAttempt -> {"none", "debited", "credited"}]]
  /\ authorized \subseteq Project
  /\ database \in [Project -> Nat]

\* "PostgreSQL commits no more reservations than both limits allow": holds and
\* reservations of an account and of the pool, and rollouts, stay within limits
\* that are themselves lowered at any time, while holds expire and slots are
\* released without the pool's lock.  Build seconds are not among them: a build
\* is debited without a test.
LimitsHeld ==
  /\ \A a \in Account : AccountSlotUse(holds, a) <= entitlements[a].limit
  /\ PoolSlotUse(holds) <= pool.slots
  /\ PoolRolloutUse(holds) <= pool.headroom

\* Every hold is accounted for once: a consumed initial hold has one
\* reservation, of its own project and deployment, and an expired one a refund
\* instead, however admission, sweeps and expiry meet.
HoldsAccounted ==
  \A h \in DOMAIN holds :
    LET made == {r \in UNION {{p} \X DOMAIN reservations[p] : p \in Project} :
                   reservations[r[1]][r[2]].hold = h}
    IN  /\ Cardinality(made) = IF holds[h].kind = "initial" /\ holds[h].state = "consumed" THEN 1 ELSE 0
        /\ \A r \in made : r[1] = holds[h].project
                            /\ reservations[r[1]][r[2]].first = holds[h].deployment
        /\ h \in refunds <=> holds[h].kind = "initial" /\ holds[h].state = "expired"

\* A project has at most one live reservation, and while it has one its owner
\* is shown the slot, whatever is reported about earlier epochs.
ReservedIsShown ==
  \A p \in Project :
    /\ \A e, f \in DOMAIN reservations[p] : Unreleased(p, e) /\ Unreleased(p, f) => e = f
    /\ Current(p) # Nothing =>
         projects[p].slots = 1
         /\ projects[p].slot_state \in {"reserved", "resources_retained", "release_pending"}
=============================================================================
