--------------------------- MODULE AdmissionProofs --------------------------
(***************************************************************************)
(* Machine-checked proofs about Admission, for any accounts, projects,     *)
(* limits, number of deployments and number of holds.                      *)
(***************************************************************************)
EXTENDS Admission, FiniteSetTheorems, SequenceTheorems, TLAPS

-----------------------------------------------------------------------------
(* The inductive invariant. *)

\* At most one reservation of a project is not released, and while there is one
\* the project shows it.
SlotInv(p) ==
  /\ \A e, f \in DOMAIN reservations[p] : Unreleased(p, e) /\ Unreleased(p, f) => e = f
  /\ \A e \in DOMAIN reservations[p] : Unreleased(p, e) =>
       projects[p].slots = 1
       /\ projects[p].slot_state \in {"reserved", "resources_retained", "release_pending"}
  /\ database[p] # Nothing => database[p] \in DOMAIN reservations[p]

\* Reservation e of project p was made from hold h.
Made(h, p, e) == p \in Project /\ e \in DOMAIN reservations[p] /\ reservations[p][e].hold = h

\* A hold is spent once: for one reservation, or for a refund.
HoldInv(h) ==
  /\ holds[h].deployment \in DOMAIN deployments[holds[h].project]
  /\ \A p, q \in Project : \A e \in DOMAIN reservations[p], f \in DOMAIN reservations[q] :
       Made(h, p, e) /\ Made(h, q, f) => p = q /\ e = f
  /\ \A p \in Project : \A e \in DOMAIN reservations[p] : Made(h, p, e) =>
       /\ holds[h].kind = "initial" /\ holds[h].state = "consumed"
       /\ p = holds[h].project /\ reservations[p][e].first = holds[h].deployment
  /\ holds[h].kind = "initial" /\ holds[h].state = "consumed" =>
       \E p \in Project : \E e \in DOMAIN reservations[p] : Made(h, p, e)
  /\ h \in refunds <=> holds[h].kind = "initial" /\ holds[h].state = "expired"

LedgerInv ==
  /\ Len(holds) <= MaxHolds
  /\ \A p \in Project : \A e \in DOMAIN reservations[p] : reservations[p][e].hold \in DOMAIN holds
  /\ \A h \in DOMAIN holds : HoldInv(h)

AllLive == UNION {Live(a) : a \in Account}
\* What is counted is finite.
Countable == IsFiniteSet(AllLive)

AdmissionInv ==
  /\ TypeOK
  /\ \A p \in Project : SlotInv(p)
  /\ LedgerInv
  /\ Countable /\ LimitsHeld

-----------------------------------------------------------------------------
(* Rows and tables. *)

Shown(p) == /\ projects[p].slots = 1
            /\ projects[p].slot_state \in {"reserved", "resources_retained", "release_pending"}

GraphTyped ==
  /\ projects \in [Project -> ProjectRow]
  /\ deployments \in [Project -> Seq(DeploymentRow)]
  /\ intents \in [Project -> IntentRow]
LedgerTyped ==
  /\ holds \in Seq(HoldRow)
  /\ reservations \in [Project -> Seq(ReservationRow)]
  /\ refunds \subseteq DOMAIN holds
RestTyped ==
  /\ entitlements \in [Account -> EntitlementRow]
  /\ pool \in PoolLimits
  /\ usage \in [Account -> [BuildAttempt -> {"none", "debited", "credited"}]]
  /\ authorized \subseteq Project
  /\ database \in [Project -> Nat]

LEMMA TypeParts == TypeOK <=> GraphTyped /\ LedgerTyped /\ RestTyped
BY DEF TypeOK, GraphTyped, LedgerTyped, RestTyped

LEMMA HoldTyped ==
  /\ \A row \in HoldRow : /\ row.project \in Project /\ row.deployment \in Nat \ {0}
                          /\ row.proof \in 1..MaxProofs /\ row.kind \in {"initial", "rollout"}
                          /\ row.epoch \in Nat /\ row.lapsed \in BOOLEAN
                          /\ row.state \in {"active", "consumed", "expired", "released"}
  /\ \A row \in HoldRow, st \in {"active", "consumed", "expired", "released"} :
       LET new == [row EXCEPT !.state = st]
       IN  /\ new \in HoldRow /\ new.state = st /\ new.project = row.project
           /\ new.deployment = row.deployment /\ new.kind = row.kind
BY DEF HoldRow

LEMMA ReservationTyped ==
  /\ \A row \in ReservationRow : /\ row.first \in Nat \ {0} /\ row.hold \in 1..MaxHolds
                                 /\ row.state \in {"reserved", "resources_retained", "released"}
  /\ \A row \in ReservationRow, st \in {"reserved", "resources_retained", "released"} :
       LET new == [row EXCEPT !.state = st]
       IN  new \in ReservationRow /\ new.state = st /\ new.hold = row.hold /\ new.first = row.first
BY DEF ReservationRow

LEMMA ProjectTyped ==
  ASSUME NEW row \in ProjectRow
  PROVE  /\ row.config \in 1..MaxConfigs
         /\ \A st \in SlotState, n \in {0, 1} :
              LET new == [row EXCEPT !.slots = n, !.slot_state = st]
              IN  new \in ProjectRow /\ new.slots = n /\ new.slot_state = st
         /\ \A st \in SlotState :
              LET new == [row EXCEPT !.slot_state = st]
              IN  new \in ProjectRow /\ new.slots = row.slots /\ new.slot_state = st
BY DEF ProjectRow

LEMMA TablesTyped ==
  ASSUME TypeOK
  PROVE  /\ DOMAIN holds = 1..Len(holds) /\ Len(holds) \in Nat
         /\ \A h \in DOMAIN holds : holds[h] \in HoldRow
         /\ \A p \in Project :
              /\ projects[p] \in ProjectRow /\ intents[p] \in IntentRow
              /\ deployments[p] \in Seq(DeploymentRow)
              /\ DOMAIN deployments[p] = 1..Len(deployments[p]) /\ Len(deployments[p]) \in Nat
              /\ \A d \in DOMAIN deployments[p] : deployments[p][d] \in DeploymentRow
              /\ reservations[p] \in Seq(ReservationRow)
              /\ DOMAIN reservations[p] = 1..Len(reservations[p]) /\ Len(reservations[p]) \in Nat
              /\ \A e \in DOMAIN reservations[p] : reservations[p][e] \in ReservationRow
<1>1. /\ holds \in Seq(HoldRow) /\ projects \in [Project -> ProjectRow]
      /\ deployments \in [Project -> Seq(DeploymentRow)]
      /\ intents \in [Project -> IntentRow] /\ reservations \in [Project -> Seq(ReservationRow)]
  BY DEF TypeOK
<1> QED
  BY <1>1

\* Rewriting one row of a table of sequences.
LEMMA RowRewritten ==
  ASSUME NEW S, NEW f \in [Project -> Seq(S)], NEW g, NEW p \in Project, NEW i \in DOMAIN f[p],
         NEW row \in S, g = [f EXCEPT ![p] = [f[p] EXCEPT ![i] = row]]
  PROVE  /\ g \in [Project -> Seq(S)]
         /\ \A q \in Project : DOMAIN g[q] = DOMAIN f[q] /\ (q # p => g[q] = f[q])
         /\ \A j \in DOMAIN f[p] : g[p][j] = IF j = i THEN row ELSE f[p][j]
<1>1. f[p] \in Seq(S) /\ DOMAIN f[p] = 1..Len(f[p])
  OBVIOUS
<1> DEFINE s == [f[p] EXCEPT ![i] = row]
<1>2. /\ s \in Seq(S) /\ DOMAIN s = DOMAIN f[p]
      /\ \A j \in DOMAIN f[p] : s[j] = IF j = i THEN row ELSE f[p][j]
  BY <1>1, ExceptSeq
<1>3. g = [f EXCEPT ![p] = s]
  OBVIOUS
<1> HIDE DEF s
<1> QED
  BY <1>2, <1>3

\* Adding a row to a table of sequences.
LEMMA RowAdded ==
  ASSUME NEW S, NEW f \in [Project -> Seq(S)], NEW g, NEW p \in Project, NEW row \in S,
         g = [f EXCEPT ![p] = Append(f[p], row)]
  PROVE  /\ g \in [Project -> Seq(S)]
         /\ \A q \in Project : (q # p => g[q] = f[q]) /\ DOMAIN f[q] \subseteq DOMAIN g[q]
         /\ \A j \in DOMAIN f[p] : g[p][j] = f[p][j]
         /\ DOMAIN f[p] = 1..Len(f[p]) /\ Len(f[p]) \in Nat
         /\ DOMAIN g[p] = 1..(Len(f[p]) + 1) /\ g[p][Len(f[p]) + 1] = row
<1>1. f[p] \in Seq(S) /\ DOMAIN f[p] = 1..Len(f[p]) /\ Len(f[p]) \in Nat
  OBVIOUS
<1> DEFINE s == Append(f[p], row)
<1>2. /\ s \in Seq(S) /\ DOMAIN s = 1..(Len(f[p]) + 1) /\ s[Len(f[p]) + 1] = row
      /\ \A j \in DOMAIN f[p] : s[j] = f[p][j]
  BY <1>1, AppendProperties
<1>3. g = [f EXCEPT ![p] = s]
  OBVIOUS
<1> HIDE DEF s
<1>4. /\ g \in [Project -> Seq(S)] /\ g[p] = s
      /\ \A q \in Project : q # p => g[q] = f[q]
  BY <1>2, <1>3
<1>5. DOMAIN f[p] \subseteq DOMAIN g[p]
  BY <1>1, <1>2, <1>4
<1> QED
  BY <1>1, <1>2, <1>4, <1>5

LEMMA SweptIs ==
  ASSUME TypeOK
  PROVE  /\ Swept \in Seq(HoldRow) /\ Len(Swept) = Len(holds) /\ DOMAIN Swept = DOMAIN holds
         /\ \A h \in DOMAIN holds :
              /\ Swept[h] \in HoldRow /\ Swept[h].project = holds[h].project
              /\ Swept[h].deployment = holds[h].deployment /\ Swept[h].kind = holds[h].kind
              /\ Swept[h].state = IF Overdue(h) THEN "expired" ELSE holds[h].state
<1>1. holds \in Seq(HoldRow) /\ Len(holds) \in Nat /\ DOMAIN holds = 1..Len(holds)
  BY DEF TypeOK
<1>2. DOMAIN Swept = DOMAIN holds
  BY DEF Swept
<1>3. ASSUME NEW h \in DOMAIN holds
      PROVE  /\ Swept[h] \in HoldRow /\ Swept[h].project = holds[h].project
             /\ Swept[h].deployment = holds[h].deployment /\ Swept[h].kind = holds[h].kind
             /\ Swept[h].state = IF Overdue(h) THEN "expired" ELSE holds[h].state
  <2>1. holds[h] \in HoldRow
    BY <1>1
  <2>2. Swept[h] = IF Overdue(h) THEN [holds[h] EXCEPT !.state = "expired"] ELSE holds[h]
    BY DEF Swept
  <2>3. CASE Overdue(h)
    BY <2>1, <2>2, <2>3 DEF HoldRow
  <2>4. CASE ~Overdue(h)
    BY <2>1, <2>2, <2>4
  <2> QED BY <2>3, <2>4
<1>4. Swept \in Seq(HoldRow) /\ Len(Swept) = Len(holds)
  <2>1. Swept \in [1..Len(holds) -> HoldRow]
    BY <1>1, <1>3 DEF Swept
  <2> QED
    BY <1>1, <2>1
<1> QED BY <1>2, <1>3, <1>4

LEMMA LiveIs ==
  ASSUME NEW a, NEW r
  PROVE  r \in Live(a) <=>
           \E p \in Project : \E e \in DOMAIN reservations[p] :
             r = <<p, e>> /\ AccountOf[p] = a /\ Unreleased(p, e)
BY DEF Live, Unreleased

LEMMA CurrentIs ==
  ASSUME NEW p, TypeOK, p \in Project
  PROVE  /\ Current(p) = Nothing <=> \A e \in DOMAIN reservations[p] : ~Unreleased(p, e)
         /\ Current(p) # Nothing => Current(p) \in DOMAIN reservations[p] /\ Unreleased(p, Current(p))
         /\ Current(p) \in Nat
<1>1. DOMAIN reservations[p] \subseteq Nat \ {0}
  BY TablesTyped
<1>2. CASE \E e \in DOMAIN reservations[p] : Unreleased(p, e)
  <2> DEFINE c == CHOOSE e \in DOMAIN reservations[p] : reservations[p][e].state # "released"
  <2>1. c \in DOMAIN reservations[p] /\ Unreleased(p, c)
    BY <1>2 DEF Unreleased
  <2>2. Current(p) = c
    BY <1>2 DEF Current, Unreleased
  <2> HIDE DEF c
  <2> QED
    BY <1>1, <1>2, <2>1, <2>2 DEF Nothing
<1>3. CASE \A e \in DOMAIN reservations[p] : ~Unreleased(p, e)
  BY <1>3 DEF Current, Nothing, Unreleased
<1> QED BY <1>2, <1>3

-----------------------------------------------------------------------------
(* What survives when the tables it reads do. *)

\* Deployments are never deleted.
Grows == \A p \in Project : DOMAIN deployments[p] \subseteq DOMAIN deployments'[p]

\* The reservations are the same, but for their states.
SameReservations ==
  \A p \in Project :
    /\ DOMAIN reservations'[p] = DOMAIN reservations[p]
    /\ \A e \in DOMAIN reservations[p] : /\ reservations'[p][e].hold = reservations[p][e].hold
                                         /\ reservations'[p][e].first = reservations[p][e].first

\* No reservation comes to life.
NoneRevived ==
  \A p \in Project : \A e \in DOMAIN reservations[p] : Unreleased(p, e)' => Unreleased(p, e)

\* Hold h is about the same deployment, and is spent if it was.
SameHold(h) ==
  /\ holds'[h].project = holds[h].project /\ holds'[h].deployment = holds[h].deployment
  /\ holds'[h].kind = holds[h].kind
  /\ holds[h].kind = "initial" => (holds'[h].state = "consumed" <=> holds[h].state = "consumed")
  /\ h \in refunds' <=> holds'[h].kind = "initial" /\ holds'[h].state = "expired"

LEMMA Unmoved == UNCHANGED reservations => SameReservations /\ NoneRevived
BY DEF SameReservations, NoneRevived, Unreleased

LEMMA KeepsSlots ==
  ASSUME AdmissionInv, UNCHANGED <<reservations, database>>,
         \A p \in Project : Shown(p) => Shown(p)'
  PROVE  \A p \in Project : SlotInv(p)'
BY DEF AdmissionInv, SlotInv, Shown, Unreleased

LEMMA HoldKept ==
  ASSUME AdmissionInv, SameReservations, Grows, NEW h \in DOMAIN holds, SameHold(h)
  PROVE  HoldInv(h)'
<1>1. HoldInv(h) /\ holds[h].project \in Project
  BY TablesTyped, HoldTyped DEF AdmissionInv, LedgerInv
<1>2. \A p \in Project : \A e \in DOMAIN reservations[p] : Made(h, p, e)' <=> Made(h, p, e)
  BY DEF SameReservations, Made
<1>3. holds'[h].deployment \in DOMAIN deployments'[holds'[h].project]
  BY <1>1 DEF HoldInv, Grows, SameHold
<1> QED
  BY <1>1, <1>2, <1>3 DEF HoldInv, SameHold, SameReservations

LEMMA KeepsLedger ==
  ASSUME AdmissionInv, SameReservations, Grows, DOMAIN holds' = DOMAIN holds,
         Len(holds') = Len(holds), \A h \in DOMAIN holds : SameHold(h)
  PROVE  LedgerInv'
<1>1. \A h \in DOMAIN holds : HoldInv(h)'
  BY HoldKept
<1> QED
  BY <1>1 DEF AdmissionInv, LedgerInv, SameReservations

LEMMA HoldsUnmoved ==
  ASSUME AdmissionInv, UNCHANGED <<holds, refunds>>
  PROVE  \A h \in DOMAIN holds : SameHold(h)
BY DEF AdmissionInv, LedgerInv, HoldInv, SameHold

LEMMA SweepKeepsHolds ==
  ASSUME AdmissionInv, holds' = Swept, refunds' = Refunded
  PROVE  /\ \A h \in DOMAIN holds : SameHold(h)
         /\ LedgerTyped => holds' \in Seq(HoldRow) /\ refunds' \subseteq DOMAIN holds'
<1>1. TypeOK
  BY DEF AdmissionInv
<1>2. ASSUME NEW h \in DOMAIN holds PROVE SameHold(h)
  <2>1. HoldInv(h) /\ (h \in Refunded <=> h \in refunds \/ (Overdue(h) /\ holds[h].kind = "initial"))
    BY DEF AdmissionInv, LedgerInv, Refunded
  <2> QED
    BY <1>1, <2>1, SweptIs DEF HoldInv, SameHold, Overdue
<1>3. Refunded \subseteq DOMAIN holds
  BY <1>1 DEF Refunded, TypeOK
<1> QED
  BY <1>1, <1>2, <1>3, SweptIs

-----------------------------------------------------------------------------
(* Counting. *)

ActiveInitial(table, a) == Held(table, a, "initial", {"active"})
Rollouts(table, a) == Held(table, a, "rollout", {"active", "consumed"})
AllInitial(table) == UNION {ActiveInitial(table, a) : a \in Account}
AllRollouts(table) == UNION {Rollouts(table, a) : a \in Account}

LEMMA UseIs ==
  ASSUME NEW table
  PROVE  /\ \A a : AccountSlotUse(table, a) = Cardinality(Live(a)) + Cardinality(ActiveInitial(table, a))
         /\ PoolSlotUse(table) = Cardinality(AllLive) + Cardinality(AllInitial(table))
         /\ PoolRolloutUse(table) = Cardinality(AllRollouts(table))
BY DEF AccountSlotUse, PoolSlotUse, PoolRolloutUse, AllLive, AllInitial, AllRollouts,
       ActiveInitial, Rollouts

\* The limits, in the sets that are counted.
Within ==
  /\ \A a \in Account :
       Cardinality(Live(a)) + Cardinality(ActiveInitial(holds, a)) <= entitlements[a].limit
  /\ Cardinality(AllLive) + Cardinality(AllInitial(holds)) <= pool.slots
  /\ Cardinality(AllRollouts(holds)) <= pool.headroom

LEMMA LimitsHeldIs == LimitsHeld <=> Within
BY DEF LimitsHeld, Within, AccountSlotUse, PoolSlotUse, PoolRolloutUse, AllLive, AllInitial,
       AllRollouts, ActiveInitial, Rollouts

\* The counted sets of holds of a table are finite.
LEMMA HeldFinite ==
  ASSUME NEW table \in Seq(HoldRow)
  PROVE  /\ \A a : IsFiniteSet(ActiveInitial(table, a)) /\ IsFiniteSet(Rollouts(table, a))
         /\ IsFiniteSet(AllInitial(table)) /\ IsFiniteSet(AllRollouts(table))
<1>1. IsFiniteSet(DOMAIN table)
  BY FS_Interval
<1>2. /\ AllInitial(table) \subseteq DOMAIN table /\ AllRollouts(table) \subseteq DOMAIN table
      /\ \A a : ActiveInitial(table, a) \subseteq DOMAIN table /\ Rollouts(table, a) \subseteq DOMAIN table
  BY DEF AllInitial, AllRollouts, ActiveInitial, Rollouts, Held
<1> QED
  BY <1>1, <1>2, FS_Subset

LEMMA LiveFinite ==
  ASSUME Countable
  PROVE  \A a \in Account : IsFiniteSet(Live(a))
<1>1. \A a \in Account : Live(a) \subseteq AllLive
  BY DEF AllLive
<1> QED
  BY <1>1, FS_Subset DEF Countable

\* The sets of a step that only gives capacity back shrink.
Shrinks ==
  /\ \A a \in Account : /\ ActiveInitial(holds', a) \subseteq ActiveInitial(holds, a)
                        /\ Rollouts(holds', a) \subseteq Rollouts(holds, a)
  /\ AllInitial(holds') \subseteq AllInitial(holds) /\ AllRollouts(holds') \subseteq AllRollouts(holds)

LEMMA ShrinksWhen ==
  ASSUME \A a \in Account : /\ ActiveInitial(holds', a) \subseteq ActiveInitial(holds, a)
                            /\ Rollouts(holds', a) \subseteq Rollouts(holds, a)
  PROVE  Shrinks
BY DEF Shrinks, AllInitial, AllRollouts

LEMMA LiveShrinks ==
  ASSUME SameReservations, NoneRevived
  PROVE  AllLive' \subseteq AllLive /\ \A a \in Account : Live(a)' \subseteq Live(a)
<1>1. ASSUME NEW a, NEW r, r \in Live(a)' PROVE r \in Live(a)
  <2>1. PICK p \in Project : \E e \in DOMAIN reservations'[p] :
          r = <<p, e>> /\ AccountOf[p] = a /\ Unreleased(p, e)'
    BY <1>1 DEF Live, Unreleased
  <2>2. \E e \in DOMAIN reservations[p] : r = <<p, e>> /\ AccountOf[p] = a /\ Unreleased(p, e)
    BY <2>1 DEF SameReservations, NoneRevived
  <2> QED BY <2>1, <2>2, LiveIs
<1> QED
  BY <1>1 DEF AllLive

LEMMA SmallerCounts ==
  ASSUME NEW S, NEW T, IsFiniteSet(S), T \subseteq S
  PROVE  /\ IsFiniteSet(T) /\ Cardinality(T) \in Nat /\ Cardinality(S) \in Nat
         /\ Cardinality(T) <= Cardinality(S)
BY FS_Subset, FS_CardinalityType

LEMMA LimitsTyped ==
  ASSUME TypeOK
  PROVE  /\ \A a \in Account : entitlements[a].limit \in Nat
         /\ pool.slots \in Nat /\ pool.headroom \in Nat
BY LimitsAssumption DEF TypeOK

LEMMA KeepsLimits ==
  ASSUME AdmissionInv, SameReservations, NoneRevived, Shrinks, UNCHANGED limits
  PROVE  Countable' /\ LimitsHeld'
<1>1. Within /\ Countable /\ TypeOK
  BY LimitsHeldIs DEF AdmissionInv
<1>2. AllLive' \subseteq AllLive /\ \A a \in Account : Live(a)' \subseteq Live(a)
  BY LiveShrinks
<1>4. Countable'
  BY <1>1, <1>2, FS_Subset DEF Countable
<1>5. holds \in Seq(HoldRow)
  BY <1>1 DEF TypeOK
<1>6. ASSUME NEW a \in Account
      PROVE  Cardinality(Live(a)') + Cardinality(ActiveInitial(holds', a)) <= entitlements[a].limit
  <2>1. /\ Cardinality(Live(a)') \in Nat /\ Cardinality(Live(a)) \in Nat
        /\ Cardinality(Live(a)') <= Cardinality(Live(a))
    BY <1>1, <1>2, LiveFinite, SmallerCounts
  <2>2. /\ Cardinality(ActiveInitial(holds', a)) \in Nat /\ Cardinality(ActiveInitial(holds, a)) \in Nat
        /\ Cardinality(ActiveInitial(holds', a)) <= Cardinality(ActiveInitial(holds, a))
    BY <1>5, HeldFinite, SmallerCounts DEF Shrinks
  <2> QED
    BY <1>1, <2>1, <2>2, LimitsTyped DEF Within
<1>7. Cardinality(AllLive') + Cardinality(AllInitial(holds')) <= pool.slots
  <2>1. /\ Cardinality(AllLive') \in Nat /\ Cardinality(AllLive) \in Nat
        /\ Cardinality(AllLive') <= Cardinality(AllLive)
    BY <1>1, <1>2, SmallerCounts DEF Countable
  <2>2. /\ Cardinality(AllInitial(holds')) \in Nat /\ Cardinality(AllInitial(holds)) \in Nat
        /\ Cardinality(AllInitial(holds')) <= Cardinality(AllInitial(holds))
    BY <1>5, HeldFinite, SmallerCounts DEF Shrinks
  <2> QED
    BY <1>1, <2>1, <2>2, LimitsTyped DEF Within
<1>8. Cardinality(AllRollouts(holds')) <= pool.headroom
  <2>1. /\ Cardinality(AllRollouts(holds')) \in Nat /\ Cardinality(AllRollouts(holds)) \in Nat
        /\ Cardinality(AllRollouts(holds')) <= Cardinality(AllRollouts(holds))
    BY <1>5, HeldFinite, SmallerCounts DEF Shrinks
  <2> QED
    BY <1>1, <2>1, LimitsTyped DEF Within
<1>9. Within'
  BY <1>1, <1>6, <1>7, <1>8 DEF Within, limits
<1> QED
  BY <1>4, <1>9, LimitsHeldIs, PTL

-----------------------------------------------------------------------------
(* Steps of the project graph. *)

LEMMA ShrinksUnmoved == UNCHANGED holds => Shrinks
BY DEF Shrinks

\* A step that leaves the ledger and the limits alone.
LEMMA GraphStep ==
  ASSUME AdmissionInv, UNCHANGED <<ledger, limits, database>>, Grows, GraphTyped',
         \A p \in Project : Shown(p) => Shown(p)', authorized' \subseteq Project
  PROVE  AdmissionInv'
<1>1. TypeOK'
  <2>1. LedgerTyped' /\ RestTyped'
    BY TypeParts DEF AdmissionInv, LedgerTyped, RestTyped, ledger, limits
  <2> QED BY <2>1, TypeParts, PTL
<1>2. \A p \in Project : SlotInv(p)'
  BY KeepsSlots DEF ledger
<1>3. LedgerInv'
  BY Unmoved, HoldsUnmoved, KeepsLedger DEF ledger
<1>4. Countable' /\ LimitsHeld'
  BY Unmoved, ShrinksUnmoved, KeepsLimits DEF ledger
<1> QED BY <1>1, <1>2, <1>3, <1>4 DEF AdmissionInv

LEMMA GraphIsTyped ==
  ASSUME AdmissionInv
  PROVE  /\ TypeOK /\ GraphTyped /\ LedgerTyped /\ RestTyped
         /\ authorized \subseteq Project
BY TypeParts DEF AdmissionInv, RestTyped

\* A step that rewrites one deployment, and no more of the graph.
LEMMA DeploymentRewritten ==
  ASSUME AdmissionInv, NEW p \in Project, NEW d \in DOMAIN deployments[p], NEW row \in DeploymentRow,
         deployments' = [deployments EXCEPT ![p] = [deployments[p] EXCEPT ![d] = row]]
  PROVE  deployments' \in [Project -> Seq(DeploymentRow)] /\ Grows
<1>1. deployments \in [Project -> Seq(DeploymentRow)]
  BY GraphIsTyped DEF GraphTyped
<1>2. /\ deployments' \in [Project -> Seq(DeploymentRow)]
      /\ \A q \in Project : DOMAIN deployments'[q] = DOMAIN deployments[q]
  BY <1>1, RowRewritten
<1> QED
  BY <1>2 DEF Grows

LEMMA DeploymentStep ==
  ASSUME AdmissionInv, NEW p \in Project, NEW d \in DOMAIN deployments[p], NEW row \in DeploymentRow,
         deployments' = [deployments EXCEPT ![p] = [deployments[p] EXCEPT ![d] = row]],
         UNCHANGED <<projects, intents, ledger, limits, outside>>
  PROVE  AdmissionInv'
<1>1. GraphTyped' /\ Grows
  BY DeploymentRewritten, GraphIsTyped DEF GraphTyped
<1>2. \A q \in Project : Shown(q) => Shown(q)'
  BY DEF Shown
<1> QED
  BY <1>1, <1>2, GraphStep, GraphIsTyped DEF outside

\* A step that rewrites one project, which shows its slot if it did.
LEMMA ProjectRewritten ==
  ASSUME AdmissionInv, NEW p \in Project, NEW row \in ProjectRow,
         projects' = [projects EXCEPT ![p] = row]
  PROVE  /\ projects' \in [Project -> ProjectRow] /\ projects'[p] = row
         /\ \A q \in Project : q # p => projects'[q] = projects[q]
BY GraphIsTyped DEF GraphTyped

LEMMA CreateConfigurationKeeps ==
  ASSUME AdmissionInv, NEW p \in Project, CreateConfiguration(p)
  PROVE  AdmissionInv'
<1> DEFINE row == [projects[p] EXCEPT !.config = @ + 1]
<1>1. projects[p] \in ProjectRow
  BY GraphIsTyped, TablesTyped
<1>2. projects[p].config + 1 \in 1..MaxConfigs
  BY <1>1, BoundsAssumption DEF ProjectRow, CreateConfiguration
<1>3. row \in ProjectRow /\ row.slots = projects[p].slots /\ row.slot_state = projects[p].slot_state
  BY <1>1, <1>2 DEF ProjectRow
<1>4. projects' = [projects EXCEPT ![p] = row]
  BY DEF CreateConfiguration
<1> HIDE DEF row
<1>5. GraphTyped' /\ \A q \in Project : Shown(q) => Shown(q)'
  BY <1>3, <1>4, ProjectRewritten, GraphIsTyped DEF GraphTyped, Shown, CreateConfiguration
<1>6. UNCHANGED <<deployments, ledger, limits, authorized, database>> /\ Grows
  BY DEF CreateConfiguration, outside, Grows
<1> QED
  BY <1>5, <1>6, GraphStep, GraphIsTyped

LEMMA CreateDeploymentIntentKeeps ==
  ASSUME AdmissionInv, NEW p \in Project, NEW c \in 1..projects[p].config,
         CreateDeploymentIntent(p, c)
  PROVE  AdmissionInv'
<1> DEFINE row == [config |-> c, lifecycle |-> "admission_required", proof |-> 0, fresh |-> FALSE]
<1>1. projects[p] \in ProjectRow /\ deployments \in [Project -> Seq(DeploymentRow)]
  BY GraphIsTyped, TablesTyped DEF GraphTyped
<1>2. c \in 1..MaxConfigs
  BY <1>1, BoundsAssumption DEF ProjectRow
<1>3. row \in DeploymentRow
  BY <1>2, BoundsAssumption DEF DeploymentRow, Lifecycle
<1>4. deployments' = [deployments EXCEPT ![p] = Append(deployments[p], row)]
  BY DEF CreateDeploymentIntent
<1> HIDE DEF row
<1>5. deployments' \in [Project -> Seq(DeploymentRow)] /\ Grows
  BY <1>1, <1>3, <1>4, RowAdded DEF Grows
<1>6. projects' \in [Project -> ProjectRow] /\ \A q \in Project : Shown(q) => Shown(q)'
  <2>1. CASE projects[p].slot_state \in {"no_slot", "released"}
    <3> DEFINE new == [projects[p] EXCEPT !.slots = 0, !.slot_state = "admission_required"]
    <3>1. new \in ProjectRow
      BY <1>1 DEF ProjectRow, SlotState
    <3>2. projects' = [projects EXCEPT ![p] = new]
      BY <2>1 DEF CreateDeploymentIntent, AwaitingSlot
    <3> HIDE DEF new
    <3> QED
      BY <2>1, <3>1, <3>2, ProjectRewritten DEF Shown
  <2>2. CASE projects[p].slot_state \notin {"no_slot", "released"}
    BY <2>2, GraphIsTyped DEF CreateDeploymentIntent, AwaitingSlot, Shown, GraphTyped
  <2> QED BY <2>1, <2>2
<1>7. UNCHANGED <<intents, ledger, limits, authorized, database>>
  BY DEF CreateDeploymentIntent, outside
<1>8. GraphTyped'
  BY <1>5, <1>6, <1>7, GraphIsTyped DEF GraphTyped
<1> QED
  BY <1>5, <1>6, <1>7, <1>8, GraphStep, GraphIsTyped

LEMMA CreateRollbackIntentKeeps ==
  ASSUME AdmissionInv, NEW p \in Project, NEW d \in DOMAIN deployments[p], CreateRollbackIntent(p, d)
  PROVE  AdmissionInv'
<1>1. [kind |-> "rollback", target |-> d] \in IntentRow
  BY GraphIsTyped, TablesTyped DEF IntentRow
<1>2. GraphTyped'
  BY <1>1, GraphIsTyped DEF GraphTyped, CreateRollbackIntent
<1>3. (\A q \in Project : Shown(q) => Shown(q)') /\ Grows
  BY DEF CreateRollbackIntent, Shown, Grows
<1> QED
  BY <1>2, <1>3, GraphStep, GraphIsTyped DEF CreateRollbackIntent, outside

LEMMA CreateRemovalIntentKeeps ==
  ASSUME AdmissionInv, NEW p \in Project, CreateRemovalIntent(p)
  PROVE  AdmissionInv'
<1>1. [kind |-> "removal", target |-> Nothing] \in IntentRow /\ projects[p] \in ProjectRow
  BY GraphIsTyped, TablesTyped DEF IntentRow, Nothing
<1> DEFINE row == [projects[p] EXCEPT !.slot_state = "release_pending"]
<1>2. row \in ProjectRow /\ row.slots = projects[p].slots /\ row.slot_state = "release_pending"
  BY <1>1 DEF ProjectRow, SlotState
<1>3. projects' = [projects EXCEPT ![p] = row]
  BY DEF CreateRemovalIntent
<1> HIDE DEF row
<1>4. (\A q \in Project : Shown(q) => Shown(q)') /\ projects' \in [Project -> ProjectRow]
  BY <1>2, <1>3, ProjectRewritten DEF Shown
<1>5. GraphTyped' /\ Grows
  BY <1>1, <1>4, GraphIsTyped DEF GraphTyped, CreateRemovalIntent, Grows
<1> QED
  BY <1>4, <1>5, GraphStep, GraphIsTyped DEF CreateRemovalIntent, outside

LEMMA PutSourceProofKeeps ==
  ASSUME AdmissionInv, NEW p \in Project, NEW d \in DOMAIN deployments[p], PutSourceProof(p, d)
  PROVE  AdmissionInv'
<1>1. deployments[p][d] \in DeploymentRow
  BY GraphIsTyped, TablesTyped
<1> DEFINE row == [deployments[p][d] EXCEPT !.proof = @ + 1, !.fresh = TRUE]
<1>2. deployments[p][d].proof + 1 \in 0..MaxProofs
  BY <1>1, BoundsAssumption DEF DeploymentRow, PutSourceProof
<1>3. row \in DeploymentRow
  BY <1>1, <1>2 DEF DeploymentRow
<1>4. deployments' = [deployments EXCEPT ![p] = [deployments[p] EXCEPT ![d] = row]]
  BY <1>1, GraphIsTyped DEF PutSourceProof, GraphTyped
<1> HIDE DEF row
<1> QED
  BY <1>3, <1>4, DeploymentStep DEF PutSourceProof

LEMMA ProofLapsesKeeps ==
  ASSUME AdmissionInv, NEW p \in Project, NEW d \in DOMAIN deployments[p], ProofLapses(p, d)
  PROVE  AdmissionInv'
<1>1. deployments[p][d] \in DeploymentRow
  BY GraphIsTyped, TablesTyped
<1> DEFINE row == [deployments[p][d] EXCEPT !.fresh = FALSE]
<1>2. row \in DeploymentRow
  BY <1>1 DEF DeploymentRow
<1>3. deployments' = [deployments EXCEPT ![p] = [deployments[p] EXCEPT ![d] = row]]
  BY DEF ProofLapses
<1> HIDE DEF row
<1> QED
  BY <1>2, <1>3, DeploymentStep DEF ProofLapses

\* The lifecycle of a deployment moves, or not.
LEMMA LifecycleMoved ==
  ASSUME AdmissionInv, NEW p \in Project, NEW d \in DOMAIN deployments[p], NEW l \in Lifecycle,
         \/ deployments' = [deployments EXCEPT ![p][d].lifecycle = l]
         \/ deployments' = deployments
  PROVE  deployments' \in [Project -> Seq(DeploymentRow)] /\ Grows
<1>1. CASE deployments' = deployments
  BY <1>1, GraphIsTyped DEF GraphTyped, Grows
<1>2. CASE deployments' = [deployments EXCEPT ![p][d].lifecycle = l]
  <2>1. deployments[p][d] \in DeploymentRow
    BY GraphIsTyped, TablesTyped
  <2> DEFINE row == [deployments[p][d] EXCEPT !.lifecycle = l]
  <2>2. row \in DeploymentRow
    BY <2>1 DEF DeploymentRow
  <2>3. deployments' = [deployments EXCEPT ![p] = [deployments[p] EXCEPT ![d] = row]]
    BY <1>2
  <2> HIDE DEF row
  <2> QED BY <2>2, <2>3, DeploymentRewritten
<1> QED BY <1>1, <1>2

LEMMA ObserveHealthyKeeps ==
  ASSUME AdmissionInv, NEW p \in Project, NEW e, NEW d \in DOMAIN deployments[p], NEW h,
         ObserveHealthy(p, e, d, h)
  PROVE  AdmissionInv'
<1>1. deployments' \in [Project -> Seq(DeploymentRow)] /\ Grows
  BY LifecycleMoved DEF ObserveHealthy, Lifecycle
<1>2. GraphTyped' /\ \A q \in Project : Shown(q) => Shown(q)'
  BY <1>1, GraphIsTyped DEF ObserveHealthy, GraphTyped, Shown
<1> QED
  BY <1>1, <1>2, GraphStep, GraphIsTyped DEF ObserveHealthy, outside

LEMMA AuthorityLostKeeps ==
  ASSUME AdmissionInv, NEW p \in Project, AuthorityLost(p)
  PROVE  AdmissionInv'
<1>1. GraphTyped' /\ Grows /\ \A q \in Project : Shown(q) => Shown(q)'
  BY GraphIsTyped DEF AuthorityLost, graph, GraphTyped, Grows, Shown
<1> QED
  BY <1>1, GraphStep, GraphIsTyped DEF AuthorityLost

-----------------------------------------------------------------------------
(* Steps that keep, release or fill a slot. *)

LEMMA SlotsFollow ==
  ASSUME AdmissionInv, SameReservations, NoneRevived, UNCHANGED database,
         \A p \in Project : \A e \in DOMAIN reservations[p] : Unreleased(p, e)' => Shown(p)'
  PROVE  \A p \in Project : SlotInv(p)'
<1>1. ASSUME NEW p \in Project PROVE SlotInv(p)'
  <2>1. SlotInv(p) /\ DOMAIN reservations'[p] = DOMAIN reservations[p]
    BY DEF AdmissionInv, SameReservations
  <2>2. \A e \in DOMAIN reservations[p] : Unreleased(p, e)' => Unreleased(p, e) /\ Shown(p)'
    BY DEF NoneRevived
  <2> QED
    BY <2>1, <2>2 DEF SlotInv, Shown
<1> QED BY <1>1

\* Row e of project p is rewritten.
ReservationIs(p, e, row) ==
  /\ reservations' \in [Project -> Seq(ReservationRow)]
  /\ \A q \in Project : /\ DOMAIN reservations'[q] = DOMAIN reservations[q]
                        /\ q # p => reservations'[q] = reservations[q]
  /\ \A f \in DOMAIN reservations[p] : reservations'[p][f] = IF f = e THEN row ELSE reservations[p][f]

LEMMA ReservationRewritten ==
  ASSUME TypeOK, NEW p \in Project, NEW e \in DOMAIN reservations[p], NEW row \in ReservationRow,
         reservations' = [reservations EXCEPT ![p] = [reservations[p] EXCEPT ![e] = row]]
  PROVE  ReservationIs(p, e, row)
<1>1. reservations \in [Project -> Seq(ReservationRow)]
  BY DEF TypeOK
<1> QED BY <1>1, RowRewritten DEF ReservationIs

\* The state of a reservation that is not released moves.
LEMMA ReservationMoved ==
  ASSUME AdmissionInv, NEW p \in Project, NEW e \in DOMAIN reservations[p], Unreleased(p, e),
         NEW st \in {"reserved", "resources_retained", "released"},
         reservations' = [reservations EXCEPT ![p][e].state = st]
  PROVE  /\ reservations' \in [Project -> Seq(ReservationRow)]
         /\ SameReservations /\ NoneRevived
         /\ Unreleased(p, e)' <=> st # "released"
         /\ \A q \in Project : \A f \in DOMAIN reservations[q] :
              (q # p \/ f # e) => (Unreleased(q, f)' <=> Unreleased(q, f))
<1>1. reservations \in [Project -> Seq(ReservationRow)] /\ reservations[p][e] \in ReservationRow
  BY GraphIsTyped, TablesTyped DEF LedgerTyped
<1> DEFINE row == [reservations[p][e] EXCEPT !.state = st]
<1>2. /\ row \in ReservationRow /\ row.state = st /\ row.hold = reservations[p][e].hold
      /\ row.first = reservations[p][e].first
  BY <1>1 DEF ReservationRow
<1>3. reservations' = [reservations EXCEPT ![p] = [reservations[p] EXCEPT ![e] = row]]
  OBVIOUS
<1> HIDE DEF row
<1>4. /\ reservations' \in [Project -> Seq(ReservationRow)]
      /\ \A q \in Project : /\ DOMAIN reservations'[q] = DOMAIN reservations[q]
                            /\ q # p => reservations'[q] = reservations[q]
      /\ \A f \in DOMAIN reservations[p] :
           reservations'[p][f] = IF f = e THEN row ELSE reservations[p][f]
  <2>1. row \in ReservationRow /\ TypeOK
    BY <1>2, GraphIsTyped
  <2>2. ReservationIs(p, e, row)
    BY <1>3, <2>1, ReservationRewritten
  <2> QED BY <2>2 DEF ReservationIs
<1>5. SameReservations
  BY <1>2, <1>4 DEF SameReservations
<1>6. Unreleased(p, e)' <=> st # "released"
  BY <1>2, <1>4 DEF Unreleased
<1>7. ASSUME NEW q \in Project, NEW f \in DOMAIN reservations[q], q # p \/ f # e
      PROVE  Unreleased(q, f)' <=> Unreleased(q, f)
  BY <1>4, <1>7 DEF Unreleased
<1>8. NoneRevived
  BY <1>7 DEF NoneRevived
<1> QED BY <1>4, <1>5, <1>6, <1>7, <1>8

\* A step that moves reservations and projects, not the holds.
LEMMA SlotStep ==
  ASSUME AdmissionInv, SameReservations, NoneRevived,
         reservations' \in [Project -> Seq(ReservationRow)],
         projects' \in [Project -> ProjectRow],
         deployments' \in [Project -> Seq(DeploymentRow)], Grows,
         \A p \in Project : \A e \in DOMAIN reservations[p] : Unreleased(p, e)' => Shown(p)',
         UNCHANGED <<intents, holds, refunds, limits, outside>>
  PROVE  AdmissionInv'
<1>1. TypeOK'
  <2>1. GraphTyped' /\ LedgerTyped' /\ RestTyped'
    BY GraphIsTyped DEF GraphTyped, LedgerTyped, RestTyped, limits, outside
  <2> QED BY <2>1, TypeParts, PTL
<1>2. \A p \in Project : SlotInv(p)'
  BY SlotsFollow DEF outside
<1>3. LedgerInv'
  BY HoldsUnmoved, KeepsLedger
<1>4. Countable' /\ LimitsHeld'
  BY ShrinksUnmoved, KeepsLimits
<1> QED BY <1>1, <1>2, <1>3, <1>4 DEF AdmissionInv

LEMMA SlotShown ==
  ASSUME AdmissionInv
  PROVE  \A p \in Project : \A e \in DOMAIN reservations[p] : Unreleased(p, e) => Shown(p)
BY DEF AdmissionInv, SlotInv, Shown

LEMMA RetainedShown ==
  ASSUME AdmissionInv, NEW p \in Project,
         projects' = [projects EXCEPT ![p].slots = 1, ![p].slot_state = "resources_retained"]
  PROVE  projects' \in [Project -> ProjectRow] /\ \A q \in Project : Shown(q) \/ q = p => Shown(q)'
<1>1. projects[p] \in ProjectRow
  BY GraphIsTyped, TablesTyped
<1> DEFINE row == [projects[p] EXCEPT !.slots = 1, !.slot_state = "resources_retained"]
<1>2. row \in ProjectRow /\ row.slots = 1 /\ row.slot_state = "resources_retained"
  BY <1>1 DEF ProjectRow, SlotState
<1>3. projects' = [projects EXCEPT ![p] = row]
  BY <1>1, GraphIsTyped DEF GraphTyped
<1> HIDE DEF row
<1> QED
  BY <1>2, <1>3, ProjectRewritten DEF Shown

LEMMA ObserveRetainedKeeps ==
  ASSUME AdmissionInv, NEW p \in Project, NEW e \in DOMAIN reservations[p], NEW d, NEW h,
         ObserveRetained(p, e, d, h)
  PROVE  AdmissionInv'
<1>1. /\ reservations' \in [Project -> Seq(ReservationRow)] /\ SameReservations /\ NoneRevived
  BY ReservationMoved DEF ObserveRetained
<1>2. projects' \in [Project -> ProjectRow] /\ \A q \in Project : Shown(q) \/ q = p => Shown(q)'
  BY RetainedShown DEF ObserveRetained
<1>3. \A q \in Project : \A f \in DOMAIN reservations[q] : Unreleased(q, f)' => Shown(q)'
  BY <1>1, <1>2, SlotShown DEF NoneRevived
<1>4. deployments' \in [Project -> Seq(DeploymentRow)] /\ Grows
  BY GraphIsTyped DEF ObserveRetained, GraphTyped, Grows
<1> QED
  BY <1>1, <1>2, <1>3, <1>4, SlotStep DEF ObserveRetained

LEMMA ObserveCleanupKeeps ==
  ASSUME AdmissionInv, NEW p \in Project, NEW e \in DOMAIN reservations[p],
         NEW d \in DOMAIN deployments[p], NEW h, ObserveCleanup(p, e, d, h)
  PROVE  AdmissionInv'
<1>0. Unreleased(p, e) /\ SlotInv(p)
  BY DEF ObserveCleanup, Cleanable, AdmissionInv
<1>1. /\ reservations' \in [Project -> Seq(ReservationRow)] /\ SameReservations /\ NoneRevived
      /\ ~Unreleased(p, e)'
      /\ \A q \in Project : \A f \in DOMAIN reservations[q] :
           (q # p \/ f # e) => (Unreleased(q, f)' <=> Unreleased(q, f))
  BY <1>0, ReservationMoved DEF ObserveCleanup
<1>2. projects' \in [Project -> ProjectRow] /\ \A q \in Project : q # p => projects'[q] = projects[q]
  <2>1. projects[p] \in ProjectRow
    BY GraphIsTyped, TablesTyped
  <2> DEFINE row == [projects[p] EXCEPT !.slots = 0, !.slot_state = "released"]
  <2>2. row \in ProjectRow
    BY <2>1 DEF ProjectRow, SlotState
  <2>3. projects' = [projects EXCEPT ![p] = row]
    BY <2>1, GraphIsTyped DEF GraphTyped, ObserveCleanup
  <2> HIDE DEF row
  <2> QED BY <2>2, <2>3, ProjectRewritten
<1>3. \A f \in DOMAIN reservations[p] : ~Unreleased(p, f)'
  BY <1>0, <1>1 DEF SlotInv
<1>4. ASSUME NEW q \in Project, NEW f \in DOMAIN reservations[q], Unreleased(q, f)' PROVE Shown(q)'
  <2>1. q # p /\ Unreleased(q, f)
    BY <1>1, <1>3, <1>4
  <2> QED BY <1>2, <2>1, SlotShown DEF Shown
<1>5. deployments' \in [Project -> Seq(DeploymentRow)] /\ Grows
  BY LifecycleMoved DEF ObserveCleanup, Lifecycle
<1> QED
  BY <1>1, <1>2, <1>4, <1>5, SlotStep DEF ObserveCleanup

LEMMA ProvisionRetainsKeeps ==
  ASSUME AdmissionInv, NEW p \in Project, ProvisionRetains(p)
  PROVE  AdmissionInv'
<1>0. PICK e \in DOMAIN reservations[p] : e = database[p]
  BY DEF AdmissionInv, SlotInv, ProvisionRetains
<1>1. /\ reservations' \in [Project -> Seq(ReservationRow)] /\ SameReservations /\ NoneRevived
  <2>1. CASE Unreleased(p, e)
    BY <1>0, <2>1, ReservationMoved DEF ProvisionRetains
  <2>2. CASE ~Unreleased(p, e)
    BY <1>0, <2>2, Unmoved, GraphIsTyped DEF ProvisionRetains, LedgerTyped
  <2> QED BY <2>1, <2>2
<1>2. projects' \in [Project -> ProjectRow] /\ \A q \in Project : Shown(q) \/ q = p => Shown(q)'
  BY RetainedShown DEF ProvisionRetains
<1>3. \A q \in Project : \A f \in DOMAIN reservations[q] : Unreleased(q, f)' => Shown(q)'
  BY <1>1, <1>2, SlotShown DEF NoneRevived
<1>4. deployments' \in [Project -> Seq(DeploymentRow)] /\ Grows
  BY GraphIsTyped DEF ProvisionRetains, GraphTyped, Grows
<1> QED
  BY <1>1, <1>2, <1>3, <1>4, SlotStep DEF ProvisionRetains

LEMMA CreateDatabaseKeeps ==
  ASSUME AdmissionInv, NEW p \in Project, CreateDatabase(p)
  PROVE  AdmissionInv'
<1>0. PICK e \in DOMAIN reservations[p] : e = Current(p) /\ e \in Nat
  BY CurrentIs, GraphIsTyped DEF CreateDatabase
<1>1. /\ database' = [database EXCEPT ![p] = e] /\ database \in [Project -> Nat]
      /\ UNCHANGED <<graph, ledger, limits, authorized>>
  BY <1>0, GraphIsTyped DEF CreateDatabase, RestTyped
<1>2. TypeOK'
  <2>1. GraphTyped' /\ LedgerTyped' /\ RestTyped'
    BY <1>0, <1>1, GraphIsTyped DEF GraphTyped, LedgerTyped, RestTyped, graph, ledger, limits
  <2> QED BY <2>1, TypeParts, PTL
<1>3. ASSUME NEW q \in Project PROVE SlotInv(q)'
  <2>1. SlotInv(q) /\ (database'[q] = IF q = p THEN e ELSE database[q])
    BY <1>1 DEF AdmissionInv
  <2> QED
    BY <1>0, <1>1, <2>1 DEF SlotInv, Unreleased, ledger, graph
<1>4. LedgerInv'
  <2>1. Grows
    BY <1>1 DEF Grows, graph
  <2> QED BY <1>1, <2>1, Unmoved, HoldsUnmoved, KeepsLedger DEF ledger
<1>5. Countable' /\ LimitsHeld'
  BY <1>1, Unmoved, ShrinksUnmoved, KeepsLimits DEF ledger
<1> QED BY <1>2, <1>3, <1>4, <1>5 DEF AdmissionInv

-----------------------------------------------------------------------------
(* Steps that move holds, and take no capacity. *)

\* Table new has the rows of table old, but for their states and times.
SameTable(old, new) ==
  /\ new \in Seq(HoldRow) /\ DOMAIN new = DOMAIN old /\ Len(new) = Len(old)
  /\ \A h \in DOMAIN old : /\ new[h].project = old[h].project
                           /\ new[h].deployment = old[h].deployment /\ new[h].kind = old[h].kind

\* Row h is rewritten.
RowIs(old, new, h, row) ==
  /\ new \in Seq(HoldRow) /\ Len(new) = Len(old) /\ DOMAIN new = DOMAIN old
  /\ \A g \in DOMAIN old : new[g] = IF g = h THEN row ELSE old[g]

LEMMA HoldRewritten ==
  ASSUME NEW old \in Seq(HoldRow), NEW h \in DOMAIN old, NEW row \in HoldRow,
         NEW new, new = [old EXCEPT ![h] = row]
  PROVE  RowIs(old, new, h, row)
<1>1. h \in 1..Len(old) /\ DOMAIN old = 1..Len(old)
  OBVIOUS
<1> QED
  BY <1>1, ExceptSeq DEF RowIs

\* State st of hold h is written.
StateIs(old, new, h, st) ==
  /\ SameTable(old, new)
  /\ \A g \in DOMAIN old : new[g].state = IF g = h THEN st ELSE old[g].state

LEMMA StateRewritten ==
  ASSUME NEW old \in Seq(HoldRow), NEW new, NEW h \in DOMAIN old,
         NEW st \in {"active", "consumed", "expired", "released"},
         new = [old EXCEPT ![h].state = st]
  PROVE  StateIs(old, new, h, st)
<1>1. h \in 1..Len(old) /\ old[h] \in HoldRow /\ DOMAIN old = 1..Len(old)
  OBVIOUS
<1> DEFINE row == [old[h] EXCEPT !.state = st]
<1>2. /\ row \in HoldRow /\ row.state = st /\ row.project = old[h].project
      /\ row.deployment = old[h].deployment /\ row.kind = old[h].kind
  BY <1>1 DEF HoldRow
<1>3. new = [old EXCEPT ![h] = row]
  OBVIOUS
<1> HIDE DEF row
<1>4. RowIs(old, new, h, row)
  BY <1>2, <1>3, HoldRewritten
<1> QED
  BY <1>2, <1>4 DEF SameTable, RowIs, StateIs

LEMMA LapseRewritten ==
  ASSUME NEW old \in Seq(HoldRow), NEW new, NEW h \in DOMAIN old, new = [old EXCEPT ![h].lapsed = TRUE]
  PROVE  StateIs(old, new, h, old[h].state)
<1>1. h \in 1..Len(old) /\ old[h] \in HoldRow /\ DOMAIN old = 1..Len(old)
  OBVIOUS
<1> DEFINE row == [old[h] EXCEPT !.lapsed = TRUE]
<1>2. /\ row \in HoldRow /\ row.state = old[h].state /\ row.project = old[h].project
      /\ row.deployment = old[h].deployment /\ row.kind = old[h].kind
  BY <1>1 DEF HoldRow
<1>3. new = [old EXCEPT ![h] = row]
  OBVIOUS
<1> HIDE DEF row
<1>4. RowIs(old, new, h, row)
  BY <1>2, <1>3, HoldRewritten
<1> QED
  BY <1>2, <1>4 DEF SameTable, RowIs, StateIs

\* The sweep, and the sweep with the consumption of a hold that is good.
LEMMA SweptTable ==
  ASSUME TypeOK
  PROVE  /\ SameTable(holds, Swept)
         /\ \A h \in DOMAIN holds :
              Swept[h].state = IF Overdue(h) THEN "expired" ELSE holds[h].state
BY SweptIs DEF SameTable

LEMMA ConsumedTable ==
  ASSUME TypeOK, NEW h \in DOMAIN holds, Usable(h)
  PROVE  /\ SameTable(holds, Consume(h))
         /\ \A g \in DOMAIN holds :
              Consume(h)[g].state = IF g = h THEN "consumed"
                                    ELSE IF Overdue(g) THEN "expired" ELSE holds[g].state
<1>1. Swept \in Seq(HoldRow) /\ h \in DOMAIN Swept /\ DOMAIN Swept = DOMAIN holds
  BY SweptIs
<1>2. StateIs(Swept, Consume(h), h, "consumed")
  BY <1>1, StateRewritten DEF Consume
<1> QED
  BY <1>1, <1>2, SweptTable DEF SameTable, StateIs

LEMMA HoldStep ==
  ASSUME AdmissionInv, SameTable(holds, holds'), refunds' \subseteq DOMAIN holds,
         \A h \in DOMAIN holds : SameHold(h), Shrinks,
         deployments' \in [Project -> Seq(DeploymentRow)], Grows,
         UNCHANGED <<projects, intents, reservations, limits, outside>>
  PROVE  AdmissionInv'
<1>1. TypeOK'
  <2>1. GraphTyped' /\ LedgerTyped' /\ RestTyped'
    BY GraphIsTyped DEF GraphTyped, LedgerTyped, RestTyped, SameTable, limits, outside
  <2> QED BY <2>1, TypeParts, PTL
<1>2. \A p \in Project : SlotInv(p)'
  <2>1. \A p \in Project : Shown(p) => Shown(p)'
    BY DEF Shown
  <2> QED BY <2>1, KeepsSlots DEF outside
<1>3. LedgerInv'
  BY Unmoved, KeepsLedger DEF SameTable
<1>4. Countable' /\ LimitsHeld'
  BY Unmoved, KeepsLimits
<1> QED BY <1>1, <1>2, <1>3, <1>4 DEF AdmissionInv

LEMMA HeldShrinks ==
  ASSUME SameTable(holds, holds'),
         \A h \in DOMAIN holds :
           /\ holds'[h].state = "active" => holds[h].state = "active"
           /\ holds[h].kind = "rollout" /\ holds'[h].state = "consumed"
                => holds[h].state \in {"active", "consumed"}
  PROVE  Shrinks
<1>1. \A a \in Account : /\ ActiveInitial(holds', a) \subseteq ActiveInitial(holds, a)
                         /\ Rollouts(holds', a) \subseteq Rollouts(holds, a)
  BY DEF ActiveInitial, Rollouts, Held, SameTable
<1> QED BY <1>1, ShrinksWhen

LEMMA SweepStep ==
  ASSUME AdmissionInv, holds' = Swept, refunds' = Refunded,
         UNCHANGED <<graph, reservations, limits, outside>>
  PROVE  AdmissionInv'
<1>1. /\ SameTable(holds, holds')
      /\ \A h \in DOMAIN holds :
              holds'[h].state = IF Overdue(h) THEN "expired" ELSE holds[h].state
  BY GraphIsTyped, SweptTable
<1>2. refunds' \subseteq DOMAIN holds /\ \A h \in DOMAIN holds : SameHold(h)
  BY <1>1, SweepKeepsHolds, GraphIsTyped DEF SameTable
<1>3. Shrinks
  BY <1>1, HeldShrinks
<1>4. deployments' \in [Project -> Seq(DeploymentRow)] /\ Grows
  BY GraphIsTyped DEF GraphTyped, Grows, graph
<1> QED
  BY <1>1, <1>2, <1>3, <1>4, HoldStep DEF graph

LEMMA AdmitLostKeeps ==
  ASSUME AdmissionInv, NEW h, AdmitLost(h)
  PROVE  AdmissionInv'
BY SweepStep DEF AdmitLost

LEMMA ReconcileKeeps ==
  ASSUME AdmissionInv, Reconcile
  PROVE  AdmissionInv'
BY SweepStep DEF Reconcile

LEMMA HoldLapsesKeeps ==
  ASSUME AdmissionInv, NEW h \in DOMAIN holds, HoldLapses(h)
  PROVE  AdmissionInv'
<1>0. holds \in Seq(HoldRow) /\ refunds \subseteq DOMAIN holds
  BY GraphIsTyped DEF LedgerTyped
<1>1. SameTable(holds, holds') /\ \A g \in DOMAIN holds : holds'[g].state = holds[g].state
  <2>1. StateIs(holds, holds', h, holds[h].state)
    BY <1>0, LapseRewritten DEF HoldLapses
  <2> QED BY <2>1 DEF StateIs
<1>2. UNCHANGED refunds /\ \A g \in DOMAIN holds : HoldInv(g)
  BY DEF HoldLapses, AdmissionInv, LedgerInv
<1>3. \A g \in DOMAIN holds : SameHold(g)
  BY <1>1, <1>2 DEF SameHold, SameTable, HoldInv
<1>4. Shrinks
  BY <1>1, HeldShrinks
<1>5. deployments' \in [Project -> Seq(DeploymentRow)] /\ Grows
  BY GraphIsTyped DEF GraphTyped, Grows, graph, HoldLapses
<1> QED
  BY <1>0, <1>1, <1>2, <1>3, <1>4, <1>5, HoldStep DEF graph, HoldLapses

LEMMA ObserveRolloutReleasedKeeps ==
  ASSUME AdmissionInv, NEW p, NEW e, NEW d, NEW h \in DOMAIN holds \cup {Nothing},
         ObserveRolloutReleased(p, e, d, h)
  PROVE  AdmissionInv'
<1>0. /\ holds \in Seq(HoldRow) /\ refunds \subseteq DOMAIN holds
      /\ h \in DOMAIN holds /\ holds[h].kind = "rollout" /\ holds[h].state = "consumed"
  BY GraphIsTyped DEF LedgerTyped, ObserveRolloutReleased, Linked
<1>1. /\ SameTable(holds, holds')
      /\ \A g \in DOMAIN holds : holds'[g].state = IF g = h THEN "released" ELSE holds[g].state
  <2>1. StateIs(holds, holds', h, "released")
    BY <1>0, StateRewritten DEF ObserveRolloutReleased
  <2> QED BY <2>1 DEF StateIs
<1>2. UNCHANGED refunds /\ \A g \in DOMAIN holds : HoldInv(g)
  BY DEF ObserveRolloutReleased, AdmissionInv, LedgerInv
<1>3. \A g \in DOMAIN holds : SameHold(g)
  BY <1>0, <1>1, <1>2 DEF SameHold, SameTable, HoldInv
<1>4. Shrinks
  BY <1>0, <1>1, HeldShrinks
<1>5. deployments' \in [Project -> Seq(DeploymentRow)] /\ Grows
  BY GraphIsTyped DEF GraphTyped, Grows, graph, ObserveRolloutReleased
<1> QED
  BY <1>0, <1>1, <1>2, <1>3, <1>4, <1>5, HoldStep DEF graph, ObserveRolloutReleased

LEMMA AdmitRolloutKeeps ==
  ASSUME AdmissionInv, NEW h \in DOMAIN holds, AdmitRollout(h)
  PROVE  AdmissionInv'
<1>0. /\ TypeOK /\ Usable(h) /\ holds[h].kind = "rollout"
      /\ holds' = Consume(h) /\ refunds' = Refunded
  BY GraphIsTyped DEF AdmitRollout, MayAdmit
<1>1. /\ SameTable(holds, holds')
      /\ \A g \in DOMAIN holds :
           holds'[g].state = IF g = h THEN "consumed"
                             ELSE IF Overdue(g) THEN "expired" ELSE holds[g].state
  BY <1>0, ConsumedTable
<1>2. /\ refunds' \subseteq DOMAIN holds
      /\ \A g \in DOMAIN holds :
           g \in refunds' <=> g \in refunds \/ (Overdue(g) /\ holds[g].kind = "initial")
  BY <1>0, GraphIsTyped DEF Refunded, LedgerTyped
<1>3. ASSUME NEW g \in DOMAIN holds PROVE SameHold(g)
  <2>1. HoldInv(g)
    BY DEF AdmissionInv, LedgerInv
  <2> QED
    BY <1>0, <1>1, <1>2, <2>1 DEF SameHold, SameTable, HoldInv, Overdue, Usable
<1>4. Shrinks
  BY <1>0, <1>1, HeldShrinks DEF Usable, Overdue
<1>5. deployments' \in [Project -> Seq(DeploymentRow)] /\ Grows
  <2>1. PICK p \in Project : p = holds[h].project
    BY <1>0, TablesTyped, HoldTyped
  <2>2. PICK d \in DOMAIN deployments[p] : d = holds[h].deployment
    BY <2>1 DEF AdmissionInv, LedgerInv, HoldInv
  <2>3. deployments' = [deployments EXCEPT ![p][d].lifecycle = "queued"]
    BY <2>1, <2>2 DEF AdmitRollout
  <2> QED
    BY <2>3, LifecycleMoved DEF Lifecycle
<1> QED
  BY <1>1, <1>2, <1>3, <1>4, <1>5, HoldStep DEF AdmitRollout

-----------------------------------------------------------------------------
(* Taking capacity. *)

LEMMA SweptHeld ==
  ASSUME TypeOK
  PROVE  /\ \A a \in Account : /\ ActiveInitial(Swept, a) \subseteq ActiveInitial(holds, a)
                               /\ Rollouts(Swept, a) \subseteq Rollouts(holds, a)
         /\ AllInitial(Swept) \subseteq AllInitial(holds) /\ AllRollouts(Swept) \subseteq AllRollouts(holds)
<1>1. /\ SameTable(holds, Swept)
      /\ \A h \in DOMAIN holds : Swept[h].state = IF Overdue(h) THEN "expired" ELSE holds[h].state
  BY SweptTable
<1>2. \A a \in Account : /\ ActiveInitial(Swept, a) \subseteq ActiveInitial(holds, a)
                         /\ Rollouts(Swept, a) \subseteq Rollouts(holds, a)
  BY <1>1 DEF ActiveInitial, Rollouts, Held, SameTable
<1> QED
  BY <1>2 DEF AllInitial, AllRollouts

\* The new hold of a step that creates one.
NewHold(p, d, kind) ==
  [project |-> p, deployment |-> d, proof |-> deployments[p][d].proof, kind |-> kind,
   epoch |-> Current(p), lapsed |-> FALSE, state |-> "active"]

LEMMA NewHoldTyped ==
  ASSUME AdmissionInv, NEW p \in Project, NEW d \in DOMAIN deployments[p],
         NEW kind \in {"initial", "rollout"}, ProofValid(p, d, deployments[p][d].proof)
  PROVE  NewHold(p, d, kind) \in HoldRow
<1>1. d \in Nat \ {0} /\ Current(p) \in Nat /\ deployments[p][d] \in DeploymentRow
  BY GraphIsTyped, TablesTyped, CurrentIs
<1>2. deployments[p][d].proof \in 1..MaxProofs
  BY <1>1, BoundsAssumption DEF DeploymentRow, ProofValid
<1> QED
  BY <1>1, <1>2 DEF NewHold, HoldRow

\* The table after the sweep and the new hold.
Appended(new, hold) ==
  /\ new \in Seq(HoldRow) /\ Len(new) = Len(holds) + 1 /\ DOMAIN new = 1..(Len(holds) + 1)
  /\ \A h \in DOMAIN holds : new[h] = Swept[h]
  /\ new[Len(holds) + 1] = hold

LEMMA AppendedTable ==
  ASSUME TypeOK, NEW hold \in HoldRow, NEW new, new = Append(Swept, hold)
  PROVE  Appended(new, hold)
<1>1. Swept \in Seq(HoldRow) /\ Len(Swept) = Len(holds) /\ DOMAIN holds = 1..Len(holds)
  BY SweptIs, TablesTyped
<1> QED
  BY <1>1, AppendProperties DEF Appended

LEMMA NewHoldCounts ==
  ASSUME AdmissionInv, NEW p \in Project, NEW hold \in HoldRow, holds' = Append(Swept, hold),
         hold.project = p, hold.state = "active"
  PROVE  LET n == Len(holds) + 1
         IN  /\ \A a \in Account :
                  /\ ActiveInitial(holds', a) =
                       IF hold.kind = "initial" /\ a = AccountOf[p]
                       THEN ActiveInitial(Swept, a) \cup {n} ELSE ActiveInitial(Swept, a)
                  /\ Rollouts(holds', a) =
                       IF hold.kind = "rollout" /\ a = AccountOf[p]
                       THEN Rollouts(Swept, a) \cup {n} ELSE Rollouts(Swept, a)
             /\ AllInitial(holds') =
                  IF hold.kind = "initial" THEN AllInitial(Swept) \cup {n} ELSE AllInitial(Swept)
             /\ AllRollouts(holds') =
                  IF hold.kind = "rollout" THEN AllRollouts(Swept) \cup {n} ELSE AllRollouts(Swept)
             /\ n \notin DOMAIN Swept
<1> DEFINE n == Len(holds) + 1
<1>1. /\ TypeOK /\ DOMAIN holds' = DOMAIN holds \cup {n} /\ n \notin DOMAIN holds
      /\ \A h \in DOMAIN holds : holds'[h] = Swept[h]
      /\ holds'[n] = hold /\ DOMAIN Swept = DOMAIN holds
  <2>1. TypeOK
    BY GraphIsTyped
  <2>2. /\ DOMAIN holds' = 1..(Len(holds) + 1)
        /\ \A h \in DOMAIN holds : holds'[h] = Swept[h]
        /\ holds'[n] = hold
    <3>1. Appended(holds', hold)
      BY <2>1, AppendedTable
    <3> QED BY <3>1 DEF Appended
  <2> QED
    BY <2>1, <2>2, TablesTyped, SweptIs
<1>2. AccountOf[p] \in Account /\ hold.kind \in {"initial", "rollout"}
  BY AccountAssumption, HoldTyped
<1> HIDE DEF n
<1>3. ASSUME NEW a \in Account
      PROVE  ActiveInitial(holds', a) =
               IF hold.kind = "initial" /\ a = AccountOf[p]
               THEN ActiveInitial(Swept, a) \cup {n} ELSE ActiveInitial(Swept, a)
  BY <1>1, <1>2 DEF ActiveInitial, Held
<1>4. ASSUME NEW a \in Account
      PROVE  Rollouts(holds', a) =
               IF hold.kind = "rollout" /\ a = AccountOf[p]
               THEN Rollouts(Swept, a) \cup {n} ELSE Rollouts(Swept, a)
  BY <1>1, <1>2 DEF Rollouts, Held
<1>5. AllInitial(holds') =
        IF hold.kind = "initial" THEN AllInitial(Swept) \cup {n} ELSE AllInitial(Swept)
  BY <1>2, <1>3 DEF AllInitial
<1>6. AllRollouts(holds') =
        IF hold.kind = "rollout" THEN AllRollouts(Swept) \cup {n} ELSE AllRollouts(Swept)
  BY <1>2, <1>4 DEF AllRollouts
<1> QED
  BY <1>1, <1>3, <1>4, <1>5, <1>6 DEF n

LEMMA OneMore ==
  ASSUME NEW S, NEW x, IsFiniteSet(S), NEW m \in Nat, NEW k \in Nat, k + Cardinality(S) < m
  PROVE  k + Cardinality(S \cup {x}) <= m
<1>1. /\ Cardinality(S) \in Nat
      /\ Cardinality(S \cup {x}) = IF x \in S THEN Cardinality(S) ELSE Cardinality(S)+1
  BY FS_AddElement, FS_CardinalityType
<1> QED BY <1>1

LEMMA NoMore ==
  ASSUME NEW S, NEW T, IsFiniteSet(S), T \subseteq S, NEW m \in Nat, NEW k \in Nat,
         k + Cardinality(S) <= m
  PROVE  k + Cardinality(T) <= m
<1>1. /\ Cardinality(S) \in Nat /\ Cardinality(T) \in Nat /\ Cardinality(T) <= Cardinality(S)
  BY SmallerCounts
<1> QED BY <1>1

LEMMA CountsTyped ==
  ASSUME AdmissionInv
  PROVE  /\ \A a \in Account : Cardinality(Live(a)) \in Nat
         /\ Cardinality(AllLive) \in Nat
         /\ holds \in Seq(HoldRow) /\ Swept \in Seq(HoldRow)
BY LiveFinite, FS_CardinalityType, GraphIsTyped, SweptIs DEF AdmissionInv, Countable, LedgerTyped

LEMMA NewHoldWithin ==
  ASSUME AdmissionInv, NEW p \in Project, NEW hold \in HoldRow, holds' = Append(Swept, hold),
         hold.project = p, hold.state = "active", CapacityAvailable(p, hold.kind),
         UNCHANGED <<reservations, limits>>
  PROVE  Countable' /\ LimitsHeld'
<1> DEFINE n == Len(holds) + 1
           a0 == AccountOf[p]
<1>1. /\ \A a \in Account :
           /\ ActiveInitial(holds', a) =
                IF hold.kind = "initial" /\ a = a0
                THEN ActiveInitial(Swept, a) \cup {n} ELSE ActiveInitial(Swept, a)
      /\ AllInitial(holds') =
           IF hold.kind = "initial" THEN AllInitial(Swept) \cup {n} ELSE AllInitial(Swept)
      /\ AllRollouts(holds') =
           IF hold.kind = "rollout" THEN AllRollouts(Swept) \cup {n} ELSE AllRollouts(Swept)
  BY NewHoldCounts
<1>2. Within /\ Countable /\ TypeOK
  BY LimitsHeldIs DEF AdmissionInv
<1>3. (\A a \in Account : Live(a)' = Live(a)) /\ AllLive' = AllLive
  BY DEF Live, AllLive
<1>4. Countable'
  BY <1>2, <1>3 DEF Countable
<1>5. /\ hold.kind \in {"initial", "rollout"} /\ a0 \in Account
      /\ hold.kind = "initial" =>
           /\ Cardinality(Live(a0)) + Cardinality(ActiveInitial(Swept, a0)) < entitlements[a0].limit
           /\ Cardinality(AllLive) + Cardinality(AllInitial(Swept)) < pool.slots
      /\ hold.kind = "rollout" => Cardinality(AllRollouts(Swept)) < pool.headroom
  BY HoldTyped, AccountAssumption, UseIs DEF CapacityAvailable
<1> HIDE DEF n, a0
<1>6. ASSUME NEW a \in Account
      PROVE  Cardinality(Live(a)) + Cardinality(ActiveInitial(holds', a)) <= entitlements[a].limit
  <2>0. /\ Cardinality(Live(a)) \in Nat /\ entitlements[a].limit \in Nat
        /\ IsFiniteSet(ActiveInitial(Swept, a)) /\ IsFiniteSet(ActiveInitial(holds, a))
        /\ ActiveInitial(Swept, a) \subseteq ActiveInitial(holds, a)
    BY <1>2, CountsTyped, LimitsTyped, HeldFinite, SweptHeld
  <2>1. CASE hold.kind = "initial" /\ a = a0
    BY <1>1, <1>5, <2>0, <2>1, OneMore
  <2>2. CASE ~(hold.kind = "initial" /\ a = a0)
    <3>1. ActiveInitial(holds', a) = ActiveInitial(Swept, a)
      BY <1>1, <2>2
    <3>2. Cardinality(Live(a)) + Cardinality(ActiveInitial(holds, a)) <= entitlements[a].limit
      BY <1>2 DEF Within
    <3> QED BY <2>0, <3>1, <3>2, NoMore
  <2> QED BY <2>1, <2>2
<1>7. Cardinality(AllLive) + Cardinality(AllInitial(holds')) <= pool.slots
  <2>0. /\ Cardinality(AllLive) \in Nat /\ pool.slots \in Nat
        /\ IsFiniteSet(AllInitial(Swept)) /\ IsFiniteSet(AllInitial(holds))
        /\ AllInitial(Swept) \subseteq AllInitial(holds)
        /\ Cardinality(AllLive) + Cardinality(AllInitial(holds)) <= pool.slots
    BY <1>2, CountsTyped, LimitsTyped, HeldFinite, SweptHeld DEF Within
  <2>1. CASE hold.kind = "initial"
    BY <1>1, <1>5, <2>0, <2>1, OneMore
  <2>2. CASE hold.kind = "rollout"
    BY <1>1, <2>0, <2>2, NoMore
  <2> QED BY <1>5, <2>1, <2>2
<1>8. Cardinality(AllRollouts(holds')) <= pool.headroom
  <2>0. /\ pool.headroom \in Nat
        /\ IsFiniteSet(AllRollouts(Swept)) /\ IsFiniteSet(AllRollouts(holds))
        /\ AllRollouts(Swept) \subseteq AllRollouts(holds)
        /\ Cardinality(AllRollouts(holds)) <= pool.headroom
    BY <1>2, CountsTyped, LimitsTyped, HeldFinite, SweptHeld DEF Within
  <2>1. CASE hold.kind = "rollout"
    <3>1. /\ Cardinality(AllRollouts(Swept)) \in Nat
          /\ Cardinality(AllRollouts(Swept) \cup {n}) =
               IF n \in AllRollouts(Swept) THEN Cardinality(AllRollouts(Swept))
                                           ELSE Cardinality(AllRollouts(Swept)) + 1
      BY <2>0, FS_AddElement, FS_CardinalityType
    <3> QED BY <1>1, <1>5, <2>0, <2>1, <3>1
  <2>2. CASE hold.kind = "initial"
    <3>1. /\ Cardinality(AllRollouts(Swept)) \in Nat /\ Cardinality(AllRollouts(holds)) \in Nat
          /\ Cardinality(AllRollouts(Swept)) <= Cardinality(AllRollouts(holds))
      BY <2>0, SmallerCounts
    <3> QED BY <1>1, <2>0, <2>2, <3>1
  <2> QED BY <1>5, <2>1, <2>2
<1>9. Within'
  BY <1>2, <1>3, <1>6, <1>7, <1>8 DEF Within, limits
<1> QED
  BY <1>4, <1>9, LimitsHeldIs, PTL

LEMMA NewHoldLedger ==
  ASSUME AdmissionInv, NEW p \in Project, NEW d \in DOMAIN deployments[p], NEW hold \in HoldRow,
         holds' = Append(Swept, hold), refunds' = Refunded, Len(holds) < MaxHolds,
         hold.project = p, hold.deployment = d, hold.state = "active",
         UNCHANGED <<deployments, reservations>>
  PROVE  LedgerInv' /\ refunds' \subseteq DOMAIN holds' /\ holds' \in Seq(HoldRow)
<1>0. TypeOK /\ Len(holds) \in Nat /\ DOMAIN holds = 1..Len(holds) /\ MaxHolds \in Nat
  BY GraphIsTyped, TablesTyped, BoundsAssumption
<1>n. PICK n \in Nat : n = Len(holds) + 1
  BY <1>0
<1>1. /\ holds' \in Seq(HoldRow) /\ Len(holds') = n /\ DOMAIN holds' = DOMAIN holds \cup {n}
      /\ n \notin DOMAIN holds /\ n <= MaxHolds
      /\ \A h \in DOMAIN holds : holds'[h] = Swept[h]
      /\ holds'[n] = hold
  <2>1. /\ holds' \in Seq(HoldRow) /\ Len(holds') = n /\ DOMAIN holds' = 1..n
        /\ \A h \in DOMAIN holds : holds'[h] = Swept[h]
        /\ holds'[n] = hold
    <3>1. Appended(holds', hold)
      BY <1>0, AppendedTable
    <3> QED BY <1>n, <3>1 DEF Appended
  <2> QED BY <1>0, <1>n, <2>1
<1>2. ASSUME NEW h \in DOMAIN holds PROVE HoldInv(h)'
  <2>1. HoldInv(h) /\ (h \in refunds' <=> h \in refunds \/ (Overdue(h) /\ holds[h].kind = "initial"))
    BY DEF AdmissionInv, LedgerInv, Refunded
  <2>2. SameHold(h)
    BY <1>0, <1>1, <2>1, SweptIs DEF HoldInv, SameHold, Overdue
  <2>3. SameReservations /\ Grows
    BY Unmoved DEF Grows
  <2> QED BY <2>2, <2>3, HoldKept
<1>3. \A q \in Project : \A e \in DOMAIN reservations[q] : reservations[q][e].hold \in DOMAIN holds
  BY DEF AdmissionInv, LedgerInv
<1>4. n \notin refunds' /\ refunds' \subseteq DOMAIN holds'
  BY <1>0, <1>1 DEF Refunded, TypeOK
<1>5. HoldInv(n)'
  <2>1. \A q \in Project : \A e \in DOMAIN reservations'[q] : ~Made(n, q, e)'
    BY <1>1, <1>3 DEF Made
  <2> QED
    BY <1>1, <1>4, <2>1 DEF HoldInv
<1> QED
  BY <1>1, <1>2, <1>3, <1>4, <1>5 DEF LedgerInv

LEMMA CreateHoldKeeps ==
  ASSUME AdmissionInv, NEW p \in Project, NEW d \in DOMAIN deployments[p], CreateHold(p, d)
  PROVE  AdmissionInv'
<1>1. PICK kind \in {"initial", "rollout"} : kind = IF Current(p) = Nothing THEN "initial" ELSE "rollout"
  OBVIOUS
<1> DEFINE hold == NewHold(p, d, kind)
<1>2. /\ hold \in HoldRow /\ hold.project = p /\ hold.deployment = d /\ hold.kind = kind
      /\ hold.state = "active"
  <2>1. hold \in HoldRow
    BY NewHoldTyped DEF CreateHold
  <2> QED BY <2>1 DEF NewHold
<1>3. /\ holds' = Append(Swept, hold) /\ refunds' = Refunded /\ Len(holds) < MaxHolds
      /\ CapacityAvailable(p, kind) /\ UNCHANGED <<graph, reservations, limits, outside>>
  BY <1>1 DEF CreateHold, NewHold
<1> HIDE DEF hold
<1>4. Countable' /\ LimitsHeld'
  BY <1>2, <1>3, NewHoldWithin
<1>5. LedgerInv' /\ refunds' \subseteq DOMAIN holds' /\ holds' \in Seq(HoldRow)
  BY <1>2, <1>3, NewHoldLedger DEF graph
<1>6. TypeOK'
  <2>1. GraphTyped' /\ LedgerTyped' /\ RestTyped'
    BY <1>3, <1>5, GraphIsTyped DEF GraphTyped, LedgerTyped, RestTyped, graph, limits, outside
  <2> QED BY <2>1, TypeParts, PTL
<1>7. \A q \in Project : SlotInv(q)'
  <2>1. \A q \in Project : Shown(q) => Shown(q)'
    BY <1>3 DEF Shown, graph
  <2> QED BY <1>3, <2>1, KeepsSlots DEF outside
<1> QED BY <1>4, <1>5, <1>6, <1>7 DEF AdmissionInv

\* Reservation n of project p is made from hold h for deployment d.
ReservationMade(p, n, h, d) ==
  /\ reservations' \in [Project -> Seq(ReservationRow)]
  /\ n \notin DOMAIN reservations[p] /\ DOMAIN reservations'[p] = DOMAIN reservations[p] \cup {n}
  /\ \A e \in DOMAIN reservations[p] : reservations'[p][e] = reservations[p][e]
  /\ reservations'[p][n].hold = h /\ reservations'[p][n].first = d
  /\ reservations'[p][n].state = "reserved"
  /\ \A q \in Project : q # p => reservations'[q] = reservations[q]

LEMMA ReservationAdded ==
  ASSUME TypeOK, NEW p \in Project, NEW h \in 1..MaxHolds, NEW d \in Nat \ {0},
         reservations' = [reservations EXCEPT ![p] =
           Append(@, [first |-> d, hold |-> h, state |-> "reserved"])]
  PROVE  \E n \in Nat : ReservationMade(p, n, h, d)
<1> DEFINE row == [first |-> d, hold |-> h, state |-> "reserved"]
<1>1. row \in ReservationRow /\ row.hold = h /\ row.first = d /\ row.state = "reserved"
  BY DEF ReservationRow
<1>2. reservations \in [Project -> Seq(ReservationRow)]
  BY DEF TypeOK
<1>3. reservations' = [reservations EXCEPT ![p] = Append(reservations[p], row)]
  OBVIOUS
<1> HIDE DEF row
<1>4. /\ reservations' \in [Project -> Seq(ReservationRow)]
      /\ \A q \in Project : q # p => reservations'[q] = reservations[q]
      /\ \A j \in DOMAIN reservations[p] : reservations'[p][j] = reservations[p][j]
      /\ DOMAIN reservations[p] = 1..Len(reservations[p]) /\ Len(reservations[p]) \in Nat
      /\ DOMAIN reservations'[p] = 1..(Len(reservations[p]) + 1)
      /\ reservations'[p][Len(reservations[p]) + 1] = row
  BY <1>1, <1>2, <1>3, RowAdded
<1>5. PICK n \in Nat : n = Len(reservations[p]) + 1
  BY <1>4
<1>6. DOMAIN reservations'[p] = DOMAIN reservations[p] \cup {n} /\ n \notin DOMAIN reservations[p]
  BY <1>4, <1>5
<1>7. ReservationMade(p, n, h, d)
  BY <1>1, <1>4, <1>5, <1>6 DEF ReservationMade
<1> QED BY <1>7

LEMMA MadeLive ==
  ASSUME NEW p \in Project, NEW n, NEW h, NEW d, ReservationMade(p, n, h, d)
  PROVE  /\ \A a : Live(a)' = IF a = AccountOf[p] THEN Live(a) \cup {<<p, n>>} ELSE Live(a)
         /\ AllLive' = AllLive \cup {<<p, n>>}
<1>1. ASSUME NEW a, NEW r
      PROVE  r \in Live(a)' <=> r \in Live(a) \/ (a = AccountOf[p] /\ r = <<p, n>>)
  <2>1. r \in Live(a)' <=>
           \E q \in Project : \E e \in DOMAIN reservations'[q] :
             r = <<q, e>> /\ AccountOf[q] = a /\ Unreleased(q, e)'
    BY DEF Live, Unreleased
  <2>2. \A q \in Project : \A e :
          (e \in DOMAIN reservations'[q] /\ Unreleased(q, e)')
            <=> ((e \in DOMAIN reservations[q] /\ Unreleased(q, e)) \/ (q = p /\ e = n))
    BY DEF ReservationMade, Unreleased
  <2> QED
    BY <2>1, <2>2, LiveIs
<1>2. \A a : Live(a)' = IF a = AccountOf[p] THEN Live(a) \cup {<<p, n>>} ELSE Live(a)
  BY <1>1
<1>3. AccountOf[p] \in Account
  BY AccountAssumption
<1> QED
  BY <1>2, <1>3 DEF AllLive

\* Moving one unit from a set to another keeps the sum.
LEMMA Moved ==
  ASSUME NEW L, NEW x, IsFiniteSet(L), NEW H, NEW G, NEW h, IsFiniteSet(H), h \in H,
         G \subseteq H \ {h}, NEW m \in Nat, Cardinality(L) + Cardinality(H) <= m
  PROVE  Cardinality(L \cup {x}) + Cardinality(G) <= m
<1>1. /\ Cardinality(L) \in Nat
      /\ Cardinality(L \cup {x}) = IF x \in L THEN Cardinality(L) ELSE Cardinality(L)+1
  BY FS_AddElement, FS_CardinalityType
<1>2. IsFiniteSet(H \ {h}) /\ Cardinality(H \ {h}) = Cardinality(H) - 1 /\ Cardinality(H) \in Nat
  BY FS_RemoveElement, FS_CardinalityType
<1>3. Cardinality(G) \in Nat /\ Cardinality(G) <= Cardinality(H \ {h})
  BY <1>2, SmallerCounts
<1> QED BY <1>1, <1>2, <1>3

LEMMA AdmittedWithin ==
  ASSUME AdmissionInv, NEW p \in Project, NEW n, NEW h \in DOMAIN holds, NEW d,
         ReservationMade(p, n, h, d), SameTable(holds, holds'),
         holds[h].project = p, holds[h].kind = "initial", holds[h].state = "active",
         \A g \in DOMAIN holds :
           /\ holds'[g].state = "active" => holds[g].state = "active" /\ g # h
           /\ holds'[g].state = "consumed" => holds[g].state = "consumed" \/ g = h,
         UNCHANGED limits
  PROVE  Countable' /\ LimitsHeld'
<1> DEFINE a0 == AccountOf[p]
<1>0. a0 \in Account
  BY AccountAssumption
<1>1. /\ \A a \in Account :
           /\ Live(a)' = IF a = a0 THEN Live(a) \cup {<<p, n>>} ELSE Live(a)
           /\ ActiveInitial(holds', a) \subseteq ActiveInitial(holds, a)
      /\ ActiveInitial(holds', a0) \subseteq ActiveInitial(holds, a0) \ {h}
      /\ h \in ActiveInitial(holds, a0)
      /\ AllLive' = AllLive \cup {<<p, n>>}
  BY MadeLive DEF ActiveInitial, Held, SameTable
<1>2. /\ AllInitial(holds') \subseteq AllInitial(holds) \ {h} /\ h \in AllInitial(holds)
      /\ AllRollouts(holds') \subseteq AllRollouts(holds)
  <2>1. AllInitial(holds') \subseteq AllInitial(holds) \ {h} /\ h \in AllInitial(holds)
    BY <1>0 DEF AllInitial, ActiveInitial, Held, SameTable
  <2>2. \A a \in Account : Rollouts(holds', a) \subseteq Rollouts(holds, a)
    BY DEF Rollouts, Held, SameTable
  <2> QED BY <2>1, <2>2 DEF AllRollouts
<1>3. Within /\ Countable /\ TypeOK /\ holds \in Seq(HoldRow)
  BY LimitsHeldIs, CountsTyped DEF AdmissionInv
<1>5. Countable'
  <2>1. IsFiniteSet(AllLive \cup {<<p, n>>})
    BY <1>3, FS_AddElement DEF Countable
  <2>2. IsFiniteSet(AllLive')
    BY <1>1, <2>1
  <2> QED BY <1>3, <2>2 DEF Countable
<1> HIDE DEF a0
<1>6. ASSUME NEW a \in Account
      PROVE  Cardinality(Live(a)') + Cardinality(ActiveInitial(holds', a)) <= entitlements[a].limit
  <2>0. /\ IsFiniteSet(Live(a)) /\ Cardinality(Live(a)) \in Nat /\ entitlements[a].limit \in Nat
        /\ IsFiniteSet(ActiveInitial(holds, a))
        /\ Cardinality(Live(a)) + Cardinality(ActiveInitial(holds, a)) <= entitlements[a].limit
    BY <1>3, LiveFinite, CountsTyped, LimitsTyped, HeldFinite DEF Within
  <2>1. CASE a = a0
    <3>1. /\ Live(a)' = Live(a) \cup {<<p, n>>} /\ h \in ActiveInitial(holds, a)
          /\ ActiveInitial(holds', a) \subseteq ActiveInitial(holds, a) \ {h}
      BY <1>1, <2>1
    <3> PICK L, H, G, m : L = Live(a) /\ H = ActiveInitial(holds, a)
                          /\ G = ActiveInitial(holds', a) /\ m = entitlements[a].limit
      OBVIOUS
    <3>2. /\ IsFiniteSet(L) /\ IsFiniteSet(H) /\ h \in H /\ G \subseteq H \ {h} /\ m \in Nat
          /\ Cardinality(L) + Cardinality(H) <= m
      BY <2>0, <3>1
    <3>3. Cardinality(L \cup {<<p, n>>}) + Cardinality(G) <= m
      BY <3>2, Moved
    <3> QED BY <3>1, <3>3
  <2>2. CASE a # a0
    <3>1. Live(a)' = Live(a) /\ ActiveInitial(holds', a) \subseteq ActiveInitial(holds, a)
      BY <1>1, <2>2
    <3> QED BY <2>0, <3>1, NoMore
  <2> QED BY <2>1, <2>2
<1>7. Cardinality(AllLive') + Cardinality(AllInitial(holds')) <= pool.slots
  <2>0. /\ IsFiniteSet(AllLive) /\ pool.slots \in Nat /\ IsFiniteSet(AllInitial(holds))
        /\ Cardinality(AllLive) + Cardinality(AllInitial(holds)) <= pool.slots
    BY <1>3, LimitsTyped, HeldFinite DEF Within, Countable
  <2> QED BY <1>1, <1>2, <2>0, Moved
<1>8. Cardinality(AllRollouts(holds')) <= pool.headroom
  <2>0. /\ pool.headroom \in Nat /\ IsFiniteSet(AllRollouts(holds))
        /\ Cardinality(AllRollouts(holds)) <= pool.headroom
    BY <1>3, LimitsTyped, HeldFinite DEF Within
  <2>1. /\ Cardinality(AllRollouts(holds')) \in Nat /\ Cardinality(AllRollouts(holds)) \in Nat
        /\ Cardinality(AllRollouts(holds')) <= Cardinality(AllRollouts(holds))
    BY <1>2, <2>0, SmallerCounts
  <2> QED BY <2>0, <2>1
<1>9. Within'
  BY <1>3, <1>6, <1>7, <1>8 DEF Within, limits
<1> QED
  BY <1>5, <1>9, LimitsHeldIs, PTL

LEMMA AdmittedLedger ==
  ASSUME AdmissionInv, NEW p \in Project, NEW n, NEW h \in DOMAIN holds, NEW d,
         ReservationMade(p, n, h, d), SameTable(holds, holds'), Grows,
         holds[h].project = p, holds[h].deployment = d,
         holds[h].kind = "initial", holds[h].state = "active", holds'[h].state = "consumed",
         h \notin refunds',
         \A g \in DOMAIN holds : g # h => SameHold(g)
  PROVE  LedgerInv'
<1>1. \A g \in DOMAIN holds : HoldInv(g) /\ holds[g].project \in Project
  BY GraphIsTyped, TablesTyped, HoldTyped DEF AdmissionInv, LedgerInv
<1>2. \A g : \A q \in Project : \A e :
        Made(g, q, e)' <=> Made(g, q, e) \/ (g = h /\ q = p /\ e = n)
  BY DEF Made, ReservationMade
<1>3. \A q \in Project : \A e \in DOMAIN reservations[q] : ~Made(h, q, e)
  BY <1>1 DEF HoldInv
<1>4. HoldInv(h)'
  <2>1. \A q \in Project : \A e \in DOMAIN reservations'[q] : Made(h, q, e)' <=> q = p /\ e = n
    BY <1>2, <1>3 DEF Made
  <2>2. n \in DOMAIN reservations'[p] /\ reservations'[p][n].first = d
    BY DEF ReservationMade
  <2>3. holds'[h].deployment \in DOMAIN deployments'[holds'[h].project]
    BY <1>1 DEF HoldInv, Grows, SameTable
  <2> QED
    BY <2>1, <2>2, <2>3 DEF HoldInv, SameTable
<1>5. ASSUME NEW g \in DOMAIN holds, g # h PROVE HoldInv(g)'
  <2>1. \A q \in Project : \A e : Made(g, q, e)' <=> Made(g, q, e)
    BY <1>2, <1>5
  <2>2. \A q \in Project : \A e :
          Made(g, q, e) => e \in DOMAIN reservations[q] /\ e \in DOMAIN reservations'[q]
                           /\ reservations'[q][e].first = reservations[q][e].first
    BY DEF Made, ReservationMade
  <2>3. holds'[g].deployment \in DOMAIN deployments'[holds'[g].project]
    BY <1>1 DEF HoldInv, Grows, SameTable
  <2>4. HoldInv(g) /\ SameHold(g)
    BY <1>1, <1>5
  <2> QED
    BY <2>1, <2>2, <2>3, <2>4 DEF HoldInv, SameHold
<1>6. \A q \in Project : \A e \in DOMAIN reservations'[q] : reservations'[q][e].hold \in DOMAIN holds
  BY DEF ReservationMade, AdmissionInv, LedgerInv
<1> QED
  BY <1>4, <1>5, <1>6 DEF LedgerInv, SameTable, AdmissionInv

LEMMA AdmitInitialKeeps ==
  ASSUME AdmissionInv, NEW h \in DOMAIN holds, AdmitInitial(h)
  PROVE  AdmissionInv'
<1>0. /\ TypeOK /\ Usable(h) /\ holds[h].kind = "initial" /\ holds[h].state = "active"
      /\ holds' = Consume(h) /\ refunds' = Refunded /\ h \in 1..MaxHolds
      /\ UNCHANGED <<intents, limits, outside>>
  <2>1. Len(holds) <= MaxHolds /\ h \in 1..Len(holds) /\ MaxHolds \in Nat /\ Len(holds) \in Nat
    BY GraphIsTyped, TablesTyped, BoundsAssumption DEF AdmissionInv, LedgerInv
  <2> QED BY <2>1, GraphIsTyped DEF AdmitInitial, MayAdmit, Usable
<1>1. PICK p \in Project : p = holds[h].project
  BY <1>0, TablesTyped, HoldTyped
<1>2. PICK d \in DOMAIN deployments[p] : d = holds[h].deployment /\ d \in Nat \ {0}
  BY <1>0, <1>1, TablesTyped, HoldTyped DEF AdmissionInv, LedgerInv, HoldInv
<1>3. PICK n \in Nat : ReservationMade(p, n, h, d)
  <2>1. reservations' = [reservations EXCEPT ![p] =
           Append(@, [first |-> d, hold |-> h, state |-> "reserved"])]
    BY <1>1, <1>2 DEF AdmitInitial
  <2> QED BY <1>0, <1>2, <2>1, ReservationAdded
<1>4. /\ SameTable(holds, holds')
      /\ \A g \in DOMAIN holds :
           holds'[g].state = IF g = h THEN "consumed"
                             ELSE IF Overdue(g) THEN "expired" ELSE holds[g].state
  BY <1>0, ConsumedTable
<1>5. /\ refunds' \subseteq DOMAIN holds
      /\ \A g \in DOMAIN holds :
           g \in refunds' <=> g \in refunds \/ (Overdue(g) /\ holds[g].kind = "initial")
  BY <1>0, GraphIsTyped DEF Refunded, LedgerTyped
<1>6. ASSUME NEW g \in DOMAIN holds
      PROVE  (g # h => SameHold(g)) /\ (g = h => g \notin refunds')
  <2>1. HoldInv(g)
    BY DEF AdmissionInv, LedgerInv
  <2> QED
    BY <1>0, <1>4, <1>5, <2>1 DEF SameHold, SameTable, HoldInv, Overdue, Usable
<1>7. deployments' \in [Project -> Seq(DeploymentRow)] /\ Grows
  <2>1. \/ deployments' = [deployments EXCEPT ![p][d].lifecycle = "queued"]
        \/ deployments' = deployments
    BY <1>1, <1>2 DEF AdmitInitial
  <2> QED
    BY <2>1, LifecycleMoved DEF Lifecycle
<1>8. /\ projects' \in [Project -> ProjectRow] /\ Shown(p)'
      /\ \A q \in Project : q # p => projects'[q] = projects[q]
  <2>1. projects[p] \in ProjectRow
    BY GraphIsTyped, TablesTyped
  <2> DEFINE row == [projects[p] EXCEPT !.slots = 1, !.slot_state = "reserved"]
  <2>2. row \in ProjectRow /\ row.slots = 1 /\ row.slot_state = "reserved"
    BY <2>1 DEF ProjectRow, SlotState
  <2>3. projects' = [projects EXCEPT ![p] = row]
    BY <1>1, <2>1, GraphIsTyped DEF GraphTyped, AdmitInitial
  <2> HIDE DEF row
  <2> QED BY <2>2, <2>3, ProjectRewritten DEF Shown
<1>9. LedgerInv'
  BY <1>0, <1>1, <1>2, <1>3, <1>4, <1>6, <1>7, AdmittedLedger
<1>10. Countable' /\ LimitsHeld'
  BY <1>0, <1>1, <1>3, <1>4, AdmittedWithin
<1>11. TypeOK'
  <2>1. GraphTyped' /\ LedgerTyped' /\ RestTyped'
    BY <1>0, <1>3, <1>4, <1>5, <1>7, <1>8, GraphIsTyped
    DEF GraphTyped, LedgerTyped, RestTyped, limits, outside, SameTable, ReservationMade
  <2> QED BY <2>1, TypeParts, PTL
<1>12. ASSUME NEW q \in Project PROVE SlotInv(q)'
  <2>0. SlotInv(q) /\ UNCHANGED database
    BY <1>0 DEF AdmissionInv, outside
  <2>1. CASE q = p
    <3>1. \A e \in DOMAIN reservations[p] : ~Unreleased(p, e)
      BY <1>0, <1>1, CurrentIs DEF AdmitInitial
    <3>2. \A e \in DOMAIN reservations'[p] : Unreleased(p, e)' => e = n
      BY <1>3, <3>1 DEF ReservationMade, Unreleased
    <3> QED
      BY <1>3, <1>8, <2>0, <2>1, <3>2 DEF SlotInv, Shown, ReservationMade
  <2>2. CASE q # p
    BY <1>3, <1>8, <2>0, <2>2 DEF SlotInv, ReservationMade, Unreleased
  <2> QED BY <2>1, <2>2
<1> QED BY <1>9, <1>10, <1>11, <1>12 DEF AdmissionInv

-----------------------------------------------------------------------------
(* Limits and usage. *)

\* A step that moves limits or usage only.
LEMMA LimitStep ==
  ASSUME AdmissionInv, UNCHANGED <<graph, ledger, outside>>,
         entitlements' \in [Account -> EntitlementRow], pool' \in PoolLimits,
         usage' \in [Account -> [BuildAttempt -> {"none", "debited", "credited"}]],
         \A a \in Account : AccountSlotUse(holds, a) <= entitlements'[a].limit,
         PoolSlotUse(holds) <= pool'.slots, PoolRolloutUse(holds) <= pool'.headroom
  PROVE  AdmissionInv'
<1>1. TypeOK'
  <2>1. GraphTyped' /\ LedgerTyped' /\ RestTyped'
    BY GraphIsTyped DEF GraphTyped, LedgerTyped, RestTyped, graph, ledger, outside
  <2> QED BY <2>1, TypeParts, PTL
<1>2. \A p \in Project : SlotInv(p)'
  <2>1. \A p \in Project : Shown(p) => Shown(p)'
    BY DEF Shown, graph
  <2> QED BY <2>1, KeepsSlots DEF outside, ledger
<1>3. LedgerInv'
  <2>1. Grows
    BY DEF Grows, graph
  <2> QED BY <2>1, Unmoved, HoldsUnmoved, KeepsLedger DEF ledger
<1>4. (\A a : Live(a)' = Live(a)) /\ AllLive' = AllLive
  BY DEF Live, AllLive, ledger
<1>5. Countable'
  BY <1>4 DEF Countable, AdmissionInv
<1>6. Within'
  BY <1>4, UseIs DEF Within, ledger
<1>7. LimitsHeld'
  BY <1>6, LimitsHeldIs, PTL
<1> QED BY <1>1, <1>2, <1>3, <1>5, <1>7 DEF AdmissionInv

\* What the limits say, use by use.
LEMMA LimitsNow ==
  ASSUME AdmissionInv
  PROVE  /\ entitlements \in [Account -> EntitlementRow] /\ pool \in PoolLimits
         /\ usage \in [Account -> [BuildAttempt -> {"none", "debited", "credited"}]]
         /\ \A a \in Account : AccountSlotUse(holds, a) <= entitlements[a].limit
         /\ PoolSlotUse(holds) <= pool.slots /\ PoolRolloutUse(holds) <= pool.headroom
BY GraphIsTyped, LimitsHeldIs DEF AdmissionInv, LimitsHeld, Within, Countable, RestTyped

LEMMA PutCapacityKeeps ==
  ASSUME AdmissionInv, NEW new \in PoolLimits, PutCapacity(new)
  PROVE  AdmissionInv'
<1>1. /\ pool' = new /\ UNCHANGED <<graph, ledger, entitlements, usage, outside>>
      /\ PoolSlotUse(holds) <= new.slots /\ PoolRolloutUse(holds) <= new.headroom
  BY DEF PutCapacity, Fits
<1> QED BY <1>1, LimitsNow, LimitStep

LEMMA PutEntitlementKeeps ==
  ASSUME AdmissionInv, NEW a \in Account, NEW new \in EntitlementRow, PutEntitlement(a, new)
  PROVE  AdmissionInv'
<1>1. /\ entitlements' = [entitlements EXCEPT ![a] = new]
      /\ UNCHANGED <<graph, ledger, pool, usage, outside>>
      /\ AccountSlotUse(holds, a) <= new.limit
  BY DEF PutEntitlement
<1>2. /\ entitlements' \in [Account -> EntitlementRow]
      /\ \A b \in Account : AccountSlotUse(holds, b) <= entitlements'[b].limit
  BY <1>1, LimitsNow
<1> QED BY <1>1, <1>2, LimitsNow, LimitStep

\* The meter does not enter any limit of the invariant.
LEMMA UsageStep ==
  ASSUME AdmissionInv, NEW a \in Account, NEW n \in BuildAttempt,
         NEW st \in {"none", "debited", "credited"},
         usage' = [usage EXCEPT ![a][n] = st],
         UNCHANGED <<graph, ledger, entitlements, pool, outside>>
  PROVE  AdmissionInv'
<1>1. usage' \in [Account -> [BuildAttempt -> {"none", "debited", "credited"}]]
  BY LimitsNow
<1> QED BY <1>1, LimitsNow, LimitStep

LEMMA DebitKeeps ==
  ASSUME AdmissionInv, NEW a \in Account, NEW n \in BuildAttempt, Debit(a, n) \/ BuildDebit(a, n)
  PROVE  AdmissionInv'
BY UsageStep DEF Debit, BuildDebit

LEMMA CreditKeeps ==
  ASSUME AdmissionInv, NEW a \in Account, NEW n \in BuildAttempt, Credit(a, n)
  PROVE  AdmissionInv'
BY UsageStep DEF Credit

-----------------------------------------------------------------------------
(* The theorems. *)

LEMMA InitHolds == Init => AdmissionInv
<1> SUFFICES ASSUME Init PROVE AdmissionInv
  OBVIOUS
<1>0. /\ \A p \in Project : reservations[p] = <<>> /\ database[p] = 0
      /\ holds = <<>> /\ refunds = {}
  BY DEF Init, Nothing
<1>1. TypeOK
  <2>1. /\ 0 \in 0..MaxProofs /\ <<>> \in Seq(DeploymentRow) /\ <<>> \in Seq(HoldRow)
        /\ <<>> \in Seq(ReservationRow)
    BY BoundsAssumption
  <2>2. 1 \in 1..MaxConfigs
    BY BoundsAssumption
  <2>3. [slots |-> 0, slot_state |-> "no_slot", config |-> 1] \in ProjectRow /\ NoIntent \in IntentRow
    BY <2>2 DEF ProjectRow, SlotState, IntentRow, NoIntent, Nothing
  <2>4. GraphTyped
    BY <2>1, <2>3 DEF Init, GraphTyped
  <2>5. LedgerTyped /\ RestTyped
    BY <1>0, <2>1 DEF Init, LedgerTyped, RestTyped, Nothing
  <2> QED
    BY <2>4, <2>5, TypeParts
<1>2. \A p \in Project : SlotInv(p)
  BY <1>0 DEF SlotInv, Nothing
<1>3. LedgerInv
  BY <1>0, BoundsAssumption DEF LedgerInv
<1>4. (\A a : Live(a) = {}) /\ AllLive = {}
  BY <1>0 DEF Live, AllLive
<1>5. /\ \A a : ActiveInitial(holds, a) = {} /\ Rollouts(holds, a) = {}
      /\ AllInitial(holds) = {} /\ AllRollouts(holds) = {}
  BY <1>0 DEF ActiveInitial, Rollouts, AllInitial, AllRollouts, Held
<1>6. Countable
  BY <1>4, FS_EmptySet DEF Countable
<1>7. Within
  <2>1. Cardinality({}) = 0
    BY FS_EmptySet
  <2>2. ASSUME NEW a \in Account
        PROVE  Cardinality(Live(a)) = 0 /\ Cardinality(ActiveInitial(holds, a)) = 0
    BY <1>4, <1>5, <2>1
  <2>3. /\ Cardinality(AllLive) = 0 /\ Cardinality(AllInitial(holds)) = 0
        /\ Cardinality(AllRollouts(holds)) = 0
    BY <1>4, <1>5, <2>1
  <2> QED BY <1>1, <2>2, <2>3, LimitsTyped DEF Within
<1> QED BY <1>1, <1>2, <1>3, <1>6, <1>7, LimitsHeldIs DEF AdmissionInv

LEMMA StutterHolds == AdmissionInv /\ UNCHANGED vars => AdmissionInv'
<1> SUFFICES ASSUME AdmissionInv, UNCHANGED vars PROVE AdmissionInv'
  OBVIOUS
<1>1. GraphTyped' /\ Grows /\ \A q \in Project : Shown(q) => Shown(q)'
  BY GraphIsTyped DEF vars, GraphTyped, Grows, Shown
<1> QED
  BY <1>1, GraphStep, GraphIsTyped DEF vars, ledger, limits

LEMMA NextHolds == AdmissionInv /\ Next => AdmissionInv'
<1> SUFFICES ASSUME AdmissionInv, Next PROVE AdmissionInv'
  OBVIOUS
<1>1. ASSUME NEW p \in Project, Own(p) PROVE AdmissionInv'
  BY <1>1, CreateConfigurationKeeps, CreateDeploymentIntentKeeps, CreateRemovalIntentKeeps,
     CreateRollbackIntentKeeps, CreateHoldKeeps DEF Own, Deployments
<1>2. ASSUME NEW p \in Project, Observe(p) PROVE AdmissionInv'
  BY <1>2, ObserveRetainedKeeps, ObserveHealthyKeeps, ObserveCleanupKeeps,
     ObserveRolloutReleasedKeeps DEF Observe, Deployments
<1>3. ASSUME NEW p \in Project,
             \/ CreateDatabase(p) \/ ProvisionRetains(p) \/ AuthorityLost(p)
             \/ \E d \in Deployments(p) : PutSourceProof(p, d) \/ ProofLapses(p, d)
      PROVE  AdmissionInv'
  BY <1>3, CreateDatabaseKeeps, ProvisionRetainsKeeps, AuthorityLostKeeps, PutSourceProofKeeps,
     ProofLapsesKeeps DEF Deployments
<1>4. ASSUME NEW h \in DOMAIN holds, Admit(h) \/ HoldLapses(h) PROVE AdmissionInv'
  BY <1>4, AdmitInitialKeeps, AdmitRolloutKeeps, AdmitLostKeeps, HoldLapsesKeeps DEF Admit
<1>5. ASSUME Reconcile PROVE AdmissionInv'
  BY <1>5, ReconcileKeeps
<1>6. ASSUME NEW new \in PoolLimits, PutCapacity(new) PROVE AdmissionInv'
  BY <1>6, PutCapacityKeeps
<1>7. ASSUME NEW a \in Account,
             \/ \E new \in EntitlementRow : PutEntitlement(a, new)
             \/ \E n \in BuildAttempt : Debit(a, n) \/ BuildDebit(a, n) \/ Credit(a, n)
      PROVE  AdmissionInv'
  BY <1>7, PutEntitlementKeeps, DebitKeeps, CreditKeeps
<1> QED BY <1>1, <1>2, <1>3, <1>4, <1>5, <1>6, <1>7 DEF Next

\* The invariant holds in every reachable state.
THEOREM InvariantHolds == Spec => []AdmissionInv
<1>1. AdmissionInv /\ [Next]_vars => AdmissionInv'
  BY NextHolds, StutterHolds
<1> QED BY <1>1, InitHolds, PTL DEF Spec

\* Every row is one its table can hold.
THEOREM TypeCorrect == Spec => []TypeOK
<1>1. AdmissionInv => TypeOK
  BY DEF AdmissionInv
<1> QED BY <1>1, InvariantHolds, PTL

\* Holds, reservations and rollouts stay within the limits of the account and of
\* the pool, whatever the number of accounts, projects and holds, while handlers
\* that sweep, release and lower limits run between them.
THEOREM LimitsAreHeld == Spec => []LimitsHeld
<1>1. AdmissionInv => LimitsHeld
  BY DEF AdmissionInv
<1> QED BY <1>1, InvariantHolds, PTL

\* A hold is accounted for once: by its own reservation, or by a refund.
THEOREM HoldsAreAccounted == Spec => []HoldsAccounted
<1>1. AdmissionInv => HoldsAccounted
  <2> SUFFICES ASSUME AdmissionInv, NEW h \in DOMAIN holds
               PROVE  LET made == {r \in UNION {{p} \X DOMAIN reservations[p] : p \in Project} :
                                     reservations[r[1]][r[2]].hold = h}
                      IN  /\ Cardinality(made) = IF holds[h].kind = "initial" /\ holds[h].state = "consumed"
                                                 THEN 1 ELSE 0
                          /\ \A r \in made : r[1] = holds[h].project
                                              /\ reservations[r[1]][r[2]].first = holds[h].deployment
                          /\ h \in refunds <=> holds[h].kind = "initial" /\ holds[h].state = "expired"
    BY DEF HoldsAccounted
  <2> DEFINE made == {r \in UNION {{p} \X DOMAIN reservations[p] : p \in Project} :
                        reservations[r[1]][r[2]].hold = h}
  <2>0. HoldInv(h)
    BY DEF AdmissionInv, LedgerInv
  <2>1. \A r : r \in made <=> \E p \in Project : \E e \in DOMAIN reservations[p] :
                                r = <<p, e>> /\ Made(h, p, e)
    BY DEF Made
  <2>2. \A r \in made : r[1] = holds[h].project
                        /\ reservations[r[1]][r[2]].first = holds[h].deployment
    <3>1. ASSUME NEW p \in Project, NEW e \in DOMAIN reservations[p], Made(h, p, e)
          PROVE  p = holds[h].project /\ reservations[p][e].first = holds[h].deployment
      BY <2>0, <3>1 DEF HoldInv
    <3> HIDE DEF made
    <3> QED BY <2>1, <3>1
  <2> HIDE DEF made
  <2>3. CASE holds[h].kind = "initial" /\ holds[h].state = "consumed"
    <3>1. PICK p \in Project : \E e \in DOMAIN reservations[p] : Made(h, p, e)
      BY <2>0, <2>3 DEF HoldInv
    <3>2. PICK e \in DOMAIN reservations[p] : Made(h, p, e)
      BY <3>1
    <3>3. \A q \in Project : \A f \in DOMAIN reservations[q] : Made(h, q, f) => q = p /\ f = e
      BY <2>0, <3>2 DEF HoldInv
    <3>4. made = {<<p, e>>}
      BY <2>1, <3>2, <3>3
    <3>5. Cardinality(made) = 1
      BY <3>4, FS_Singleton
    <3> QED BY <2>0, <2>2, <2>3, <3>5 DEF HoldInv, made
  <2>4. CASE ~(holds[h].kind = "initial" /\ holds[h].state = "consumed")
    <3>1. made = {}
      BY <2>0, <2>1, <2>4 DEF HoldInv
    <3>2. Cardinality(made) = 0
      BY <3>1, FS_EmptySet
    <3> QED BY <2>0, <2>2, <2>4, <3>2 DEF HoldInv, made
  <2> QED BY <2>3, <2>4
<1> QED BY <1>1, InvariantHolds, PTL

\* A project has at most one live reservation, and shows it.
THEOREM ReservationIsShown == Spec => []ReservedIsShown
<1>1. AdmissionInv => ReservedIsShown
  <2> SUFFICES ASSUME AdmissionInv, NEW p \in Project
               PROVE  /\ \A e, f \in DOMAIN reservations[p] : Unreleased(p, e) /\ Unreleased(p, f) => e = f
                      /\ Current(p) # Nothing =>
                           projects[p].slots = 1
                           /\ projects[p].slot_state \in {"reserved", "resources_retained", "release_pending"}
    BY DEF ReservedIsShown
  <2> QED
    BY CurrentIs DEF AdmissionInv, SlotInv
<1> QED BY <1>1, InvariantHolds, PTL
=============================================================================
