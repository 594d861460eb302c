------------------------ MODULE RuntimePolicyProofs -------------------------
(***************************************************************************)
(* Machine-checked proofs about RuntimePolicy, for any artifacts, subjects, *)
(* evidence, number of requests and number of allocations.                 *)
(***************************************************************************)
EXTENDS RuntimePolicy, SequenceTheorems, WellFoundedInduction, TLAPS

-----------------------------------------------------------------------------
(* The inductive invariant. *)

\* A request that stored its intent finds it.
RequestInv(w) == requests[w].pc = "stored" => intents[requests[w].subject] # None

\* What an intent, its probe and its evaluation say of each other.
IntentInv(s) ==
  /\ evaluations[s] # None <=> (intents[s] # None /\ intents[s].state = "consumed")
  /\ evaluations[s] # None =>
       /\ intents[s].artifact \in evaluations[s].of.seen
       /\ evaluations[s].state = "passed" => Passed(evaluations[s].of)
  /\ probes[s] # None =>
       /\ intents[s] # None /\ probes[s].source \in DOMAIN allocations
       /\ allocations[probes[s].source].artifact = intents[s].artifact
       /\ probes[s].state = "consumed" <=> intents[s].state = "consumed"

\* Every observation is of an allocation that exists, and every allocation has
\* its list of receipts.
ListsAgree ==
  /\ Len(receipts) = Len(allocations) /\ Len(allocations) <= MaxAllocations
  /\ \A i \in DOMAIN observations : observations[i].allocation \in DOMAIN allocations

PolicyInv ==
  /\ TypeOK
  /\ ListsAgree
  /\ \A w \in Worker : RequestInv(w)
  /\ \A s \in Subject : IntentInv(s)
  /\ AllocationJustified
  /\ ObservationsConsistent

-----------------------------------------------------------------------------
(* Rows. *)

LEMMA IntentTyped ==
  /\ None \notin IntentRow /\ None \notin ProbeRow /\ None \notin EvaluationRow
  /\ None.state = "none"
  /\ \A row \in IntentRow : /\ row.artifact \in Artifact /\ row.fresh \in BOOLEAN
                            /\ row.state \in {"requested", "credential_issued", "consumed"}
  /\ \A a \in Artifact, st \in {"requested", "credential_issued", "consumed"}, f \in BOOLEAN :
       [artifact |-> a, fresh |-> f, state |-> st] \in IntentRow
BY DEF None, IntentRow, ProbeRow, EvaluationRow

LEMMA RequestTyped ==
  /\ Idle \notin RequestRow /\ Idle.pc = "idle"
  /\ \A row \in RequestRow : /\ row.pc \in {"scoped", "stored"} /\ row.subject \in Subject
                             /\ row.artifact \in Artifact
BY DEF Idle, RequestRow

LEMMA RowsTyped ==
  ASSUME TypeOK
  PROVE  /\ \A s \in Subject : /\ intents[s] = None \/ intents[s] \in IntentRow
                               /\ probes[s] = None \/ probes[s] \in ProbeRow
                               /\ evaluations[s] = None \/ evaluations[s] \in EvaluationRow
         /\ \A w \in Worker : requests[w] = Idle \/ requests[w] \in RequestRow
         /\ \A x \in DOMAIN allocations : allocations[x] \in AllocationRow
         /\ \A i \in DOMAIN observations : observations[i] \in ObservationRow
BY DEF TypeOK

LEMMA ListsTyped ==
  ASSUME TypeOK
  PROVE  /\ Len(allocations) \in Nat /\ DOMAIN allocations = 1..Len(allocations)
         /\ Len(observations) \in Nat /\ DOMAIN observations = 1..Len(observations)
         /\ Len(receipts) \in Nat /\ DOMAIN receipts = 1..Len(receipts)
BY DEF TypeOK

-----------------------------------------------------------------------------
(* What survives when the tables it reads do. *)

LEMMA KeepsRequests ==
  ASSUME PolicyInv, UNCHANGED requests, \A s \in Subject : intents[s] # None => intents'[s] # None
  PROVE  \A w \in Worker : RequestInv(w)'
<1>1. ASSUME NEW w \in Worker PROVE RequestInv(w)'
  <2>1. RequestInv(w) /\ (requests[w].pc = "stored" => requests[w].subject \in Subject)
    BY RowsTyped, RequestTyped DEF PolicyInv
  <2> QED
    BY <2>1 DEF RequestInv
<1> QED BY <1>1

LEMMA KeepsIntents ==
  ASSUME PolicyInv, UNCHANGED <<intents, probes, evaluations, allocations>>
  PROVE  (\A s \in Subject : IntentInv(s)') /\ AllocationJustified'
<1>1. \A s \in Subject : IntentInv(s)'
  BY DEF PolicyInv, IntentInv
<1>2. AllocationJustified'
  BY DEF PolicyInv, AllocationJustified
<1> QED BY <1>1, <1>2

LEMMA KeepsLists ==
  ASSUME PolicyInv, UNCHANGED <<allocations, observations>>, Len(receipts') = Len(receipts)
  PROVE  ListsAgree' /\ ObservationsConsistent'
<1>1. ListsAgree'
  BY DEF PolicyInv, ListsAgree
<1>2. ObservationsConsistent'
  BY DEF PolicyInv, ObservationsConsistent, ObservationsOf
<1> QED BY <1>1, <1>2

\* An intent is stored, marked or ages: its artifact stays, and whether it is
\* consumed.
LEMMA IntentRewritten ==
  ASSUME PolicyInv, NEW s \in Subject, NEW row \in IntentRow, intents' = [intents EXCEPT ![s] = row],
         intents[s] # None => /\ row.artifact = intents[s].artifact
                              /\ row.state = "consumed" <=> intents[s].state = "consumed",
         intents[s] = None => row.state # "consumed",
         UNCHANGED <<probes, evaluations, allocations>>
  PROVE  /\ intents' \in [Subject -> IntentRow \cup {None}]
         /\ \A t \in Subject : IntentInv(t)'
         /\ AllocationJustified'
         /\ \A t \in Subject : intents[t] # None => intents'[t] # None
         /\ intents'[s] # None
<1>1. /\ intents' \in [Subject -> IntentRow \cup {None}] /\ intents'[s] = row
      /\ \A t \in Subject \ {s} : intents'[t] = intents[t]
  BY DEF PolicyInv, TypeOK
<1>2. row # None
  BY IntentTyped
<1>3. ASSUME NEW t \in Subject PROVE IntentInv(t)'
  <2>1. IntentInv(t)
    BY DEF PolicyInv
  <2>2. CASE t = s
    BY <1>1, <1>2, <2>1, <2>2 DEF IntentInv
  <2>3. CASE t # s
    BY <1>1, <2>1, <2>3 DEF IntentInv
  <2> QED BY <2>2, <2>3
<1>4. AllocationJustified'
  BY DEF PolicyInv, AllocationJustified
<1> QED BY <1>1, <1>2, <1>3, <1>4

-----------------------------------------------------------------------------
(* The steps. *)

LEMMA SurroundingsKeep ==
  ASSUME PolicyInv, UNCHANGED <<evidence, allocations, observations, requests, receipts>>,
         lifecycle' \in [Artifact -> {"queued", "healthy"}], slot' \in {"held", "released"},
         database' \in {"drilled", "ready", "unusable"}
  PROVE  PolicyInv'
<1>1. TypeOK'
  BY DEF PolicyInv, TypeOK, evidence
<1>2. \A w \in Worker : RequestInv(w)'
  BY KeepsRequests DEF evidence
<1>3. (\A s \in Subject : IntentInv(s)') /\ AllocationJustified'
  BY KeepsIntents DEF evidence
<1>4. ListsAgree' /\ ObservationsConsistent'
  BY KeepsLists
<1> QED BY <1>1, <1>2, <1>3, <1>4 DEF PolicyInv

LEMMA RequestMoves ==
  ASSUME PolicyInv, NEW w \in Worker, NEW row \in RequestRow \cup {Idle},
         requests' = [requests EXCEPT ![w] = row], row.pc # "stored",
         UNCHANGED <<surroundings, evidence, allocations, observations, receipts>>
  PROVE  PolicyInv'
<1>1. TypeOK'
  BY DEF PolicyInv, TypeOK, evidence, surroundings
<1>2. ASSUME NEW v \in Worker PROVE RequestInv(v)'
  <2>1. RequestInv(v) /\ requests'[v] = IF v = w THEN row ELSE requests[v]
    BY DEF PolicyInv, TypeOK
  <2> QED
    BY <2>1 DEF RequestInv, evidence
<1>3. (\A s \in Subject : IntentInv(s)') /\ AllocationJustified'
  BY KeepsIntents DEF evidence
<1>4. ListsAgree' /\ ObservationsConsistent'
  BY KeepsLists
<1> QED BY <1>1, <1>2, <1>3, <1>4 DEF PolicyInv

LEMMA ScopeReadKeeps ==
  ASSUME PolicyInv, NEW w \in Worker, NEW s \in Subject, NEW a \in Artifact, ScopeRead(w, s, a)
  PROVE  PolicyInv'
<1> DEFINE row == [pc |-> "scoped", subject |-> s, artifact |-> a]
<1>1. row \in RequestRow /\ row.pc # "stored"
  BY DEF RequestRow
<1>2. requests' = [requests EXCEPT ![w] = row]
  BY DEF ScopeRead
<1> HIDE DEF row
<1> QED
  BY <1>1, <1>2, RequestMoves DEF ScopeRead

LEMMA RequestDiesKeeps ==
  ASSUME PolicyInv, NEW w \in Worker, RequestDies(w)
  PROVE  PolicyInv'
BY RequestMoves, RequestTyped DEF RequestDies

LEMMA BoundIsKept ==
  ASSUME PolicyInv, NEW s \in Subject, NEW a \in Artifact, Bindable(s, a)
  PROVE  /\ Bound(s, a) \in IntentRow /\ Bound(s, a).artifact = a
         /\ Bound(s, a).state # "consumed"
         /\ intents[s] # None => /\ intents[s].artifact = a /\ intents[s].state # "consumed"
                                 /\ Bound(s, a).state = intents[s].state
<1>1. intents[s] # None => /\ intents[s] \in IntentRow /\ intents[s].artifact = a
                           /\ intents[s].state # "consumed"
  BY RowsTyped DEF PolicyInv, Bindable
<1>2. PICK st \in {"requested", "credential_issued"} :
        st = IF intents[s] = None THEN "requested" ELSE intents[s].state
  BY <1>1, IntentTyped
<1>3. Bound(s, a) = [artifact |-> a, fresh |-> TRUE, state |-> st]
  BY <1>2 DEF Bound
<1>4. Bound(s, a) \in IntentRow /\ Bound(s, a).artifact = a /\ Bound(s, a).state = st
  BY <1>3 DEF IntentRow
<1> QED
  BY <1>1, <1>2, <1>4

LEMMA IssuedKeeps ==
  ASSUME NEW row \in IntentRow
  PROVE  /\ Issued(row) \in IntentRow /\ Issued(row).artifact = row.artifact
         /\ Issued(row).state = "consumed" <=> row.state = "consumed"
<1>1. CASE row.state = "consumed"
  BY <1>1 DEF Issued
<1>2. CASE row.state # "consumed"
  BY <1>2 DEF Issued, IntentRow
<1> QED BY <1>1, <1>2

LEMMA IntentStoredKeeps ==
  ASSUME PolicyInv, NEW w \in Worker, IntentStored(w)
  PROVE  PolicyInv'
<1>0. requests[w] \in RequestRow /\ requests[w].pc = "scoped"
  BY RowsTyped, RequestTyped DEF PolicyInv, IntentStored
<1>1. PICK s \in Subject, a \in Artifact : s = requests[w].subject /\ a = requests[w].artifact
  BY <1>0, RequestTyped
<1>2. CASE ~ Bindable(s, a)
  BY <1>1, <1>2, RequestMoves, RequestTyped DEF IntentStored, evidence
<1>3. CASE Bindable(s, a)
  <2>1. PICK row \in IntentRow :
          /\ row = Bound(s, a) /\ row.artifact = a /\ row.state # "consumed"
          /\ intents[s] # None => /\ row.artifact = intents[s].artifact
                                  /\ row.state = "consumed" <=> intents[s].state = "consumed"
    BY <1>3, BoundIsKept
  <2>2. /\ intents' = [intents EXCEPT ![s] = row]
        /\ requests' = [requests EXCEPT ![w].pc = "stored"]
        /\ UNCHANGED <<surroundings, probes, evaluations, allocations, observations, receipts>>
    BY <1>1, <1>3, <2>1 DEF IntentStored
  <2>3. /\ intents' \in [Subject -> IntentRow \cup {None}]
        /\ \A t \in Subject : IntentInv(t)'
        /\ AllocationJustified'
        /\ \A t \in Subject : intents[t] # None => intents'[t] # None
        /\ intents'[s] # None
    BY <2>1, <2>2, IntentRewritten
  <2>4. /\ requests' \in [Worker -> RequestRow \cup {Idle}] /\ requests'[w].subject = s
        /\ \A v \in Worker \ {w} : requests'[v] = requests[v]
    <3>1. requests \in [Worker -> RequestRow \cup {Idle}]
      BY DEF PolicyInv, TypeOK
    <3> DEFINE r == [requests[w] EXCEPT !.pc = "stored"]
    <3>2. r \in RequestRow /\ r.subject = s
      BY <1>0, <1>1 DEF RequestRow
    <3>3. requests' = [requests EXCEPT ![w] = r]
      BY <2>2
    <3> HIDE DEF r
    <3> QED
      BY <3>1, <3>2, <3>3
  <2>5. TypeOK'
    BY <2>2, <2>3, <2>4 DEF PolicyInv, TypeOK, surroundings
  <2>6. ASSUME NEW v \in Worker PROVE RequestInv(v)'
    <3>1. RequestInv(v) /\ (requests[v].pc = "stored" => requests[v].subject \in Subject)
      BY RowsTyped, RequestTyped DEF PolicyInv
    <3>2. CASE v = w
      BY <2>3, <2>4, <3>2 DEF RequestInv
    <3>3. CASE v # w
      BY <2>3, <2>4, <3>1, <3>3 DEF RequestInv
    <3> QED BY <3>2, <3>3
  <2>7. ListsAgree' /\ ObservationsConsistent'
    BY <2>2, KeepsLists
  <2> QED BY <2>3, <2>5, <2>6, <2>7 DEF PolicyInv
<1> QED BY <1>2, <1>3

LEMMA CredentialIssuedKeeps ==
  ASSUME PolicyInv, NEW w \in Worker, CredentialIssued(w)
  PROVE  PolicyInv'
<1>0. requests[w] \in RequestRow /\ requests[w].pc = "stored" /\ RequestInv(w)
  BY RowsTyped, RequestTyped DEF PolicyInv, CredentialIssued
<1>1. PICK s \in Subject : s = requests[w].subject /\ intents[s] # None /\ intents[s] \in IntentRow
  BY <1>0, RowsTyped, RequestTyped DEF PolicyInv, RequestInv
<1>2. CASE ~ Resolvable
  BY <1>2, RequestMoves, RequestTyped DEF CredentialIssued, evidence
<1>3. CASE Resolvable
  <2>1. PICK row \in IntentRow : row = Issued(intents[s])
    BY <1>1, IssuedKeeps
  <2>2. /\ intents' = [intents EXCEPT ![s] = row]
        /\ requests' = [requests EXCEPT ![w] = Idle]
        /\ UNCHANGED <<surroundings, probes, evaluations, allocations, observations, receipts>>
    BY <1>1, <1>3, <2>1 DEF CredentialIssued
  <2>3. /\ intents' \in [Subject -> IntentRow \cup {None}]
        /\ \A t \in Subject : IntentInv(t)'
        /\ AllocationJustified'
        /\ \A t \in Subject : intents[t] # None => intents'[t] # None
    BY <1>1, <2>1, <2>2, IssuedKeeps, IntentRewritten
  <2>4. /\ requests' \in [Worker -> RequestRow \cup {Idle}] /\ requests'[w] = Idle
        /\ \A v \in Worker \ {w} : requests'[v] = requests[v]
    BY <2>2 DEF PolicyInv, TypeOK
  <2>5. TypeOK'
    BY <2>2, <2>3, <2>4 DEF PolicyInv, TypeOK, surroundings
  <2>6. ASSUME NEW v \in Worker PROVE RequestInv(v)'
    <3>1. RequestInv(v) /\ (requests[v].pc = "stored" => requests[v].subject \in Subject)
      BY RowsTyped, RequestTyped DEF PolicyInv
    <3>2. CASE v = w
      BY <2>4, <3>2, RequestTyped DEF RequestInv
    <3>3. CASE v # w
      BY <2>3, <2>4, <3>1, <3>3 DEF RequestInv
    <3> QED BY <3>2, <3>3
  <2>7. ListsAgree' /\ ObservationsConsistent'
    BY <2>2, KeepsLists
  <2> QED BY <2>3, <2>5, <2>6, <2>7 DEF PolicyInv
<1> QED BY <1>2, <1>3

LEMMA IntentAgesKeeps ==
  ASSUME PolicyInv, NEW s \in Subject, IntentAges(s)
  PROVE  PolicyInv'
<1>1. intents[s] # None /\ intents[s] \in IntentRow
  BY RowsTyped DEF PolicyInv, IntentAges
<1> DEFINE row == [intents[s] EXCEPT !.fresh = FALSE]
<1>2. row \in IntentRow /\ row.artifact = intents[s].artifact /\ row.state = intents[s].state
  BY <1>1 DEF IntentRow
<1>3. /\ intents' = [intents EXCEPT ![s] = row]
      /\ UNCHANGED <<surroundings, probes, evaluations, allocations, observations, requests, receipts>>
  BY DEF IntentAges
<1> HIDE DEF row
<1>4. /\ intents' \in [Subject -> IntentRow \cup {None}]
      /\ \A t \in Subject : IntentInv(t)'
      /\ AllocationJustified'
      /\ \A t \in Subject : intents[t] # None => intents'[t] # None
  BY <1>1, <1>2, <1>3, IntentRewritten
<1>5. TypeOK'
  BY <1>3, <1>4 DEF PolicyInv, TypeOK, surroundings
<1>6. \A w \in Worker : RequestInv(w)'
  BY <1>3, <1>4, KeepsRequests
<1>7. ListsAgree' /\ ObservationsConsistent'
  BY <1>3, KeepsLists
<1> QED BY <1>4, <1>5, <1>6, <1>7 DEF PolicyInv

\* A probe is bound to the newest retained allocation of its artifact.
LEMMA ProbeSourceIs ==
  ASSUME PolicyInv, NEW a \in Artifact, RetainedOf(a) # {}
  PROVE  /\ ProbeSource(a) \in DOMAIN allocations /\ ProbeSource(a) \in 1..MaxAllocations
         /\ allocations[ProbeSource(a)].artifact = a
<1>1. /\ RetainedOf(a) \subseteq 1..Len(allocations) /\ Len(allocations) \in Nat
      /\ Len(allocations) <= MaxAllocations /\ DOMAIN allocations = 1..Len(allocations)
  BY ListsTyped DEF PolicyInv, ListsAgree, RetainedOf
<1>2. \E x \in RetainedOf(a) : \A y \in RetainedOf(a) : y <= x
  <2> DEFINE n == Len(allocations)
             T == {n - x : x \in RetainedOf(a)}
  <2>0. T \subseteq Nat /\ T # {}
    BY <1>1
  <2>1. PICK m \in T : \A k \in T : m <= k
    <3> DEFINE R == {p \in Nat \X Nat : p[1] < p[2]}
    <3>1. IsWellFoundedOn(R, Nat)
      BY NatLessThanWellFounded DEF OpToRel
    <3> HIDE DEF T, R
    <3>2. PICK m \in T : \A k \in T : ~ (<<k, m>> \in R)
      BY <2>0, <3>1, WFMin
    <3>3. ASSUME NEW k \in T, k < m PROVE FALSE
      <4>1. <<k, m>> \in Nat \X Nat /\ <<k, m>>[1] < <<k, m>>[2]
        BY <2>0, <3>3
      <4> QED
        BY <3>2, <4>1 DEF R
    <3> QED
      BY <2>0, <3>3
  <2>2. PICK x \in RetainedOf(a) : m = n - x
    OBVIOUS
  <2>3. \A y \in RetainedOf(a) : n - x <= n - y
    BY <2>1, <2>2
  <2> QED
    BY <1>1, <2>3
<1>3. ProbeSource(a) \in RetainedOf(a)
  BY <1>2 DEF ProbeSource
<1> QED
  BY <1>1, <1>3, BoundsAssumption DEF RetainedOf

LEMMA ProbeKeeps ==
  ASSUME PolicyInv, NEW s \in Subject, NEW a \in Artifact, ResolveRestoreProbe(s, a)
  PROVE  PolicyInv'
<1>0. /\ Bindable(s, a) /\ RetainedOf(a) # {}
      /\ UNCHANGED <<surroundings, evaluations, allocations, observations, requests, receipts>>
  BY DEF ResolveRestoreProbe, ProbeScope
<1>1. PICK x \in 1..MaxAllocations : /\ x = ProbeSource(a) /\ x \in DOMAIN allocations
                                     /\ allocations[x].artifact = a
  BY <1>0, ProbeSourceIs
<1>2. PICK row \in IntentRow :
        /\ row = Issued(Bound(s, a)) /\ row.artifact = a /\ row.state # "consumed"
        /\ intents[s] # None => row.artifact = intents[s].artifact /\ intents[s].state # "consumed"
  BY <1>0, BoundIsKept, IssuedKeeps
<1> DEFINE p == [source |-> x, state |-> "credential_issued"]
<1>3. p \in ProbeRow /\ p.source = x /\ p.state # "consumed" /\ p # None
  BY IntentTyped DEF ProbeRow
<1>4. intents' = [intents EXCEPT ![s] = row] /\ probes' = [probes EXCEPT ![s] = p]
  BY <1>1, <1>2 DEF ResolveRestoreProbe
<1> HIDE DEF p
<1>5. /\ intents' \in [Subject -> IntentRow \cup {None}] /\ intents'[s] = row /\ row # None
      /\ \A t \in Subject \ {s} : intents'[t] = intents[t] /\ probes'[t] = probes[t]
      /\ probes' \in [Subject -> ProbeRow \cup {None}] /\ probes'[s] = p
  BY <1>3, <1>4, IntentTyped DEF PolicyInv, TypeOK
<1>6. TypeOK'
  BY <1>0, <1>5 DEF PolicyInv, TypeOK, surroundings
<1>7. ASSUME NEW t \in Subject PROVE IntentInv(t)'
  <2>1. IntentInv(t)
    BY DEF PolicyInv
  <2>2. CASE t = s
    <3>1. evaluations[s] = None
      BY <1>2, <2>1, <2>2 DEF IntentInv
    <3> QED
      BY <1>0, <1>1, <1>2, <1>3, <1>5, <2>2, <3>1 DEF IntentInv
  <2>3. CASE t # s
    BY <1>0, <1>5, <2>1, <2>3 DEF IntentInv
  <2> QED BY <2>2, <2>3
<1>8. AllocationJustified'
  BY <1>0 DEF PolicyInv, AllocationJustified
<1>9. \A w \in Worker : RequestInv(w)'
  <2>1. \A t \in Subject : intents[t] # None => intents'[t] # None
    BY <1>5
  <2> QED
    BY <1>0, <2>1, KeepsRequests
<1>10. ListsAgree' /\ ObservationsConsistent'
  BY <1>0, KeepsLists
<1> QED BY <1>6, <1>7, <1>8, <1>9, <1>10 DEF PolicyInv

\* An evaluation that is replaced keeps the evidence it rests on.
LEMMA KeepsJustified ==
  ASSUME PolicyInv, UNCHANGED allocations,
         \A s \in Subject : evaluations[s] # None =>
           evaluations'[s] # None /\ evaluations'[s].of = evaluations[s].of
  PROVE  AllocationJustified'
<1>1. \A x \in DOMAIN allocations : allocations[x].evaluation \in Subject
  BY RowsTyped DEF PolicyInv, AllocationRow
<1> QED
  BY <1>1 DEF PolicyInv, AllocationJustified

LEMMA RegisterKeeps ==
  ASSUME PolicyInv, NEW s \in Subject, NEW e \in Evidence, RegisterEvaluation(s, e)
  PROVE  PolicyInv'
<1>0. /\ intents[s] # None /\ intents[s] \in IntentRow /\ intents[s].artifact \in e.seen
      /\ evaluations[s] # None => evaluations[s].of = e
      /\ UNCHANGED <<surroundings, allocations, observations, requests, receipts>>
  BY RowsTyped DEF PolicyInv, RegisterEvaluation, Registrable, SameEvidence
<1>1. PICK st \in {"passed", "failed"} : st = IF Passed(e) THEN "passed" ELSE "failed"
  OBVIOUS
<1>2. PICK x \in BOOLEAN : x = (evaluations[s] # None /\ evaluations[s].expired)
  <2>1. evaluations[s] # None => evaluations[s].expired \in BOOLEAN
    BY RowsTyped DEF PolicyInv, EvaluationRow
  <2> QED BY <2>1
<1> DEFINE v == [state |-> st, of |-> e, expired |-> x]
           row == [intents[s] EXCEPT !.state = "consumed", !.fresh = TRUE]
<1>3. v \in EvaluationRow /\ v # None /\ v.of = e /\ v.state = st
  BY IntentTyped DEF EvaluationRow
<1>4. row \in IntentRow /\ row # None /\ row.artifact = intents[s].artifact /\ row.state = "consumed"
  BY <1>0, IntentTyped DEF IntentRow
<1>5. /\ evaluations' = [evaluations EXCEPT ![s] = v] /\ intents' = [intents EXCEPT ![s] = row]
      /\ probes' = IF probes[s] = None THEN probes ELSE [probes EXCEPT ![s].state = "consumed"]
  BY <1>1, <1>2 DEF RegisterEvaluation, PolicyInv, TypeOK
<1> HIDE DEF v, row
<1>6. /\ evaluations' \in [Subject -> EvaluationRow \cup {None}] /\ evaluations'[s] = v
      /\ intents' \in [Subject -> IntentRow \cup {None}] /\ intents'[s] = row
      /\ \A t \in Subject \ {s} : evaluations'[t] = evaluations[t] /\ intents'[t] = intents[t]
  BY <1>3, <1>4, <1>5 DEF PolicyInv, TypeOK
<1>7. /\ probes' \in [Subject -> ProbeRow \cup {None}]
      /\ \A t \in Subject \ {s} : probes'[t] = probes[t]
      /\ probes[s] = None => probes'[s] = None
      /\ probes[s] # None => probes'[s].state = "consumed" /\ probes'[s].source = probes[s].source
  <2>1. probes \in [Subject -> ProbeRow \cup {None}]
    BY DEF PolicyInv, TypeOK
  <2>2. CASE probes[s] = None
    BY <1>5, <2>1, <2>2
  <2>3. CASE probes[s] # None
    <3> DEFINE p == [probes[s] EXCEPT !.state = "consumed"]
    <3>1. p \in ProbeRow /\ p.state = "consumed" /\ p.source = probes[s].source
      BY <2>1, <2>3 DEF ProbeRow
    <3>2. probes' = [probes EXCEPT ![s] = p]
      BY <1>5, <2>3
    <3> HIDE DEF p
    <3> QED
      BY <2>1, <2>3, <3>1, <3>2
  <2> QED BY <2>2, <2>3
<1>8. TypeOK'
  BY <1>0, <1>6, <1>7 DEF PolicyInv, TypeOK, surroundings
<1>9. ASSUME NEW t \in Subject PROVE IntentInv(t)'
  <2>1. IntentInv(t)
    BY DEF PolicyInv
  <2>2. CASE t = s
    BY <1>0, <1>1, <1>3, <1>4, <1>6, <1>7, <2>1, <2>2 DEF IntentInv
  <2>3. CASE t # s
    BY <1>0, <1>6, <1>7, <2>1, <2>3 DEF IntentInv
  <2> QED BY <2>2, <2>3
<1>10. AllocationJustified'
  BY <1>0, <1>3, <1>6, KeepsJustified
<1>11. \A w \in Worker : RequestInv(w)'
  <2>1. \A t \in Subject : intents[t] # None => intents'[t] # None
    BY <1>4, <1>6
  <2> QED
    BY <1>0, <2>1, KeepsRequests
<1>12. ListsAgree' /\ ObservationsConsistent'
  BY <1>0, KeepsLists
<1> QED BY <1>8, <1>9, <1>10, <1>11, <1>12 DEF PolicyInv

LEMMA ExpiresKeeps ==
  ASSUME PolicyInv, NEW s \in Subject, EvaluationExpires(s)
  PROVE  PolicyInv'
<1>0. /\ evaluations[s] # None /\ evaluations[s] \in EvaluationRow
      /\ UNCHANGED <<surroundings, intents, probes, allocations, observations, requests, receipts>>
  BY RowsTyped DEF PolicyInv, EvaluationExpires
<1> DEFINE v == [evaluations[s] EXCEPT !.expired = TRUE]
<1>1. v \in EvaluationRow /\ v # None /\ v.of = evaluations[s].of /\ v.state = evaluations[s].state
  BY <1>0, IntentTyped DEF EvaluationRow
<1>2. evaluations' = [evaluations EXCEPT ![s] = v]
  BY DEF EvaluationExpires
<1> HIDE DEF v
<1>3. /\ evaluations' \in [Subject -> EvaluationRow \cup {None}] /\ evaluations'[s] = v
      /\ \A t \in Subject \ {s} : evaluations'[t] = evaluations[t]
  BY <1>1, <1>2 DEF PolicyInv, TypeOK
<1>4. TypeOK'
  BY <1>0, <1>3 DEF PolicyInv, TypeOK, surroundings
<1>5. ASSUME NEW t \in Subject PROVE IntentInv(t)'
  <2>1. IntentInv(t)
    BY DEF PolicyInv
  <2> QED
    BY <1>0, <1>1, <1>3, <2>1 DEF IntentInv
<1>6. AllocationJustified'
  BY <1>0, <1>1, <1>3, KeepsJustified
<1>7. \A w \in Worker : RequestInv(w)'
  BY <1>0, KeepsRequests
<1>8. ListsAgree' /\ ObservationsConsistent'
  BY <1>0, KeepsLists
<1> QED BY <1>4, <1>5, <1>6, <1>7, <1>8 DEF PolicyInv

LEMMA CreateKeeps ==
  ASSUME PolicyInv, NEW s \in Subject, NEW a \in Artifact, CreateAllocation(s, a)
  PROVE  PolicyInv'
<1>0. /\ Len(allocations) < MaxAllocations /\ Allows(s, a)
      /\ ~ \E x \in DOMAIN allocations : allocations[x].artifact = a /\ allocations[x].evaluation = s
      /\ UNCHANGED <<surroundings, evidence, observations, requests>>
  BY DEF CreateAllocation
<1>1. PICK n \in Nat : n = Len(allocations) /\ Len(receipts) = n
                       /\ DOMAIN allocations = 1..n
  BY ListsTyped DEF PolicyInv, ListsAgree
<1> DEFINE row == [artifact |-> a, evaluation |-> s, state |-> "allocated"]
<1>2. row \in AllocationRow /\ row.artifact = a /\ row.evaluation = s /\ row.state = "allocated"
  BY DEF AllocationRow, State
<1>3. allocations' = Append(allocations, row) /\ receipts' = Append(receipts, <<>>)
  BY DEF CreateAllocation
<1> HIDE DEF row
<1>4. /\ allocations' \in Seq(AllocationRow) /\ Len(allocations') = n + 1
      /\ DOMAIN allocations' = 1..(n + 1) /\ allocations'[n + 1] = row
      /\ \A x \in 1..n : allocations'[x] = allocations[x]
  BY <1>1, <1>2, <1>3, AppendProperties DEF PolicyInv, TypeOK
<1>5. receipts' \in Seq(Seq(ReceiptState)) /\ Len(receipts') = n + 1
  <2>1. receipts \in Seq(Seq(ReceiptState)) /\ <<>> \in Seq(ReceiptState)
    BY DEF PolicyInv, TypeOK
  <2> QED
    BY <1>1, <1>3, <2>1, AppendProperties
<1>6. TypeOK'
  BY <1>0, <1>4, <1>5 DEF PolicyInv, TypeOK, surroundings, evidence
<1>7. ListsAgree'
  BY <1>0, <1>1, <1>4, <1>5, BoundsAssumption DEF PolicyInv, ListsAgree
<1>8. ASSUME NEW t \in Subject PROVE IntentInv(t)'
  <2>1. IntentInv(t)
    BY DEF PolicyInv
  <2> QED
    BY <1>0, <1>1, <1>4, <2>1 DEF IntentInv, evidence
<1>9. /\ evaluations[s] # None /\ evaluations[s].of.measured /\ evaluations[s].of.claimed
      /\ a \in evaluations[s].of.passing
  BY <1>0, IntentTyped DEF PolicyInv, IntentInv, Allows, Passed
<1>10. AllocationJustified'
  <2>1. ASSUME NEW x \in 1..(n + 1)
        PROVE  LET v == evaluations[allocations'[x].evaluation]
               IN  v # None /\ v.of.measured /\ v.of.claimed /\ allocations'[x].artifact \in v.of.passing
    <3>1. CASE x = n + 1
      BY <1>2, <1>4, <1>9, <3>1
    <3>2. CASE x \in 1..n
      BY <1>1, <1>4, <3>2 DEF PolicyInv, AllocationJustified
    <3> QED BY <3>1, <3>2
  <2>2. ASSUME NEW x \in 1..(n + 1), NEW y \in 1..(n + 1),
               allocations'[x].artifact = allocations'[y].artifact,
               allocations'[x].evaluation = allocations'[y].evaluation
        PROVE  x = y
    <3>1. CASE x \in 1..n /\ y \in 1..n
      BY <1>1, <1>4, <2>2, <3>1 DEF PolicyInv, AllocationJustified
    <3>2. CASE x = n + 1 \/ y = n + 1
      BY <1>0, <1>1, <1>2, <1>4, <2>2, <3>2
    <3> QED BY <3>1, <3>2
  <2> QED
    BY <1>0, <1>4, <2>1, <2>2 DEF AllocationJustified, evidence
<1>11. ObservationsConsistent'
  <2>1. ASSUME NEW x \in 1..n
        PROVE  allocations'[x] = allocations[x] /\ x \in DOMAIN allocations
    BY <1>1, <1>4
  <2>2. \A i \in DOMAIN observations : observations[i].allocation \in 1..n
    BY <1>1 DEF PolicyInv, ListsAgree
  <2>3. \A x : {i \in DOMAIN observations' : observations'[i].allocation = x} = ObservationsOf(x)
    BY <1>0 DEF ObservationsOf
  <2>4. ObservationsOf(n + 1) = {}
    BY <1>1, <2>2 DEF ObservationsOf
  <2> QED
    BY <1>0, <1>1, <1>2, <1>4, <2>1, <2>2, <2>4 DEF PolicyInv, ObservationsConsistent, ObservationsOf
<1>12. \A w \in Worker : RequestInv(w)'
  BY <1>0, KeepsRequests DEF evidence
<1> QED BY <1>6, <1>7, <1>8, <1>10, <1>11, <1>12 DEF PolicyInv

\* A receipt arrives: the allocation shows it, and it is the last one observed.
LEMMA OverIsOver ==
  ASSUME NEW from \in {"stopped", "cleaned"}, NEW to, TransitionAllowed(from, to)
  PROVE  to \in {"stopped", "cleaned"}
BY DEF TransitionAllowed, Transitions

LEMMA RecordKeeps ==
  ASSUME PolicyInv, NEW x \in DOMAIN receipts, NEW n \in DOMAIN receipts[x], RecordObservation(x, n)
  PROVE  PolicyInv'
<1>0. /\ Unseen(x, n)
      /\ UNCHANGED <<surroundings, evidence, requests, receipts>>
  BY DEF RecordObservation
<1>1. /\ x \in DOMAIN allocations /\ x \in 1..MaxAllocations /\ x \in 1..Len(allocations)
      /\ allocations[x] \in AllocationRow
  BY ListsTyped, RowsTyped, BoundsAssumption DEF PolicyInv, ListsAgree
<1>2. PICK to \in ReceiptState : /\ to = receipts[x][n] /\ TransitionAllowed(allocations[x].state, to)
                                 /\ n \in Nat \ {0}
  <2>1. receipts[x] \in Seq(ReceiptState)
    BY DEF PolicyInv, TypeOK
  <2> QED
    BY <2>1 DEF RecordObservation
<1> DEFINE o == [allocation |-> x, receipt |-> n, state |-> to]
           row == [allocations[x] EXCEPT !.state = to]
<1>3. o \in ObservationRow /\ o.allocation = x /\ o.receipt = n /\ o.state = to
  BY <1>1, <1>2 DEF ObservationRow
<1>4. /\ row \in AllocationRow /\ row.state = to /\ row.artifact = allocations[x].artifact
      /\ row.evaluation = allocations[x].evaluation
  BY <1>1, <1>2 DEF AllocationRow, ReceiptState
<1>5. observations' = Append(observations, o) /\ allocations' = [allocations EXCEPT ![x] = row]
  BY <1>2 DEF RecordObservation
<1> HIDE DEF o, row
<1>6. PICK k \in Nat : k = Len(observations) /\ DOMAIN observations = 1..k
  BY ListsTyped DEF PolicyInv
<1>7. /\ observations' \in Seq(ObservationRow) /\ DOMAIN observations' = 1..(k + 1)
      /\ observations'[k + 1] = o /\ \A i \in 1..k : observations'[i] = observations[i]
  BY <1>3, <1>5, <1>6, AppendProperties DEF PolicyInv, TypeOK
<1>8. /\ allocations' \in Seq(AllocationRow) /\ Len(allocations') = Len(allocations)
      /\ DOMAIN allocations' = DOMAIN allocations /\ allocations'[x] = row
      /\ \A y \in DOMAIN allocations \ {x} : allocations'[y] = allocations[y]
  <2>1. allocations \in Seq(AllocationRow)
    BY DEF PolicyInv, TypeOK
  <2>2. allocations' \in Seq(AllocationRow) /\ Len(allocations') = Len(allocations)
    BY <1>1, <1>4, <1>5, <2>1, ExceptSeq
  <2> QED
    BY <1>1, <1>5, <2>1, <2>2
<1>9. /\ \A y \in DOMAIN allocations : /\ allocations'[y].artifact = allocations[y].artifact
                                       /\ allocations'[y].evaluation = allocations[y].evaluation
  BY <1>4, <1>8
<1>10. TypeOK'
  BY <1>0, <1>7, <1>8 DEF PolicyInv, TypeOK, surroundings, evidence
<1>11. ListsAgree'
  <2>1. \A i \in 1..(k + 1) : observations'[i].allocation \in DOMAIN allocations
    BY <1>1, <1>3, <1>6, <1>7 DEF PolicyInv, ListsAgree
  <2> QED
    BY <1>0, <1>7, <1>8, <2>1 DEF PolicyInv, ListsAgree
<1>12. ASSUME NEW s \in Subject PROVE IntentInv(s)'
  <2>1. IntentInv(s)
    BY DEF PolicyInv
  <2> QED
    BY <1>0, <1>8, <1>9, <2>1 DEF IntentInv, evidence
<1>13. AllocationJustified'
  BY <1>0, <1>8, <1>9 DEF PolicyInv, AllocationJustified, evidence
<1>14. \A w \in Worker : RequestInv(w)'
  BY <1>0, KeepsRequests DEF evidence
<1>15. ASSUME NEW y \in DOMAIN allocations
       PROVE  /\ \/ ObservationsOf(y)' = {} /\ allocations'[y].state = "allocated"
                 \/ \E last \in ObservationsOf(y)' :
                      /\ \A i \in ObservationsOf(y)' : i <= last
                      /\ allocations'[y].state = observations'[last].state
              /\ \A i, j \in ObservationsOf(y)' :
                   /\ observations'[i].receipt = observations'[j].receipt => i = j
                   /\ i < j /\ observations'[i].state \in {"stopped", "cleaned"} =>
                        observations'[j].state \in {"stopped", "cleaned"}
  <2>0. /\ \/ ObservationsOf(y) = {} /\ allocations[y].state = "allocated"
           \/ \E last \in ObservationsOf(y) :
                /\ \A i \in ObservationsOf(y) : i <= last
                /\ allocations[y].state = observations[last].state
        /\ \A i, j \in ObservationsOf(y) :
             /\ observations[i].receipt = observations[j].receipt => i = j
             /\ i < j /\ observations[i].state \in {"stopped", "cleaned"} =>
                  observations[j].state \in {"stopped", "cleaned"}
    BY DEF PolicyInv, ObservationsConsistent
  <2>1. CASE y # x
    <3>1. ObservationsOf(y)' = ObservationsOf(y) /\ ObservationsOf(y) \subseteq 1..k
      BY <1>3, <1>6, <1>7, <2>1 DEF ObservationsOf
    <3>2. allocations'[y] = allocations[y]
      BY <1>8, <2>1
    <3>3. \A i \in ObservationsOf(y) : observations'[i] = observations[i]
      BY <1>7, <3>1
    <3> QED
      BY <2>0, <3>1, <3>2, <3>3
  <2>2. CASE y = x
    <3>1. ObservationsOf(x)' = ObservationsOf(x) \cup {k + 1} /\ ObservationsOf(x) \subseteq 1..k
      BY <1>3, <1>6, <1>7 DEF ObservationsOf
    <3>2. \A i \in ObservationsOf(x)' : i <= k + 1
      BY <3>1
    <3>3. allocations'[x].state = observations'[k + 1].state
      BY <1>3, <1>4, <1>7, <1>8
    <3>4. \A i \in ObservationsOf(x) : observations[i].receipt # n
      BY <1>0 DEF Unseen, ObservationsOf
    <3>5. ASSUME NEW i \in ObservationsOf(x), observations[i].state \in {"stopped", "cleaned"}
          PROVE  to \in {"stopped", "cleaned"}
      <4>1. PICK last \in ObservationsOf(x) : /\ i <= last
                                              /\ allocations[x].state = observations[last].state
        BY <2>0, <2>2, <3>5
      <4>2. observations[last].state \in {"stopped", "cleaned"}
        BY <2>0, <2>2, <3>1, <3>5, <4>1
      <4> QED
        BY <1>2, <4>1, <4>2, OverIsOver
    <3>6. ASSUME NEW i \in ObservationsOf(x)', NEW j \in ObservationsOf(x)'
          PROVE  /\ observations'[i].receipt = observations'[j].receipt => i = j
                 /\ i < j /\ observations'[i].state \in {"stopped", "cleaned"} =>
                      observations'[j].state \in {"stopped", "cleaned"}
      <4>1. CASE i \in ObservationsOf(x) /\ j \in ObservationsOf(x)
        BY <1>7, <2>0, <2>2, <3>1, <4>1
      <4>2. CASE i \in ObservationsOf(x) /\ j = k + 1
        BY <1>3, <1>7, <3>1, <3>4, <3>5, <4>2
      <4>3. CASE i = k + 1
        BY <1>3, <1>7, <3>1, <3>2, <3>4, <4>3
      <4> QED BY <3>1, <4>1, <4>2, <4>3
    <3> QED
      BY <2>2, <3>1, <3>2, <3>3, <3>6
  <2> QED BY <2>1, <2>2
<1>16. ObservationsConsistent'
  BY <1>8, <1>15 DEF ObservationsConsistent
<1> QED BY <1>10, <1>11, <1>12, <1>13, <1>14, <1>16 DEF PolicyInv

LEMMA ReportsKeep ==
  ASSUME PolicyInv, NEW x \in DOMAIN receipts, NEW to \in ReceiptState, ExecutorReports(x, to)
  PROVE  PolicyInv'
<1>0. UNCHANGED <<surroundings, evidence, allocations, observations, requests>>
  BY DEF ExecutorReports
<1>1. receipts \in Seq(Seq(ReceiptState)) /\ receipts[x] \in Seq(ReceiptState)
      /\ x \in 1..Len(receipts)
  BY ListsTyped DEF PolicyInv, TypeOK
<1>2. PICK r \in Seq(ReceiptState) : r = Append(receipts[x], to)
  BY <1>1, AppendProperties
<1>3. receipts' = [receipts EXCEPT ![x] = r]
  BY <1>2 DEF ExecutorReports
<1>4. receipts' \in Seq(Seq(ReceiptState)) /\ Len(receipts') = Len(receipts)
  BY <1>1, <1>3, ExceptSeq
<1>5. TypeOK'
  BY <1>0, <1>4 DEF PolicyInv, TypeOK, surroundings, evidence
<1>6. \A w \in Worker : RequestInv(w)'
  BY <1>0, KeepsRequests DEF evidence
<1>7. (\A s \in Subject : IntentInv(s)') /\ AllocationJustified'
  BY <1>0, KeepsIntents DEF evidence
<1>8. ListsAgree' /\ ObservationsConsistent'
  BY <1>0, <1>4, KeepsLists
<1> QED BY <1>5, <1>6, <1>7, <1>8 DEF PolicyInv

LEMMA InitKeeps == Init => PolicyInv
<1> SUFFICES ASSUME Init PROVE PolicyInv
  OBVIOUS
<1>1. TypeOK
  BY DEF Init, TypeOK
<1>2. ListsAgree /\ ObservationsConsistent /\ AllocationJustified
  BY BoundsAssumption DEF Init, ListsAgree, ObservationsConsistent, AllocationJustified
<1>3. (\A w \in Worker : RequestInv(w)) /\ \A s \in Subject : IntentInv(s)
  BY RequestTyped DEF Init, RequestInv, IntentInv
<1> QED BY <1>1, <1>2, <1>3 DEF PolicyInv

LEMMA StepKeeps ==
  ASSUME PolicyInv, [Next]_vars
  PROVE  PolicyInv'
<1>0. /\ lifecycle \in [Artifact -> {"queued", "healthy"}] /\ slot \in {"held", "released"}
      /\ database \in {"drilled", "ready", "unusable"}
  BY DEF PolicyInv, TypeOK
<1>1. CASE UNCHANGED vars
  BY <1>0, <1>1, SurroundingsKeep DEF vars, evidence
<1>2. CASE SlotReleased \/ \E to \in {"drilled", "ready", "unusable"} : DatabaseChanges(to)
  BY <1>0, <1>2, SurroundingsKeep DEF SlotReleased, DatabaseChanges
<1>3. ASSUME NEW a \in Artifact, DeploymentHealthy(a) PROVE PolicyInv'
  BY <1>0, <1>3, SurroundingsKeep DEF DeploymentHealthy
<1>4. CASE Surroundings
  BY <1>2, <1>3, <1>4, IntentAgesKeeps, ExpiresKeeps, ReportsKeep DEF Surroundings
<1>5. ASSUME NEW w \in Worker,
             \/ \E s \in Subject, a \in Artifact : ScopeRead(w, s, a)
             \/ IntentStored(w) \/ CredentialIssued(w) \/ RequestDies(w)
      PROVE  PolicyInv'
  BY <1>5, ScopeReadKeeps, IntentStoredKeeps, CredentialIssuedKeeps, RequestDiesKeeps
<1>6. ASSUME NEW s \in Subject, NEW a \in Artifact, ResolveRestoreProbe(s, a) \/ CreateAllocation(s, a)
      PROVE  PolicyInv'
  BY <1>6, ProbeKeeps, CreateKeeps
<1> QED
  BY <1>1, <1>4, <1>5, <1>6, RegisterKeeps, RecordKeeps DEF Next

-----------------------------------------------------------------------------
(* What holds in every behaviour. *)

\* Every row is one its table can hold.
THEOREM TypeCorrect == Spec => []TypeOK
<1>1. PolicyInv => TypeOK
  BY DEF PolicyInv
<1> QED BY <1>1, InitKeeps, StepKeeps, PTL DEF Spec

\* An intent is consumed exactly when it has its evaluation, and for good: a
\* credential request between two statements does not bring it back.
THEOREM ConsumedOnce == Spec => []IntentConsumedOnce
<1>1. PolicyInv => IntentConsumedOnce
  BY DEF PolicyInv, IntentInv, IntentConsumedOnce
<1> QED BY <1>1, InitKeeps, StepKeeps, PTL DEF Spec

\* Every allocation keeps the evidence it was made on, and is the only one made
\* on it.
THEOREM AlwaysJustified == Spec => []AllocationJustified
<1>1. PolicyInv => AllocationJustified
  BY DEF PolicyInv
<1> QED BY <1>1, InitKeeps, StepKeeps, PTL DEF Spec

\* Late, repeated and reordered receipts never bring back what has stopped.
THEOREM AlwaysConsistent == Spec => []ObservationsConsistent
<1>1. PolicyInv => ObservationsConsistent
  BY DEF PolicyInv
<1> QED BY <1>1, InitKeeps, StepKeeps, PTL DEF Spec
=============================================================================
