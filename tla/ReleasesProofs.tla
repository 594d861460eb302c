--------------------------- MODULE ReleasesProofs ---------------------------
(***************************************************************************)
(* Machine-checked proofs about Releases, for any projects, releases,      *)
(* migrations, attempt limit, retention and number of reconciliations,     *)
(* leases and faults.                                                      *)
(***************************************************************************)
EXTENDS Releases, FiniteSetTheorems, SequenceTheorems, WellFoundedInduction, TLAPS

-----------------------------------------------------------------------------
(* The inductive invariant. *)

Owned(c) == recs[c].state \in {"running", "prepared"}

\* Who works on a reconciliation holds its last attempt.
AttemptInv(c) ==
  /\ Owned(c) => Last(c) # 0 /\ attempts[c][Last(c)] = [fence |-> recs[c].fence, state |-> "running"]
  /\ \A n \in DOMAIN attempts[c] : attempts[c][n].state = "running" => n = Last(c) /\ Owned(c)

RecInv(c) ==
  /\ recs[c].state = "absent" => recs[c] = NoRec
  /\ recs[c].state # "absent" =>
       /\ recs[c].release \in Release /\ recs[c].kind \in {"promote", "rollback"}
       /\ releases[recs[c].release].state # "absent"
  /\ recs[c].state = "prepared" =>
       /\ recs[c].expected = route[ProjectOf(c)].generation
       /\ recs[c].release \in Migrating => migrations[recs[c].release].state = "applied"
  /\ recs[c].state = "succeeded" =>
       /\ Generation(c) <= route[ProjectOf(c)].generation
       /\ Generation(c) = route[ProjectOf(c)].generation => recs[c].release = route[ProjectOf(c)].release

OneActive ==
  \A c, d \in Rec :
    recs[c].state \in Active /\ recs[d].state \in Active /\ ProjectOf(c) = ProjectOf(d) => c = d

\* The operation of a migration is the one its state waits for, and nothing is
\* done for a release before it is staged.
MigrationInv(r) ==
  /\ migrations[r].operation = "trial" => migrations[r].state = "planned"
  /\ migrations[r].operation = "live" => migrations[r].state = "isolated_validated"
  /\ migrations[r].state # "none" => migrations[r].current # Nothing
  /\ releases[r].state = "absent" => /\ migrations[r].state \in {"none", "planned"}
                                     /\ migrations[r].operation = "none"

OwnerInv(p) ==
  owner[p].kind # "none" =>
    /\ owner[p].release \in Release /\ Home[owner[p].release] = p
    /\ owner[p].kind = "promote" <=> releases[owner[p].release].state = "absent"

\* The routed release is of the project, and promotions are in order.
RouteInv(p) ==
  /\ route[p].release # Nothing =>
       /\ Home[route[p].release] = p /\ releases[route[p].release].state = "healthy"
       /\ route[p].release \in Migrating => migrations[route[p].release].state = "applied"
  /\ \A r \in Healthy(p) : releases[r].promoted <= route[p].generation
  /\ \A r, s \in Healthy(p) : releases[r].promoted = releases[s].promoted => r = s
  /\ Cardinality(Healthy(p)) <= Retained + 1

\* A worker that got to the switch works on a reconciliation that is prepared
\* or done, and once one has switched, the project is served.
WorkInv(c, f) ==
  /\ worker[c][f] # "none" => recs[c].state # "absent"
  /\ worker[c][f] \in {"prepared", "replacing", "switched"} => recs[c].state \in {"prepared", "succeeded"}
  /\ worker[c][f] = "switched" => gateway[ProjectOf(c)] # Nothing

\* What the gateway serves was prepared for this project and not given up.
GatewayInv(p) ==
  /\ gateway[p] = Nothing => route[p].generation = 0
  /\ gateway[p] # Nothing => recs[gateway[p]].state \in {"prepared", "succeeded"}
                             /\ ProjectOf(gateway[p]) = p

ReleasesInv ==
  /\ TypeOK
  /\ \A c \in Rec : AttemptInv(c) /\ RecInv(c)
  /\ OneActive
  /\ \A r \in Release : MigrationInv(r)
  /\ \A p \in Projects : OwnerInv(p) /\ RouteInv(p)
  /\ \A c \in Rec, f \in Fence : WorkInv(c, f)
  /\ \A p \in Projects : GatewayInv(p)
  /\ AppliedWasValidated

-----------------------------------------------------------------------------
(* Rows. *)

AttemptState == {"running", "succeeded", "retriable", "failed", "expired"}
WorkerState == {"none", "working", "prepared", "replacing", "switched"}

LEMMA Bounds ==
  /\ MaxFence \in Nat /\ Faults \in Nat /\ MaxRecs \in Nat /\ MaxAttempts \in Nat /\ Retained \in Nat
  /\ Release = 1..Len(Home) /\ Len(Home) \in Nat /\ Nothing \notin Release /\ Nothing \notin Rec
  /\ \A r \in Release : Home[r] \in Projects
  /\ Migrating \subseteq Release
BY BoundsAssumption DEF Release, Nothing, Rec

LEMMA RecTyped ==
  /\ NoRec \in RecRow /\ NoRec.state = "absent"
  /\ \A row \in RecRow :
       /\ row.state \in RecState /\ row.release \in Release \union {Nothing}
       /\ row.kind \in {"none", "promote", "rollback"} /\ row.expected \in Nat
       /\ row.fence \in 0..MaxFence /\ row.lease \in {"none", "live", "lapsed"}
       /\ row.phase \in Phase /\ row.previous \in Release \union {Nothing}
BY Bounds DEF NoRec, RecRow, RecState, Phase, Nothing

LEMMA TablesTyped ==
  ASSUME TypeOK
  PROVE  /\ \A r \in Release : /\ releases[r] \in ReleaseRow /\ migrations[r] \in MigrationRow
                               /\ lost[r] \subseteq Losses
         /\ \A c \in Rec : /\ recs[c] \in RecRow /\ attempts[c] \in Seq(Attempt)
                           /\ Len(attempts[c]) \in Nat /\ DOMAIN attempts[c] = 1..Len(attempts[c])
                           /\ \A n \in DOMAIN attempts[c] : attempts[c][n] \in Attempt
         /\ \A p \in Projects : /\ route[p] \in RouteRow /\ owner[p] \in RequestRow
                                /\ gateway[p] \in Rec \union {Nothing}
         /\ \A c \in Rec, f \in Fence : worker[c][f] \in WorkerState
<1>1. /\ releases \in [Release -> ReleaseRow] /\ migrations \in [Release -> MigrationRow]
      /\ lost \in [Release -> SUBSET Losses] /\ recs \in [Rec -> RecRow]
      /\ attempts \in [Rec -> Seq(Attempt)] /\ route \in [Projects -> RouteRow]
      /\ owner \in [Projects -> RequestRow] /\ gateway \in [Projects -> Rec \union {Nothing}]
      /\ worker \in [Rec -> [Fence -> WorkerState]]
  BY DEF TypeOK, WorkerState
<1> QED BY <1>1

LEMMA RouteTyped ==
  \A row \in RouteRow : row.release \in Release \union {Nothing} /\ row.generation \in Nat
BY DEF RouteRow

LEMMA ReleaseTyped ==
  /\ \A row \in ReleaseRow : row.state \in ReleaseState /\ row.promoted \in Nat
  /\ \A row \in ReleaseRow, st \in ReleaseState :
       LET new == [row EXCEPT !.state = st]
       IN  new \in ReleaseRow /\ new.state = st /\ new.promoted = row.promoted
BY DEF ReleaseRow

LEMMA MigrationTyped ==
  \A row \in MigrationRow :
    /\ row.state \in MigrationState /\ row.operation \in Operation
    /\ row.current \in Release \union {Nothing} /\ row.retained \subseteq Release
BY DEF MigrationRow

LEMMA RequestTyped ==
  /\ NoRequest \in RequestRow /\ NoRequest.kind = "none"
  /\ \A row \in RequestRow :
       /\ row.kind \in {"none", "promote", "rollback"} /\ row.release \in Release \union {Nothing}
       /\ row.expected \in Nat
BY DEF NoRequest, RequestRow, Nothing

LEMMA AttemptTyped ==
  /\ \A row \in Attempt : row.fence \in Nat /\ row.state \in AttemptState
  /\ \A n \in Nat, st \in AttemptState : [fence |-> n, state |-> st] \in Attempt
BY DEF Attempt, AttemptState

LEMMA FinishedIs ==
  ASSUME TypeOK, NEW c \in Rec, NEW st \in RecState
  PROVE  /\ Finished(c, st) \in RecRow /\ Finished(c, st).state = st
         /\ Finished(c, st).release = recs[c].release /\ Finished(c, st).kind = recs[c].kind
         /\ Finished(c, st).expected = recs[c].expected /\ Finished(c, st).fence = recs[c].fence
<1>1. recs[c] \in RecRow
  BY TablesTyped
<1> QED
  BY <1>1 DEF Finished, RecRow

-----------------------------------------------------------------------------
(* Attempts. *)

\* The last attempt of c ends in state st, and no other moves.
Ended(old, new, st) ==
  /\ new \in Seq(Attempt) /\ Len(new) = Len(old) /\ DOMAIN new = DOMAIN old
  /\ \A n \in DOMAIN old : n # Len(old) => new[n] = old[n]
  /\ new[Len(old)].state = st

LEMMA EndsIs ==
  ASSUME TypeOK, NEW c \in Rec, Last(c) # 0, NEW st \in AttemptState
  PROVE  /\ Ends(c, st) \in [Rec -> Seq(Attempt)]
         /\ \A d \in Rec : d # c => Ends(c, st)[d] = attempts[d]
         /\ Ended(attempts[c], Ends(c, st)[c], st)
<1>1. /\ attempts \in [Rec -> Seq(Attempt)] /\ attempts[c] \in Seq(Attempt)
      /\ Len(attempts[c]) \in Nat /\ Len(attempts[c]) # 0 /\ DOMAIN attempts[c] = 1..Len(attempts[c])
  BY TablesTyped DEF TypeOK, Last
<1>a. Len(attempts[c]) \in 1..Len(attempts[c])
  BY <1>1
<1>2. PICK n \in 1..Len(attempts[c]) : n = Len(attempts[c])
  BY <1>a
<1> DEFINE row == [attempts[c][n] EXCEPT !.state = st]
           new == [attempts[c] EXCEPT ![n] = row]
<1>3. attempts[c][n] \in Attempt
  BY <1>1, <1>2
<1>4. row \in Attempt /\ row.state = st
  BY <1>3 DEF Attempt, AttemptState
<1>5. Ends(c, st) = [attempts EXCEPT ![c] = new]
  BY <1>2 DEF Ends, Last
<1> HIDE DEF row
<1>6. /\ new \in Seq(Attempt) /\ Len(new) = Len(attempts[c]) /\ DOMAIN new = DOMAIN attempts[c]
      /\ \A m \in 1..Len(attempts[c]) : new[m] = IF m = n THEN row ELSE attempts[c][m]
  <2>1. /\ new \in Seq(Attempt) /\ Len(new) = Len(attempts[c])
        /\ \A m \in 1..Len(attempts[c]) : new[m] = IF m = n THEN row ELSE attempts[c][m]
    BY <1>1, <1>4, ExceptSeq
  <2> QED BY <1>1, <2>1
<1> HIDE DEF new
<1>7. Ended(attempts[c], new, st)
  BY <1>1, <1>2, <1>4, <1>6 DEF Ended
<1>8. Ends(c, st)[c] = new /\ Ends(c, st) \in [Rec -> Seq(Attempt)]
  BY <1>1, <1>5, <1>6
<1>9. \A d \in Rec : d # c => Ends(c, st)[d] = attempts[d]
  BY <1>1, <1>5
<1> QED BY <1>7, <1>8, <1>9

LEMMA AttemptKept ==
  ASSUME NEW c \in Rec, AttemptInv(c), attempts'[c] = attempts[c],
         recs'[c].state = recs[c].state, recs'[c].fence = recs[c].fence
  PROVE  AttemptInv(c)'
BY DEF AttemptInv, Owned, Last

\* A reconciliation whose last attempt ended is nobody's.
LEMMA AttemptEnded ==
  ASSUME TypeOK, NEW c \in Rec, AttemptInv(c), NEW st \in AttemptState \ {"running"},
         Ended(attempts[c], attempts'[c], st), recs'[c].state \notin {"running", "prepared"}
  PROVE  AttemptInv(c)'
<1>1. /\ DOMAIN attempts[c] = 1..Len(attempts[c]) /\ Len(attempts[c]) \in Nat
      /\ DOMAIN attempts'[c] = DOMAIN attempts[c]
  BY TablesTyped DEF Ended
<1>2. ASSUME NEW n \in DOMAIN attempts'[c] PROVE attempts'[c][n].state # "running"
  BY <1>1, <1>2 DEF Ended, AttemptInv, Last
<1> QED
  BY <1>2 DEF AttemptInv, Owned

-----------------------------------------------------------------------------
(* What survives when the tables it reads do. *)

\* Reconciliation c is neither inserted nor prepared nor activated: it keeps
\* what was requested, and what was prepared stays so.
SameRec(c) ==
  /\ recs'[c].release = recs[c].release /\ recs'[c].kind = recs[c].kind
  /\ recs'[c].expected = recs[c].expected
  /\ recs'[c].state \in Active => recs[c].state \in Active
  /\ recs'[c].state = "absent" <=> recs[c].state = "absent"
  /\ recs'[c].state = "prepared" <=> recs[c].state = "prepared"
  /\ recs'[c].state = "succeeded" <=> recs[c].state = "succeeded"
  /\ recs[c].state = "absent" => recs'[c] = recs[c]

SameRecs == \A c \in Rec : SameRec(c)

\* No release is staged, promoted or retired.
SameReleases ==
  \A r \in Release : /\ releases'[r].state = "healthy" <=> releases[r].state = "healthy"
                     /\ releases'[r].state = "absent" <=> releases[r].state = "absent"
                     /\ releases'[r].promoted = releases[r].promoted

\* An applied migration stays so, and a migration is validated as it was planned.
SameMigrations ==
  \A r \in Release :
    /\ migrations[r].state = "applied" => migrations'[r].state = "applied"
    /\ migrations'[r].state \in {"isolated_validated", "applied"} =>
         /\ migrations[r].state \in {"isolated_validated", "applied"}
         /\ migrations'[r].current = migrations[r].current
         /\ migrations'[r].retained = migrations[r].retained

AppliedStays ==
  \A r \in Release : migrations[r].state = "applied" => migrations'[r].state = "applied"

\* A worker goes on with nothing that it may not do.
SameWork ==
  \A c \in Rec, f \in Fence :
    \/ worker'[c][f] = worker[c][f]
    \/ worker'[c][f] = "none"
    \/ worker'[c][f] = "working" /\ recs'[c].state # "absent"
    \/ worker'[c][f] = "prepared" /\ recs'[c].state = "prepared"

LEMMA Unmoved ==
  /\ UNCHANGED recs => SameRecs
  /\ UNCHANGED releases => SameReleases
  /\ UNCHANGED migrations => SameMigrations
  /\ SameMigrations => AppliedStays
  /\ UNCHANGED worker => SameWork
BY DEF AppliedStays, SameRecs, SameRec, SameReleases, SameMigrations, SameWork

LEMMA InvTyped == ReleasesInv => TypeOK
BY DEF ReleasesInv

\* The release of a reconciliation that was requested.
LEMMA RequestedIs ==
  ASSUME ReleasesInv, NEW c \in Rec, recs[c].state # "absent"
  PROVE  /\ recs[c].release \in Release /\ ProjectOf(c) \in Projects
         /\ recs[c].kind \in {"promote", "rollback"} /\ releases[recs[c].release].state # "absent"
BY Bounds DEF ReleasesInv, RecInv, ProjectOf

LEMMA SameProject ==
  ASSUME NEW c \in Rec, SameRec(c)
  PROVE  ProjectOf(c)' = ProjectOf(c) /\ Generation(c)' = Generation(c)
BY Bounds DEF SameRec, ProjectOf, Generation

LEMMA HealthySame ==
  ASSUME SameReleases, NEW p
  PROVE  Healthy(p)' = Healthy(p)
BY DEF SameReleases, Healthy, Of

LEMMA KeepsRecs ==
  ASSUME ReleasesInv, SameRecs, SameReleases, AppliedStays, UNCHANGED route
  PROVE  \A c \in Rec : RecInv(c)'
<1>1. ASSUME NEW c \in Rec PROVE RecInv(c)'
  <2>1. RecInv(c) /\ SameRec(c) /\ ProjectOf(c)' = ProjectOf(c) /\ Generation(c)' = Generation(c)
    BY SameProject DEF ReleasesInv, SameRecs
  <2>2. recs[c].state # "absent" => recs[c].release \in Release
    BY RequestedIs
  <2> QED
    BY <2>1, <2>2 DEF RecInv, SameRec, SameReleases, AppliedStays
<1> QED BY <1>1

LEMMA KeepsOneActive ==
  ASSUME ReleasesInv, SameRecs
  PROVE  OneActive'
BY SameProject DEF ReleasesInv, OneActive, SameRecs, SameRec, ProjectOf

LEMMA KeepsMigrations ==
  ASSUME ReleasesInv, SameReleases, UNCHANGED migrations
  PROVE  \A r \in Release : MigrationInv(r)'
BY DEF ReleasesInv, MigrationInv, SameReleases

LEMMA KeepsOwner ==
  ASSUME ReleasesInv, SameReleases, UNCHANGED owner
  PROVE  \A p \in Projects : OwnerInv(p)'
BY DEF ReleasesInv, OwnerInv, SameReleases

LEMMA KeepsRoute ==
  ASSUME ReleasesInv, SameReleases, AppliedStays, UNCHANGED route
  PROVE  \A p \in Projects : RouteInv(p)'
<1>1. ASSUME NEW p \in Projects PROVE RouteInv(p)'
  <2>1. RouteInv(p) /\ Healthy(p)' = Healthy(p) /\ Healthy(p) \subseteq Release
    BY HealthySame DEF ReleasesInv, Healthy, Of
  <2>2. route[p].release # Nothing => route[p].release \in Release
    BY InvTyped, TablesTyped, RouteTyped
  <2> QED
    BY <2>1, <2>2 DEF RouteInv, SameReleases, AppliedStays
<1> QED BY <1>1

LEMMA KeepsWork ==
  ASSUME ReleasesInv, SameRecs, SameWork, UNCHANGED gateway
  PROVE  \A c \in Rec, f \in Fence : WorkInv(c, f)'
<1>1. ASSUME NEW c \in Rec, NEW f \in Fence PROVE WorkInv(c, f)'
  <2>1. WorkInv(c, f) /\ SameRec(c) /\ ProjectOf(c)' = ProjectOf(c)
    BY SameProject DEF ReleasesInv, SameRecs
  <2>2. \/ worker'[c][f] = worker[c][f]
        \/ worker'[c][f] = "none"
        \/ worker'[c][f] = "working" /\ recs'[c].state # "absent"
        \/ worker'[c][f] = "prepared" /\ recs'[c].state = "prepared"
    BY DEF SameWork
  <2> QED
    BY <2>1, <2>2 DEF WorkInv, SameRec
<1> QED BY <1>1

LEMMA KeepsGateway ==
  ASSUME ReleasesInv, SameRecs, UNCHANGED <<gateway, route>>
  PROVE  \A p \in Projects : GatewayInv(p)'
<1>1. ASSUME NEW p \in Projects PROVE GatewayInv(p)'
  <2>1. GatewayInv(p) /\ gateway[p] \in Rec \union {Nothing}
    BY InvTyped, TablesTyped DEF ReleasesInv
  <2>2. CASE gateway[p] = Nothing
    BY <2>1, <2>2 DEF GatewayInv
  <2>3. ASSUME NEW c \in Rec, c = gateway[p] PROVE GatewayInv(p)'
    <3>1. SameRec(c) /\ ProjectOf(c)' = ProjectOf(c)
      BY SameProject DEF SameRecs
    <3> QED BY <2>1, <2>3, <3>1, Bounds DEF GatewayInv, SameRec, ProjectOf
  <2> QED BY <2>1, <2>2, <2>3
<1> QED BY <1>1

LEMMA KeepsValidated ==
  ASSUME ReleasesInv, SameRecs, SameReleases, SameMigrations
  PROVE  AppliedWasValidated'
<1>1. ASSUME NEW c \in Rec, NEW r \in Migrating, recs'[c].release = r, recs'[c].state \in Active,
             recs'[c].kind = "promote", migrations'[r].state \in {"isolated_validated", "applied"}
      PROVE  Healthy(Home[r])' = migrations'[r].retained \union {migrations'[r].current}
  <2>1. r \in Release
    BY Bounds
  <2>2. /\ recs[c].release = r /\ recs[c].state \in Active /\ recs[c].kind = "promote"
        /\ migrations[r].state \in {"isolated_validated", "applied"}
        /\ migrations'[r].current = migrations[r].current
        /\ migrations'[r].retained = migrations[r].retained
    BY <1>1, <2>1 DEF SameRecs, SameRec, SameMigrations
  <2>3. Healthy(Home[r]) = migrations[r].retained \union {migrations[r].current}
    BY <1>1, <2>1, <2>2 DEF ReleasesInv, AppliedWasValidated
  <2>4. Healthy(Home[r])' = Healthy(Home[r])
    BY HealthySame
  <2> QED
    BY <2>2, <2>3, <2>4
<1> QED BY <1>1 DEF AppliedWasValidated, Healthy, Of

\* A step of a lease, of a worker or of time: what is requested, prepared,
\* routed and served stays.
LEMMA QuietStep ==
  ASSUME ReleasesInv, TypeOK', SameRecs, SameReleases, SameWork,
         \A c \in Rec : AttemptInv(c)', UNCHANGED <<migrations, route, owner, gateway>>
  PROVE  ReleasesInv'
BY Unmoved, KeepsRecs, KeepsOneActive, KeepsMigrations, KeepsOwner, KeepsRoute, KeepsWork,
   KeepsGateway, KeepsValidated DEF ReleasesInv

-----------------------------------------------------------------------------
(* Steps that only lose something: a worker's process, a lease, a fact. *)

LEMMA WorkerMoves ==
  ASSUME TypeOK, NEW c \in Rec, NEW f \in Fence, NEW w \in WorkerState,
         worker' = [worker EXCEPT ![c][f] = w]
  PROVE  /\ worker' \in [Rec -> [Fence -> WorkerState]]
         /\ \A d \in Rec, g \in Fence : worker'[d][g] = IF d = c /\ g = f THEN w ELSE worker[d][g]
<1>1. worker \in [Rec -> [Fence -> WorkerState]]
  BY DEF TypeOK, WorkerState
<1> HIDE DEF WorkerState
<1> QED BY <1>1

LEMMA WorkerStops ==
  ASSUME ReleasesInv, NEW c \in Rec, NEW f \in Fence, worker' = [worker EXCEPT ![c][f] = "none"],
         faults' \in 0..Faults,
         UNCHANGED <<releases, migrations, recs, attempts, route, owner, gateway, lost>>
  PROVE  ReleasesInv'
<1>0. TypeOK /\ "none" \in WorkerState
  BY InvTyped DEF WorkerState
<1>1. /\ worker' \in [Rec -> [Fence -> WorkerState]]
      /\ \A d \in Rec, g \in Fence : worker'[d][g] = IF d = c /\ g = f THEN "none" ELSE worker[d][g]
  BY <1>0, WorkerMoves
<1>2. SameWork
  BY <1>1 DEF SameWork
<1>3. TypeOK'
  BY <1>1, InvTyped DEF TypeOK, WorkerState, Last
<1>4. \A d \in Rec : AttemptInv(d)'
  BY DEF ReleasesInv, AttemptInv, Owned, Last
<1> QED BY <1>2, <1>3, <1>4, Unmoved, QuietStep

LEMMA RefusalKeeps ==
  ASSUME ReleasesInv, NEW c \in Rec, NEW f \in Fence,
         CompletionRefused(c, f) \/ SwitchRefused(c, f) \/ ActivationRefused(c, f) \/ Crash(c, f)
  PROVE  ReleasesInv'
<1>1. faults \in 0..Faults /\ faults' \in 0..Faults
  BY InvTyped, Bounds DEF TypeOK, CompletionRefused, SwitchRefused, ActivationRefused, Crash
<1>2. /\ worker' = [worker EXCEPT ![c][f] = "none"]
      /\ UNCHANGED <<releases, migrations, recs, attempts, route, owner, gateway, lost>>
  BY DEF CompletionRefused, SwitchRefused, ActivationRefused, Crash
<1> QED BY <1>1, <1>2, WorkerStops

LEMMA LeaseLapses ==
  ASSUME ReleasesInv, NEW c \in Rec, Abandoned(c) \/ Overrun(c)
  PROVE  ReleasesInv'
<1>1. /\ recs[c].lease = "live" /\ recs' = [recs EXCEPT ![c].lease = "lapsed"]
      /\ UNCHANGED <<releases, migrations, attempts, route, owner, gateway, worker, lost>>
      /\ faults' \in 0..Faults
  BY InvTyped, Bounds DEF Abandoned, Overrun, TypeOK
<1> DEFINE row == [recs[c] EXCEPT !.lease = "lapsed"]
<1>2. recs \in [Rec -> RecRow] /\ recs[c] \in RecRow
  BY InvTyped, TablesTyped DEF TypeOK
<1>3. /\ row \in RecRow /\ row.state = recs[c].state /\ row.release = recs[c].release
      /\ row.kind = recs[c].kind /\ row.expected = recs[c].expected /\ row.fence = recs[c].fence
  BY <1>2 DEF RecRow
<1>4. recs' = [recs EXCEPT ![c] = row]
  BY <1>1
<1> HIDE DEF row
<1>5. /\ recs' \in [Rec -> RecRow] /\ recs'[c] = row
      /\ \A d \in Rec : d # c => recs'[d] = recs[d]
  BY <1>2, <1>3, <1>4
<1>6. recs[c].state # "absent"
  BY <1>1 DEF ReleasesInv, RecInv, NoRec
<1>7. SameRecs
  <2>1. ASSUME NEW d \in Rec PROVE SameRec(d)
    <3>1. CASE d = c
      BY <1>3, <1>5, <1>6, <3>1 DEF SameRec
    <3>2. CASE d # c
      BY <1>5, <3>2 DEF SameRec
    <3> QED BY <3>1, <3>2
  <2> QED BY <2>1 DEF SameRecs
<1>8. TypeOK'
  BY <1>1, <1>5, InvTyped DEF TypeOK, Last
<1>9. ASSUME NEW d \in Rec PROVE AttemptInv(d)'
  BY <1>1, <1>3, <1>5, AttemptKept DEF ReleasesInv
<1> QED BY <1>1, <1>7, <1>8, <1>9, Unmoved, QuietStep

LEMMA LoseKeeps ==
  ASSUME ReleasesInv, NEW r \in Release, NEW thing \in Losses, Lose(r, thing)
  PROVE  ReleasesInv'
<1>1. /\ lost' = [lost EXCEPT ![r] = @ \union {thing}] /\ faults' \in 0..Faults
      /\ UNCHANGED <<releases, migrations, recs, attempts, route, owner, gateway, worker>>
  BY InvTyped, Bounds DEF Lose, TypeOK
<1>2. lost' \in [Release -> SUBSET Losses]
  BY <1>1, InvTyped DEF TypeOK
<1>3. TypeOK'
  BY <1>1, <1>2, InvTyped DEF TypeOK, Last
<1>4. \A d \in Rec : AttemptInv(d)'
  BY <1>1 DEF ReleasesInv, AttemptInv, Owned, Last
<1> QED BY <1>1, <1>3, <1>4, Unmoved, QuietStep

-----------------------------------------------------------------------------
(* Leasing. *)

LEMMA AfterExpiryIs ==
  ASSUME ReleasesInv, NEW c \in Rec
  PROVE  /\ AfterExpiry(c) \in RecRow
         /\ AfterExpiry(c).release = recs[c].release /\ AfterExpiry(c).kind = recs[c].kind
         /\ AfterExpiry(c).expected = recs[c].expected /\ AfterExpiry(c).fence = recs[c].fence
         /\ \/ Lapsed(c) /\ AfterExpiry(c).state \in {"failed", "retriable"}
            \/ ~Lapsed(c) /\ AfterExpiry(c) = recs[c]
            \/ /\ ~Lapsed(c) /\ recs[c].state \in {"awaiting_trial", "awaiting_live_apply"}
               /\ AfterExpiry(c).state = "failed"
<1>1. TypeOK /\ {"failed", "retriable"} \subseteq RecState /\ recs[c] \in RecRow
  BY InvTyped, TablesTyped DEF RecState
<1>2. CASE Lapsed(c)
  <2>1. AfterExpiry(c) = Finished(c, IF Exhausted(c) THEN "failed" ELSE "retriable")
    <3>1. ~MigrationFailed(c)
      BY <1>2 DEF Lapsed, MigrationFailed
    <3> QED BY <1>2, <3>1 DEF AfterExpiry
  <2>2. CASE Exhausted(c)
    <3>1. AfterExpiry(c) = Finished(c, "failed")
      BY <2>1, <2>2
    <3> QED BY <1>1, <1>2, <3>1, FinishedIs
  <2>3. CASE ~Exhausted(c)
    <3>1. AfterExpiry(c) = Finished(c, "retriable")
      BY <2>1, <2>3
    <3> QED BY <1>1, <1>2, <3>1, FinishedIs
  <2> QED BY <2>2, <2>3
<1>3. CASE ~Lapsed(c) /\ MigrationFailed(c)
  <2>1. AfterExpiry(c) = Finished(c, "failed")
    BY <1>3 DEF AfterExpiry
  <2> QED BY <1>1, <1>3, <2>1, FinishedIs DEF MigrationFailed
<1>4. CASE ~Lapsed(c) /\ ~MigrationFailed(c)
  <2>1. AfterExpiry(c) = recs[c]
    BY <1>4 DEF AfterExpiry
  <2> QED BY <1>1, <1>4, <2>1
<1> QED BY <1>2, <1>3, <1>4

LEMMA ExpiredAttemptsIs ==
  ASSUME ReleasesInv, NEW c \in Rec
  PROVE  /\ ExpiredAttempts(c) \in Seq(Attempt) /\ Len(ExpiredAttempts(c)) = Len(attempts[c])
         /\ Lapsed(c) => Ended(attempts[c], ExpiredAttempts(c), "expired")
         /\ ~Lapsed(c) => ExpiredAttempts(c) = attempts[c]
<1>1. TypeOK /\ attempts[c] \in Seq(Attempt) /\ "expired" \in AttemptState
  BY InvTyped, TablesTyped DEF AttemptState
<1>2. CASE Lapsed(c)
  <2>1. Last(c) # 0
    BY <1>2 DEF Lapsed, ReleasesInv, AttemptInv, Owned
  <2>2. Ended(attempts[c], ExpiredAttempts(c), "expired")
    BY <1>1, <1>2, <2>1, EndsIs DEF ExpiredAttempts
  <2> QED BY <1>2, <2>2 DEF Ended
<1>3. CASE ~Lapsed(c)
  BY <1>1, <1>3 DEF ExpiredAttempts
<1> QED BY <1>2, <1>3

LEMMA ExpiryKeeps ==
  ASSUME ReleasesInv, NEW c \in Rec, recs'[c] = AfterExpiry(c), attempts'[c] = ExpiredAttempts(c)
  PROVE  SameRec(c) /\ AttemptInv(c)'
<1>1. AttemptInv(c) /\ TypeOK
  BY DEF ReleasesInv
<1>2. CASE Lapsed(c)
  <2>1. AfterExpiry(c).state \in {"failed", "retriable"} /\ recs[c].state = "running"
    BY <1>2, AfterExpiryIs DEF Lapsed
  <2>2. SameRec(c)
    BY <2>1, AfterExpiryIs DEF SameRec, Active, RecState
  <2>3. Ended(attempts[c], attempts'[c], "expired") /\ "expired" \in AttemptState \ {"running"}
    BY <1>2, ExpiredAttemptsIs DEF AttemptState
  <2>4. AttemptInv(c)'
    BY <1>1, <2>1, <2>3, AttemptEnded
  <2> QED BY <2>2, <2>4
<1>3. CASE ~Lapsed(c)
  <2>1. attempts'[c] = attempts[c]
    BY <1>3, ExpiredAttemptsIs
  <2>2. CASE AfterExpiry(c) = recs[c]
    BY <1>1, <2>1, <2>2, AttemptKept DEF SameRec
  <2>3. CASE recs[c].state \in {"awaiting_trial", "awaiting_live_apply"} /\ AfterExpiry(c).state = "failed"
    <3>1. SameRec(c)
      BY <2>3, AfterExpiryIs DEF SameRec, Active, RecState
    <3>2. AttemptInv(c)'
      BY <1>1, <2>1, <2>3 DEF AttemptInv, Owned, Last
    <3> QED BY <3>1, <3>2
  <2> QED BY <1>3, <2>2, <2>3, AfterExpiryIs
<1> QED BY <1>2, <1>3

LEMMA AfterExpiryReleasesIs ==
  ASSUME ReleasesInv, releases' = AfterExpiryReleases
  PROVE  releases' \in [Release -> ReleaseRow] /\ SameReleases
<1> DEFINE failing == {c \in Rec : (MigrationFailed(c) \/ (Lapsed(c) /\ Exhausted(c))) /\ FailsRelease(c)}
<1>1. releases' = [r \in Release |-> IF \E c \in failing : recs[c].release = r
                                     THEN [releases[r] EXCEPT !.state = "failed"] ELSE releases[r]]
  BY DEF AfterExpiryReleases
<1>2. \A c \in failing : releases[recs[c].release].state = "staged"
  BY DEF FailsRelease
<1> HIDE DEF failing
<1>3. ASSUME NEW r \in Release
      PROVE  /\ releases'[r] \in ReleaseRow /\ releases'[r].promoted = releases[r].promoted
             /\ \/ releases'[r].state = releases[r].state
                \/ releases[r].state = "staged" /\ releases'[r].state = "failed"
  <2>1. releases[r] \in ReleaseRow /\ "failed" \in ReleaseState
    BY InvTyped, TablesTyped DEF ReleaseState
  <2>2. CASE \E c \in failing : recs[c].release = r
    <3>1. releases'[r] = [releases[r] EXCEPT !.state = "failed"] /\ releases[r].state = "staged"
      BY <1>1, <1>2, <2>2
    <3> QED BY <2>1, <3>1, ReleaseTyped
  <2>3. CASE ~\E c \in failing : recs[c].release = r
    BY <1>1, <2>1, <2>3
  <2> QED BY <2>2, <2>3
<1>4. releases' \in [Release -> ReleaseRow]
  BY <1>1, <1>3
<1>5. SameReleases
  BY <1>3 DEF SameReleases
<1> QED BY <1>4, <1>5

LEMMA LeaseExpiresKeeps ==
  ASSUME ReleasesInv, LeaseExpires
  PROVE  ReleasesInv'
<1>1. \A c \in Rec : recs'[c] = AfterExpiry(c) /\ attempts'[c] = ExpiredAttempts(c)
  BY DEF LeaseExpires
<1>2. SameRecs /\ \A c \in Rec : AttemptInv(c)'
  BY <1>1, ExpiryKeeps DEF SameRecs
<1>3. releases' \in [Release -> ReleaseRow] /\ SameReleases
  BY AfterExpiryReleasesIs DEF LeaseExpires
<1>4. TypeOK'
  <2>1. recs' \in [Rec -> RecRow]
    BY AfterExpiryIs DEF LeaseExpires
  <2>2. attempts' \in [Rec -> Seq(Attempt)] /\ \A c \in Rec : Len(attempts'[c]) = Len(attempts[c])
    BY ExpiredAttemptsIs DEF LeaseExpires
  <2> QED BY <1>3, <2>1, <2>2, InvTyped DEF TypeOK, LeaseExpires, Last
<1> QED BY <1>2, <1>3, <1>4, Unmoved, QuietStep DEF LeaseExpires

\* The attempts that a lease leaves behind: nobody but its holder works on c.
LEMMA GrantedIs ==
  ASSUME ReleasesInv, NEW c \in Rec, c \in Candidates, NEW fence, fence = recs[c].fence + 1
  PROVE  /\ recs[c].state \in Active
         /\ Granted(c) \in Seq(Attempt) /\ Len(Granted(c)) # 0 /\ Len(Granted(c)) <= MaxAttempts
         /\ Granted(c)[Len(Granted(c))] = [fence |-> fence, state |-> "running"]
         /\ \A n \in DOMAIN Granted(c) : Granted(c)[n].state = "running" => n = Len(Granted(c))
<1> DEFINE row == [fence |-> fence, state |-> "running"]
<1>1. /\ TypeOK /\ attempts[c] \in Seq(Attempt) /\ Len(attempts[c]) \in Nat
      /\ DOMAIN attempts[c] = 1..Len(attempts[c]) /\ Len(attempts[c]) <= MaxAttempts
      /\ fence \in Nat /\ MaxAttempts \in Nat
  BY InvTyped, TablesTyped, RecTyped, Bounds DEF TypeOK, Last
<1>2. row \in Attempt /\ row.state = "running"
  BY <1>1, AttemptTyped DEF AttemptState
<1>3. AttemptInv(c)
  BY DEF ReleasesInv
<1>4. CASE recs[c].state = "prepared"
  <2>1. ~Lapsed(c)
    BY <1>4 DEF Lapsed
  <2>2. PICK n \in 1..Len(attempts[c]) : n = Len(attempts[c])
    <3>1. Len(attempts[c]) # 0
      BY <1>3, <1>4 DEF AttemptInv, Owned, Last
    <3> QED BY <1>1, <3>1
  <2>3. Granted(c) = [attempts[c] EXCEPT ![n] = row]
    <3>1. LeasePhase(c) = "prepared_switch"
      BY <1>4 DEF LeasePhase
    <3>2. ExpiredAttempts(c) = attempts[c]
      BY <2>1, ExpiredAttemptsIs
    <3> QED BY <2>2, <3>1, <3>2 DEF Granted, Last
  <2> HIDE DEF row
  <2>4. /\ Granted(c) \in Seq(Attempt) /\ Len(Granted(c)) = Len(attempts[c])
        /\ \A m \in 1..Len(attempts[c]) : Granted(c)[m] = IF m = n THEN row ELSE attempts[c][m]
    BY <1>1, <1>2, <2>3, ExceptSeq
  <2>5. DOMAIN Granted(c) = 1..Len(attempts[c])
    BY <1>1, <2>3
  <2>6. \A m \in DOMAIN Granted(c) : Granted(c)[m].state = "running" => m = Len(Granted(c))
    BY <1>1, <1>3, <2>2, <2>4, <2>5 DEF AttemptInv, Last
  <2> QED
    BY <1>1, <1>4, <2>2, <2>4, <2>6 DEF Active, RecState, row
<1>5. CASE recs[c].state # "prepared"
  <2> DEFINE kept == ExpiredAttempts(c)
  <2>1. /\ MoreAttempts(c)
        /\ AfterExpiry(c).state \in {"queued", "retriable", "awaiting_trial", "awaiting_live_apply"}
    BY <1>5 DEF Candidates, Interrupted
  <2>2. recs[c].state \in Active /\ (recs[c].state = "running" => Lapsed(c))
    BY <2>1, AfterExpiryIs DEF Active, RecState, Lapsed
  <2>3. /\ kept \in Seq(Attempt) /\ Len(kept) = Len(attempts[c]) /\ DOMAIN kept = 1..Len(attempts[c])
        /\ \A n \in DOMAIN kept : kept[n].state # "running"
    <3>1. kept \in Seq(Attempt) /\ Len(kept) = Len(attempts[c])
      BY ExpiredAttemptsIs
    <3>2. DOMAIN kept = 1..Len(attempts[c])
      BY <3>1, LenProperties
    <3>3. CASE Lapsed(c)
      <4>1. Ended(attempts[c], kept, "expired")
        BY <3>3, ExpiredAttemptsIs
      <4> QED BY <1>1, <1>3, <3>1, <3>2, <4>1 DEF Ended, AttemptInv, Last
    <3>4. CASE ~Lapsed(c)
      <4>1. kept = attempts[c]
        BY <3>4, ExpiredAttemptsIs
      <4> QED BY <1>3, <1>5, <2>2, <3>1, <3>2, <3>4, <4>1 DEF AttemptInv, Owned
    <3> QED BY <3>1, <3>2, <3>3, <3>4
  <2>4. Granted(c) = Append(kept, row)
    <3>1. LeasePhase(c) # "prepared_switch"
      BY <1>5 DEF LeasePhase
    <3> QED BY <3>1 DEF Granted
  <2> HIDE DEF row, kept
  <2>5. /\ Granted(c) \in Seq(Attempt) /\ Len(Granted(c)) = Len(attempts[c]) + 1
        /\ \A m \in 1..Len(attempts[c]) : Granted(c)[m] = kept[m]
        /\ Granted(c)[Len(attempts[c]) + 1] = row
    BY <1>2, <2>3, <2>4, AppendProperties
  <2>6. DOMAIN Granted(c) = 1..(Len(attempts[c]) + 1)
    BY <2>5, LenProperties
  <2>7. \A m \in DOMAIN Granted(c) : Granted(c)[m].state = "running" => m = Len(Granted(c))
    BY <1>1, <2>3, <2>5, <2>6
  <2> QED
    BY <1>1, <2>1, <2>2, <2>5, <2>7 DEF MoreAttempts, Last, row
<1> QED BY <1>4, <1>5

LEMMA LeaseKeeps ==
  ASSUME ReleasesInv, NEW c \in Rec, Lease(c)
  PROVE  ReleasesInv'
<1> DEFINE row == [recs[c] EXCEPT !.state = IF recs[c].state = "prepared" THEN "prepared" ELSE "running",
                                  !.fence = recs[c].fence + 1, !.lease = "live", !.phase = LeasePhase(c)]
           w == IF recs[c].state = "prepared" THEN "prepared" ELSE "working"
<1>1. /\ TypeOK /\ recs[c] \in RecRow /\ recs[c].fence + 1 \in Fence /\ recs[c].fence + 1 \in 0..MaxFence
      /\ c \in Candidates /\ w \in WorkerState
  <2>1. TypeOK /\ recs[c] \in RecRow
    BY InvTyped, TablesTyped
  <2> QED BY <2>1, RecTyped, Bounds DEF Lease, Fence, WorkerState
<1>2. /\ row \in RecRow /\ row.fence = recs[c].fence + 1
      /\ row.state = (IF recs[c].state = "prepared" THEN "prepared" ELSE "running")
      /\ row.release = recs[c].release /\ row.kind = recs[c].kind /\ row.expected = recs[c].expected
  <2>1. LeasePhase(c) \in Phase
    BY DEF LeasePhase, Phase
  <2> QED BY <1>1, <2>1 DEF RecRow, RecState
<1>3. /\ recs' = [d \in Rec |-> IF d # c THEN AfterExpiry(d) ELSE row]
      /\ attempts' = [d \in Rec |-> IF d = c THEN Granted(c) ELSE ExpiredAttempts(d)]
      /\ releases' = AfterExpiryReleases
      /\ worker' = [worker EXCEPT ![c][recs[c].fence + 1] = w]
      /\ UNCHANGED <<migrations, route, owner, gateway, lost, faults>>
  BY DEF Lease, LeasedState
<1>4. PICK f \in Fence : f = recs[c].fence + 1
  BY <1>1
<1> HIDE DEF row, w
<1>5. /\ recs[c].state \in Active
      /\ Granted(c) \in Seq(Attempt) /\ Len(Granted(c)) # 0 /\ Len(Granted(c)) <= MaxAttempts
      /\ Granted(c)[Len(Granted(c))] = [fence |-> f, state |-> "running"]
      /\ \A n \in DOMAIN Granted(c) : Granted(c)[n].state = "running" => n = Len(Granted(c))
  BY <1>1, <1>4, GrantedIs
<1>6. ASSUME NEW d \in Rec PROVE SameRec(d) /\ AttemptInv(d)'
  <2>1. CASE d # c
    <3>1. recs'[d] = AfterExpiry(d) /\ attempts'[d] = ExpiredAttempts(d)
      BY <1>3, <2>1
    <3> QED BY <3>1, ExpiryKeeps
  <2>2. CASE d = c
    <3>1. recs'[c] = row /\ attempts'[c] = Granted(c)
      BY <1>3
    <3>2. SameRec(c)
      BY <1>2, <1>5, <3>1 DEF SameRec, Active, RecState
    <3>3. AttemptInv(c)'
      BY <1>2, <1>4, <1>5, <3>1 DEF AttemptInv, Owned, Last
    <3> QED BY <2>2, <3>2, <3>3
  <2> QED BY <2>1, <2>2
<1>7. releases' \in [Release -> ReleaseRow] /\ SameReleases
  BY <1>3, AfterExpiryReleasesIs
<1>8. /\ worker' \in [Rec -> [Fence -> WorkerState]]
      /\ \A d \in Rec, g \in Fence : worker'[d][g] = IF d = c /\ g = f THEN w ELSE worker[d][g]
  <2>1. worker' = [worker EXCEPT ![c][f] = w]
    BY <1>3, <1>4
  <2> QED BY <1>1, <2>1, WorkerMoves
<1>9. SameWork
  <2>1. recs'[c].state = (IF recs[c].state = "prepared" THEN "prepared" ELSE "running")
    BY <1>2, <1>3
  <2> QED BY <1>8, <2>1 DEF SameWork, w
<1>10. TypeOK'
  <2>1. recs' \in [Rec -> RecRow]
    BY <1>2, <1>3, AfterExpiryIs
  <2>2. attempts' \in [Rec -> Seq(Attempt)]
    BY <1>3, <1>5, ExpiredAttemptsIs
  <2>3. \A d \in Rec : Len(attempts'[d]) <= MaxAttempts
    <3>1. \A d \in Rec : Len(attempts[d]) <= MaxAttempts
      BY <1>1 DEF TypeOK, Last
    <3> QED BY <1>3, <1>5, <3>1, ExpiredAttemptsIs
  <2> QED BY <1>1, <1>3, <1>7, <1>8, <2>1, <2>2, <2>3 DEF TypeOK, Last, WorkerState
<1> QED BY <1>3, <1>6, <1>7, <1>9, <1>10, QuietStep DEF SameRecs

-----------------------------------------------------------------------------
(* A completion ends the attempt of the reconciliation it is about. *)

\* The attempt of c ended as attempt, and c itself in state; nothing else moved.
Settled(c, state, attempt) ==
  /\ recs' \in [Rec -> RecRow] /\ attempts' \in [Rec -> Seq(Attempt)]
  /\ \A d \in Rec : d # c => recs'[d] = recs[d] /\ attempts'[d] = attempts[d]
  /\ recs'[c].state = state /\ recs'[c].release = recs[c].release /\ recs'[c].kind = recs[c].kind
  /\ recs'[c].expected = recs[c].expected /\ recs'[c].fence = recs[c].fence
  /\ \A d \in Rec : Len(attempts'[d]) = Len(attempts[d]) /\ AttemptInv(d)'

LEMMA SettledIs ==
  ASSUME ReleasesInv, NEW c \in Rec, Owned(c), NEW state \in RecState \ {"running", "prepared"},
         NEW attempt \in AttemptState \ {"running"},
         recs' = [recs EXCEPT ![c] = Finished(c, state)], attempts' = Ends(c, attempt)
  PROVE  Settled(c, state, attempt)
<1>1. TypeOK /\ AttemptInv(c) /\ recs \in [Rec -> RecRow] /\ Last(c) # 0
  BY DEF ReleasesInv, TypeOK, AttemptInv
<1>2. /\ recs' \in [Rec -> RecRow] /\ recs'[c] = Finished(c, state)
      /\ \A d \in Rec : d # c => recs'[d] = recs[d]
  BY <1>1, FinishedIs
<1>3. /\ attempts' \in [Rec -> Seq(Attempt)] /\ \A d \in Rec : d # c => attempts'[d] = attempts[d]
      /\ Ended(attempts[c], attempts'[c], attempt)
  BY <1>1, EndsIs
<1>4. /\ recs'[c].state = state /\ recs'[c].release = recs[c].release /\ recs'[c].kind = recs[c].kind
      /\ recs'[c].expected = recs[c].expected /\ recs'[c].fence = recs[c].fence
  BY <1>1, <1>2, FinishedIs
<1>5. AttemptInv(c)'
  BY <1>1, <1>3, <1>4, AttemptEnded
<1>6. ASSUME NEW d \in Rec, d # c PROVE AttemptInv(d)'
  BY <1>2, <1>3, <1>6, AttemptKept DEF ReleasesInv
<1>7. \A d \in Rec : Len(attempts'[d]) = Len(attempts[d])
  BY <1>3 DEF Ended
<1> QED BY <1>2, <1>3, <1>4, <1>5, <1>6, <1>7 DEF Settled

\* c goes on to wait, to be retried or to have failed.
LEMMA SettledQuietly ==
  ASSUME ReleasesInv, NEW c \in Rec, recs[c].state = "running", NEW attempt,
         NEW state \in {"awaiting_trial", "awaiting_live_apply", "retriable", "failed"},
         Settled(c, state, attempt)
  PROVE  SameRecs
<1>1. ASSUME NEW d \in Rec PROVE SameRec(d)
  <2>1. CASE d = c
    BY <2>1 DEF Settled, SameRec, Active, RecState
  <2>2. CASE d # c
    BY <2>2 DEF Settled, SameRec
  <2> QED BY <2>1, <2>2
<1> QED BY <1>1 DEF SameRecs

LEMMA ReportKeeps ==
  ASSUME ReleasesInv, NEW c \in Rec, NEW f \in Fence, NEW outcome, Report(c, f, outcome)
  PROVE  ReleasesInv'
<1>1. PICK state \in {"retriable", "failed"} :
         /\ attempts' = Ends(c, state) /\ recs' = [recs EXCEPT ![c] = Finished(c, state)]
         /\ \/ releases' = releases
            \/ FailsRelease(c) /\ releases' = [releases EXCEPT ![recs[c].release].state = "failed"]
  BY DEF Report
<1>2. /\ recs[c].state = "running" /\ worker' = [worker EXCEPT ![c][f] = "none"]
      /\ faults' \in 0..Faults /\ UNCHANGED <<migrations, route, owner, gateway, lost>>
  BY InvTyped, Bounds DEF Report, Live, TypeOK
<1>3. Settled(c, state, state)
  <2>1. state \in RecState \ {"running", "prepared"} /\ state \in AttemptState \ {"running"}
    BY DEF RecState, AttemptState
  <2> QED BY <1>1, <1>2, <2>1, SettledIs DEF Owned
<1>4. SameRecs
  BY <1>2, <1>3, SettledQuietly
<1>5. releases' \in [Release -> ReleaseRow] /\ SameReleases
  <2>0. releases \in [Release -> ReleaseRow]
    BY InvTyped DEF TypeOK
  <2>1. CASE releases' = releases
    BY <2>0, <2>1, Unmoved
  <2>2. CASE FailsRelease(c) /\ releases' = [releases EXCEPT ![recs[c].release].state = "failed"]
    <3>1. PICK r \in Release : r = recs[c].release
      BY <1>2, RequestedIs
    <3> DEFINE row == [releases[r] EXCEPT !.state = "failed"]
    <3>2. row \in ReleaseRow /\ row.state = "failed" /\ row.promoted = releases[r].promoted
      BY <2>0, ReleaseTyped DEF ReleaseState
    <3>3. releases' = [releases EXCEPT ![r] = row] /\ releases[r].state = "staged"
      BY <2>2, <3>1 DEF FailsRelease
    <3> HIDE DEF row
    <3>4. releases' \in [Release -> ReleaseRow]
      BY <2>0, <3>2, <3>3
    <3>5. SameReleases
      BY <2>0, <3>2, <3>3 DEF SameReleases
    <3> QED BY <3>4, <3>5
  <2> QED BY <1>1, <2>1, <2>2
<1>6. /\ worker' \in [Rec -> [Fence -> WorkerState]]
      /\ \A d \in Rec, g \in Fence : worker'[d][g] = IF d = c /\ g = f THEN "none" ELSE worker[d][g]
  <2>1. TypeOK /\ "none" \in WorkerState
    BY InvTyped DEF WorkerState
  <2> QED BY <1>2, <2>1, WorkerMoves
<1>7. SameWork
  BY <1>6 DEF SameWork
<1>8. TypeOK'
  BY <1>2, <1>3, <1>5, <1>6, InvTyped DEF TypeOK, Settled, Last, WorkerState
<1>9. \A d \in Rec : AttemptInv(d)'
  BY <1>3 DEF Settled
<1> QED BY <1>2, <1>4, <1>5, <1>7, <1>8, <1>9, QuietStep

\* The attempt ends and c waits for the database worker: all but the
\* migrations and what depends on them is kept.
LEMMA AwaitKeeps ==
  ASSUME ReleasesInv, NEW c \in Rec, NEW f \in Fence, Live(c, f, "running"),
         NEW state \in {"awaiting_trial", "awaiting_live_apply"}, Await(c, f, state),
         migrations' \in [Release -> MigrationRow]
  PROVE  /\ TypeOK' /\ \A d \in Rec : AttemptInv(d)'
         /\ SameRecs /\ SameReleases /\ SameWork /\ UNCHANGED <<route, owner, gateway>>
<1>1. /\ recs[c].state = "running" /\ worker' = [worker EXCEPT ![c][f] = "none"]
      /\ attempts' = Ends(c, "succeeded") /\ recs' = [recs EXCEPT ![c] = Finished(c, state)]
      /\ UNCHANGED <<releases, route, owner, gateway, lost, faults>>
  BY DEF Live, Await
<1>2. Settled(c, state, "succeeded")
  <2>1. state \in RecState \ {"running", "prepared"} /\ "succeeded" \in AttemptState \ {"running"}
    BY DEF RecState, AttemptState
  <2> QED BY <1>1, <2>1, SettledIs DEF Owned
<1>3. SameRecs
  BY <1>1, <1>2, SettledQuietly
<1>4. /\ worker' \in [Rec -> [Fence -> WorkerState]]
      /\ \A d \in Rec, g \in Fence : worker'[d][g] = IF d = c /\ g = f THEN "none" ELSE worker[d][g]
  <2>1. TypeOK /\ "none" \in WorkerState
    BY InvTyped DEF WorkerState
  <2>2. worker' = [worker EXCEPT ![c][f] = "none"]
    BY <1>1
  <2> QED BY <2>1, <2>2, WorkerMoves, Zenon
<1>5. SameWork
  BY <1>4 DEF SameWork
<1>6. TypeOK'
  BY <1>1, <1>2, <1>4, InvTyped DEF TypeOK, Settled, Last, WorkerState
<1>7. \A d \in Rec : AttemptInv(d)'
  BY <1>2 DEF Settled
<1> QED BY <1>1, <1>3, <1>5, <1>6, <1>7, Unmoved

-----------------------------------------------------------------------------
(* Migrations. *)

\* A step that moves migrations, and reconciliations no more than to wait.
LEMMA MigrationStep ==
  ASSUME ReleasesInv, TypeOK', SameRecs, SameReleases, SameWork, \A c \in Rec : AttemptInv(c)',
         UNCHANGED <<route, owner, gateway>>,
         AppliedStays, \A r \in Release : MigrationInv(r)', AppliedWasValidated'
  PROVE  ReleasesInv'
BY KeepsRecs, KeepsOneActive, KeepsOwner, KeepsRoute, KeepsWork, KeepsGateway DEF ReleasesInv

\* What the new row of a migration has to be.
Follows(row, r) ==
  /\ row \in MigrationRow
  /\ row.operation = "trial" => row.state = "planned"
  /\ row.operation = "live" => row.state = "isolated_validated"
  /\ row.state # "none" => row.current # Nothing
  /\ releases[r].state = "absent" => row.state \in {"none", "planned"} /\ row.operation = "none"
  /\ migrations[r].state = "applied" => row.state = "applied"

LEMMA MigrationMoves ==
  ASSUME ReleasesInv, SameReleases, NEW r \in Release, NEW row, Follows(row, r),
         migrations' = [migrations EXCEPT ![r] = row]
  PROVE  /\ migrations' \in [Release -> MigrationRow]
         /\ \A s \in Release : MigrationInv(s)' /\ migrations'[s] = IF s = r THEN row ELSE migrations[s]
         /\ AppliedStays
<1>1. migrations \in [Release -> MigrationRow] /\ row \in MigrationRow
  BY InvTyped DEF TypeOK, Follows
<1>2. /\ migrations' \in [Release -> MigrationRow]
      /\ \A s \in Release : migrations'[s] = IF s = r THEN row ELSE migrations[s]
  BY <1>1
<1>3. ASSUME NEW s \in Release PROVE MigrationInv(s)'
  BY <1>2 DEF ReleasesInv, MigrationInv, SameReleases, Follows
<1>4. AppliedStays
  BY <1>2 DEF AppliedStays, Follows
<1> QED BY <1>2, <1>3, <1>4

\* A step of the owner or of the database worker on one migration.
LEMMA DatabaseStep ==
  ASSUME ReleasesInv, NEW r \in Release, NEW row, Follows(row, r),
         migrations' = [migrations EXCEPT ![r] = row],
         row.state \in {"isolated_validated", "applied"} =>
           /\ migrations[r].state \in {"isolated_validated", "applied"}
           /\ row.current = migrations[r].current /\ row.retained = migrations[r].retained,
         faults' \in 0..Faults,
         UNCHANGED <<releases, recs, attempts, route, owner, gateway, worker, lost>>
  PROVE  ReleasesInv'
<1>1. SameRecs /\ SameReleases /\ SameWork
  BY Unmoved
<1>2. /\ migrations' \in [Release -> MigrationRow] /\ AppliedStays
      /\ \A s \in Release : MigrationInv(s)' /\ migrations'[s] = IF s = r THEN row ELSE migrations[s]
  BY <1>1, MigrationMoves
<1>3. SameMigrations
  BY <1>2 DEF SameMigrations, AppliedStays
<1>4. TypeOK'
  BY <1>2, InvTyped DEF TypeOK, Last
<1>5. \A d \in Rec : AttemptInv(d)'
  BY DEF ReleasesInv, AttemptInv, Owned, Last
<1> QED BY <1>1, <1>2, <1>3, <1>4, <1>5, KeepsValidated, MigrationStep

LEMMA PlanMigrationKeeps ==
  ASSUME ReleasesInv, NEW r \in Release, PlanMigration(r)
  PROVE  ReleasesInv'
<1>1. PICK p \in Projects : p = Home[r]
  BY Bounds
<1> DEFINE row == [state |-> "planned", operation |-> "none", current |-> route[p].release,
                   retained |-> Healthy(p) \ {route[p].release}]
<1>2. /\ releases[r].state = "absent" /\ migrations[r].state = "none" /\ route[p].release # Nothing
      /\ migrations' = [migrations EXCEPT ![r] = row]
      /\ UNCHANGED <<releases, recs, attempts, route, owner, gateway, worker, lost, faults>>
  BY <1>1 DEF PlanMigration
<1>3. row \in MigrationRow
  <2>1. route[p].release \in Release \union {Nothing} /\ Healthy(p) \subseteq Release
    BY InvTyped, TablesTyped, RouteTyped DEF Healthy, Of
  <2> QED BY <2>1 DEF MigrationRow, MigrationState, Operation
<1>4. Follows(row, r)
  BY <1>2, <1>3 DEF Follows
<1>5. faults' \in 0..Faults /\ row.state = "planned"
  BY <1>2, InvTyped DEF TypeOK
<1> HIDE DEF row
<1> QED BY <1>2, <1>4, <1>5, DatabaseStep

LEMMA TrialSucceedsKeeps ==
  ASSUME ReleasesInv, NEW r \in Release, TrialSucceeds(r)
  PROVE  ReleasesInv'
<1> DEFINE row == [migrations[r] EXCEPT !.operation = "none", !.state = "trial_prepared"]
<1>1. /\ migrations[r] \in MigrationRow /\ MigrationInv(r) /\ migrations[r].operation = "trial"
      /\ migrations' = [migrations EXCEPT ![r] = row] /\ faults' \in 0..Faults
      /\ UNCHANGED <<releases, recs, attempts, route, owner, gateway, worker, lost>>
  <2>1. TypeOK /\ MigrationInv(r) /\ faults \in 0..Faults
    BY DEF ReleasesInv, TypeOK
  <2> QED BY <2>1, TablesTyped DEF TrialSucceeds
<1>2. /\ row \in MigrationRow /\ row.state = "trial_prepared" /\ row.operation = "none"
      /\ row.current = migrations[r].current
  BY <1>1 DEF MigrationRow, MigrationState, Operation
<1> HIDE DEF row
<1>3. Follows(row, r)
  BY <1>1, <1>2 DEF Follows, MigrationInv
<1> QED BY <1>1, <1>2, <1>3, DatabaseStep

LEMMA LiveApplySucceedsKeeps ==
  ASSUME ReleasesInv, NEW r \in Release, LiveApplySucceeds(r)
  PROVE  ReleasesInv'
<1> DEFINE row == [migrations[r] EXCEPT !.operation = "none", !.state = "applied"]
<1>1. /\ migrations[r] \in MigrationRow /\ MigrationInv(r) /\ migrations[r].operation = "live"
      /\ migrations' = [migrations EXCEPT ![r] = row] /\ faults' \in 0..Faults
      /\ UNCHANGED <<releases, recs, attempts, route, owner, gateway, worker, lost>>
  <2>1. TypeOK /\ MigrationInv(r) /\ faults \in 0..Faults
    BY DEF ReleasesInv, TypeOK
  <2> QED BY <2>1, TablesTyped DEF LiveApplySucceeds
<1>2. /\ row \in MigrationRow /\ row.state = "applied" /\ row.operation = "none"
      /\ row.current = migrations[r].current /\ row.retained = migrations[r].retained
  BY <1>1 DEF MigrationRow, MigrationState, Operation
<1> HIDE DEF row
<1>3. Follows(row, r) /\ migrations[r].state = "isolated_validated"
  BY <1>1, <1>2 DEF Follows, MigrationInv
<1> QED BY <1>1, <1>2, <1>3, DatabaseStep

LEMMA OperationFailsKeeps ==
  ASSUME ReleasesInv, NEW r \in Release, OperationFails(r)
  PROVE  ReleasesInv'
<1>1. /\ migrations[r] \in MigrationRow /\ MigrationInv(r) /\ migrations[r].operation \in {"trial", "live"}
      /\ UNCHANGED <<releases, recs, attempts, route, owner, gateway, worker, lost>>
      /\ faults' \in 0..Faults
  <2>1. TypeOK /\ MigrationInv(r) /\ faults \in 0..Faults
    BY DEF ReleasesInv, TypeOK
  <2> QED BY <2>1, TablesTyped, Bounds DEF OperationFails
<1>2. PICK state : /\ state = migrations[r].state \/ (migrations[r].state = "planned" /\ state = "failed")
                   /\ migrations' = [migrations EXCEPT ![r].operation = "failed", ![r].state = state]
  BY DEF OperationFails
<1> DEFINE row == [migrations[r] EXCEPT !.operation = "failed", !.state = state]
<1>3. migrations' = [migrations EXCEPT ![r] = row]
  BY <1>2
<1>4. /\ row \in MigrationRow /\ row.state = state /\ row.operation = "failed"
      /\ row.current = migrations[r].current /\ row.retained = migrations[r].retained
  BY <1>1, <1>2 DEF MigrationRow, MigrationState, Operation
<1> HIDE DEF row
<1>5. Follows(row, r)
  BY <1>1, <1>2, <1>4 DEF Follows, MigrationInv
<1> QED BY <1>1, <1>2, <1>3, <1>4, <1>5, DatabaseStep

LEMMA CompletePrepareTrialKeeps ==
  ASSUME ReleasesInv, NEW c \in Rec, NEW f \in Fence, CompletePrepareTrial(c, f)
  PROVE  ReleasesInv'
<1>1. Live(c, f, "running") /\ TrialQueueable(c) /\ Await(c, f, "awaiting_trial")
  BY DEF CompletePrepareTrial, Completable
<1>2. recs[c].state = "running"
  BY <1>1 DEF Live
<1>3. PICK r \in Release : r = recs[c].release
  BY <1>2, RequestedIs
<1> DEFINE row == [migrations[r] EXCEPT !.operation = "trial"]
<1>4. /\ migrations[r] \in MigrationRow /\ MigrationInv(r) /\ migrations[r].state = "planned"
      /\ releases[r].state # "absent" /\ migrations' = [migrations EXCEPT ![r] = row]
  <2>1. migrations[r] \in MigrationRow /\ MigrationInv(r)
    BY InvTyped, TablesTyped DEF ReleasesInv
  <2> QED BY <1>1, <1>2, <1>3, <2>1, RequestedIs DEF TrialQueueable, CompletePrepareTrial
<1>5. /\ row \in MigrationRow /\ row.state = "planned" /\ row.operation = "trial"
      /\ row.current = migrations[r].current /\ row.retained = migrations[r].retained
  BY <1>4 DEF MigrationRow, MigrationState, Operation
<1> HIDE DEF row
<1>6. Follows(row, r)
  BY <1>4, <1>5 DEF Follows, MigrationInv
<1>7. SameReleases
  BY <1>1, Unmoved DEF Await
<1>8. /\ migrations' \in [Release -> MigrationRow] /\ AppliedStays
      /\ \A s \in Release : MigrationInv(s)' /\ migrations'[s] = IF s = r THEN row ELSE migrations[s]
  BY <1>4, <1>6, <1>7, MigrationMoves
<1>9. SameMigrations
  BY <1>5, <1>8 DEF SameMigrations, AppliedStays
<1>10. /\ TypeOK' /\ \A d \in Rec : AttemptInv(d)'
       /\ SameRecs /\ SameReleases /\ SameWork /\ UNCHANGED <<route, owner, gateway>>
  BY <1>1, <1>8, AwaitKeeps
<1> QED BY <1>8, <1>9, <1>10, KeepsValidated, MigrationStep

LEMMA CompleteIsolatedKeeps ==
  ASSUME ReleasesInv, NEW c \in Rec, NEW f \in Fence, CompleteIsolated(c, f)
  PROVE  ReleasesInv'
<1>1. Live(c, f, "running") /\ Validatable(c) /\ Await(c, f, "awaiting_live_apply")
  BY DEF CompleteIsolated, Completable
<1>2. recs[c].state = "running"
  BY <1>1 DEF Live
<1>3. PICK r \in Release : r = recs[c].release
  BY <1>2, RequestedIs
<1>a. PICK p \in Projects : p = Home[r]
  BY Bounds
<1> DEFINE row == [migrations[r] EXCEPT !.operation = "live", !.state = "isolated_validated"]
<1>4. /\ migrations[r] \in MigrationRow /\ MigrationInv(r) /\ migrations[r].state = "trial_prepared"
      /\ releases[r].state = "staged" /\ migrations' = [migrations EXCEPT ![r] = row]
      /\ migrations[r].current = route[p].release
      /\ migrations[r].retained = Healthy(p) \ {route[p].release}
  <2>1. migrations[r] \in MigrationRow /\ MigrationInv(r)
    BY InvTyped, TablesTyped DEF ReleasesInv
  <2> QED BY <1>1, <1>3, <1>a, <2>1 DEF Validatable, CompleteIsolated
<1>5. /\ row \in MigrationRow /\ row.state = "isolated_validated" /\ row.operation = "live"
      /\ row.current = migrations[r].current /\ row.retained = migrations[r].retained
  BY <1>4 DEF MigrationRow, MigrationState, Operation
<1> HIDE DEF row
<1>6. Follows(row, r)
  BY <1>4, <1>5 DEF Follows, MigrationInv
<1>7. SameReleases
  BY <1>1, Unmoved DEF Await
<1>8. /\ migrations' \in [Release -> MigrationRow] /\ AppliedStays
      /\ \A s \in Release : MigrationInv(s)' /\ migrations'[s] = IF s = r THEN row ELSE migrations[s]
  BY <1>4, <1>6, <1>7, MigrationMoves
<1>9. Healthy(p) = row.retained \union {row.current}
  <2>1. route[p].release # Nothing /\ RouteInv(p)
    BY <1>4 DEF MigrationInv, ReleasesInv
  <2>2. route[p].release \in Release
    BY <2>1, InvTyped, TablesTyped, RouteTyped
  <2>3. route[p].release \in Healthy(p)
    BY <2>1, <2>2 DEF RouteInv, Healthy, Of
  <2> QED BY <1>4, <1>5, <2>3
<1>10. /\ TypeOK' /\ \A d \in Rec : AttemptInv(d)'
       /\ SameRecs /\ SameReleases /\ SameWork /\ UNCHANGED <<route, owner, gateway>>
  BY <1>1, <1>8, AwaitKeeps
<1>11. AppliedWasValidated'
  <2>1. ASSUME NEW d \in Rec, NEW s \in Migrating, recs'[d].release = s, recs'[d].state \in Active,
               recs'[d].kind = "promote", migrations'[s].state \in {"isolated_validated", "applied"}
        PROVE  Healthy(Home[s])' = migrations'[s].retained \union {migrations'[s].current}
    <3>1. s \in Release /\ Healthy(Home[s])' = Healthy(Home[s])
      BY <1>7, Bounds, HealthySame
    <3>2. CASE s = r
      BY <1>8, <1>9, <1>a, <3>1, <3>2
    <3>3. CASE s # r
      <4>1. /\ recs[d].release = s /\ recs[d].state \in Active /\ recs[d].kind = "promote"
            /\ migrations'[s] = migrations[s]
        BY <1>8, <1>10, <2>1, <3>1, <3>3 DEF SameRecs, SameRec
      <4>2. Healthy(Home[s]) = migrations[s].retained \union {migrations[s].current}
        BY <2>1, <3>1, <4>1 DEF ReleasesInv, AppliedWasValidated
      <4> QED BY <3>1, <4>1, <4>2
    <3> QED BY <3>2, <3>3
  <2> QED BY <2>1 DEF AppliedWasValidated, Healthy, Of
<1> QED BY <1>8, <1>10, <1>11, MigrationStep

-----------------------------------------------------------------------------
(* The owner's requests. *)

LEMMA OwnerStep ==
  ASSUME ReleasesInv, NEW p \in Projects, NEW row \in RequestRow, owner' = [owner EXCEPT ![p] = row],
         row.kind # "none" =>
           /\ row.release \in Release /\ Home[row.release] = p
           /\ row.kind = "promote" <=> releases[row.release].state = "absent",
         UNCHANGED <<releases, migrations, recs, attempts, route, gateway, worker, lost, faults>>
  PROVE  ReleasesInv'
<1>1. owner \in [Projects -> RequestRow]
  BY InvTyped DEF TypeOK
<1>2. /\ owner' \in [Projects -> RequestRow] /\ owner'[p] = row
      /\ \A q \in Projects : q # p => owner'[q] = owner[q]
  BY <1>1
<1>3. TypeOK'
  BY <1>2, InvTyped DEF TypeOK, Last
<1>4. \A q \in Projects : OwnerInv(q)'
  BY <1>2 DEF ReleasesInv, OwnerInv
<1>5. \A d \in Rec : AttemptInv(d)'
  BY DEF ReleasesInv, AttemptInv, Owned, Last
<1> QED
  BY <1>3, <1>4, <1>5, Unmoved, KeepsRecs, KeepsOneActive, KeepsMigrations, KeepsRoute, KeepsWork,
     KeepsGateway, KeepsValidated DEF ReleasesInv

LEMMA ReadsKeeps ==
  ASSUME ReleasesInv, NEW r \in Release, StageReads(r) \/ RollbackReads(r)
  PROVE  ReleasesInv'
<1>1. PICK p \in Projects : p = Home[r]
  BY Bounds
<1>2. CASE StageReads(r)
  <2> DEFINE row == [kind |-> "promote", release |-> r, expected |-> route[p].generation]
  <2>1. /\ owner' = [owner EXCEPT ![p] = row] /\ releases[r].state = "absent"
        /\ UNCHANGED <<releases, migrations, recs, attempts, route, gateway, worker, lost, faults>>
    BY <1>1, <1>2 DEF StageReads
  <2>2. row \in RequestRow
    <3>1. route[p].generation \in Nat
      BY InvTyped, TablesTyped, RouteTyped
    <3> QED BY <3>1 DEF RequestRow
  <2>3. row.kind = "promote" /\ row.release = r
    OBVIOUS
  <2> HIDE DEF row
  <2> QED BY <1>1, <2>1, <2>2, <2>3, OwnerStep
<1>3. CASE RollbackReads(r)
  <2> DEFINE row == [kind |-> "rollback", release |-> r, expected |-> 0]
  <2>1. /\ owner' = [owner EXCEPT ![p] = row] /\ releases[r].state = "healthy"
        /\ UNCHANGED <<releases, migrations, recs, attempts, route, gateway, worker, lost, faults>>
    BY <1>1, <1>3 DEF RollbackReads
  <2>2. row \in RequestRow /\ row.kind = "rollback" /\ row.release = r
    BY DEF RequestRow
  <2> HIDE DEF row
  <2> QED BY <1>1, <2>1, <2>2, OwnerStep
<1> QED BY <1>2, <1>3

LEMMA RequestRefusedKeeps ==
  ASSUME ReleasesInv, NEW p \in Projects, RequestRefused(p)
  PROVE  ReleasesInv'
<1>1. /\ owner' = [owner EXCEPT ![p] = NoRequest]
      /\ UNCHANGED <<releases, migrations, recs, attempts, route, gateway, worker, lost, faults>>
  BY DEF RequestRefused
<1> QED BY <1>1, RequestTyped, OwnerStep

\* There is a next row while there is one left.
LEMMA NextRecIs ==
  ASSUME \E c \in Rec : recs[c] = NoRec
  PROVE  NextRec \in Rec /\ recs[NextRec] = NoRec
<1> DEFINE free == {c \in Rec : recs[c] = NoRec}
<1>1. free \subseteq Nat /\ free # {} /\ free \subseteq Rec
  BY Bounds DEF Rec
<1>2. PICK c \in free : \A d \in free : ~(<<d, c>> \in OpToRel(<, Nat))
  <2> HIDE DEF free
  <2> QED BY <1>1, WFMin, NatLessThanWellFounded
<1>3. \A d \in Rec : d < c => recs[d] # NoRec
  <2>1. ASSUME NEW d \in Rec, d < c, recs[d] = NoRec PROVE FALSE
    <3>1. d \in free /\ d \in Nat /\ c \in Nat
      BY <1>1, <2>1
    <3>2. <<d, c>> \in OpToRel(<, Nat)
      BY <2>1, <3>1 DEF OpToRel
    <3> QED BY <1>2, <3>1, <3>2
  <2> QED BY <2>1
<1>4. c \in Rec /\ recs[c] = NoRec
  BY <1>2
<1> HIDE DEF free
<1> QED BY <1>3, <1>4 DEF NextRec

\* What holds of a project's route survives a step that leaves its row and its
\* healthy releases alone.
LEMMA RouteKept ==
  ASSUME ReleasesInv, NEW p \in Projects, route'[p] = route[p], AppliedStays,
         \A r \in Of(p) : /\ releases'[r].state = "healthy" <=> releases[r].state = "healthy"
                          /\ releases[r].state = "healthy" => releases'[r] = releases[r]
  PROVE  RouteInv(p)' /\ Healthy(p)' = Healthy(p)
<1>1. Healthy(p)' = Healthy(p)
  BY DEF Healthy, Of
<1>2. \A r \in Healthy(p) : releases'[r] = releases[r] /\ r \in Release /\ Home[r] = p
  BY DEF Healthy, Of
<1>3. RouteInv(p) /\ (route[p].release # Nothing => route[p].release \in Release)
  BY InvTyped, TablesTyped, RouteTyped DEF ReleasesInv
<1>4. route[p].release # Nothing => route[p].release \in Healthy(p)
  BY <1>3 DEF RouteInv, Healthy, Of
<1> QED
  BY <1>1, <1>2, <1>3, <1>4 DEF RouteInv, AppliedStays

LEMMA GatewayKept ==
  ASSUME ReleasesInv, NEW p \in Projects, route'[p] = route[p], gateway'[p] = gateway[p],
         \A c \in Rec : recs[c].state \in {"prepared", "succeeded"} => SameRec(c)
  PROVE  GatewayInv(p)'
<1>1. GatewayInv(p) /\ gateway[p] \in Rec \union {Nothing}
  BY InvTyped, TablesTyped DEF ReleasesInv
<1>2. CASE gateway[p] = Nothing
  BY <1>1, <1>2 DEF GatewayInv
<1>3. ASSUME NEW c \in Rec, c = gateway[p] PROVE GatewayInv(p)'
  <2>1. recs[c].state \in {"prepared", "succeeded"}
    BY <1>1, <1>3, Bounds DEF GatewayInv
  <2>2. SameRec(c) /\ ProjectOf(c)' = ProjectOf(c)
    BY <2>1, SameProject
  <2> QED
    BY <1>1, <1>3, <2>2, Bounds DEF GatewayInv, SameRec, ProjectOf
<1> QED BY <1>1, <1>2, <1>3

\* Either request inserts its row.
LEMMA InsertKeeps ==
  ASSUME ReleasesInv, NEW p \in Projects, NEW r \in Release, Home[r] = p, NoneActive(p),
         NEW n \in Rec, recs[n] = NoRec, NEW row \in RecRow, row.state = "queued", row.release = r,
         row.kind = "rollback" \/ (row.kind = "promote" /\ releases[r].state = "absent"),
         recs' = [recs EXCEPT ![n] = row], owner' = [owner EXCEPT ![p] = NoRequest],
         releases' \in [Release -> ReleaseRow], releases'[r].state # "absent",
         \A s \in Release : s # r => releases'[s] = releases[s],
         releases'[r] = releases[r] \/ (releases[r].state = "absent" /\ releases'[r].state = "staged"),
         UNCHANGED <<migrations, attempts, route, gateway, worker, lost, faults>>
  PROVE  ReleasesInv'
<1>1. /\ recs \in [Rec -> RecRow] /\ owner \in [Projects -> RequestRow] /\ TypeOK
      /\ NoRequest \in RequestRow /\ NoRequest.kind = "none" /\ NoRec.state = "absent"
  BY InvTyped, RequestTyped, RecTyped DEF TypeOK
<1>2. /\ recs' \in [Rec -> RecRow] /\ recs'[n] = row /\ \A d \in Rec : d # n => recs'[d] = recs[d]
      /\ owner' \in [Projects -> RequestRow] /\ owner'[p] = NoRequest
      /\ \A q \in Projects : q # p => owner'[q] = owner[q]
  BY <1>1
<1>3. TypeOK'
  BY <1>1, <1>2 DEF TypeOK, Last
<1>4. ASSUME NEW d \in Rec PROVE AttemptInv(d)'
  <2>1. AttemptInv(d)
    BY DEF ReleasesInv
  <2>2. CASE d = n
    BY <1>1, <1>2, <2>1, <2>2 DEF AttemptInv, Owned, Last
  <2>3. CASE d # n
    BY <1>2, <2>1, <2>3, AttemptKept
  <2> QED BY <2>2, <2>3
<1>5. ASSUME NEW d \in Rec, d # n PROVE SameRec(d)
  BY <1>2, <1>5 DEF SameRec
<1>6. ASSUME NEW d \in Rec PROVE RecInv(d)'
  <2>1. CASE d = n
    BY <1>2, <2>1 DEF RecInv
  <2>2. CASE d # n
    <3>1. RecInv(d) /\ SameRec(d) /\ ProjectOf(d)' = ProjectOf(d) /\ Generation(d)' = Generation(d)
      BY <1>5, <2>2, SameProject DEF ReleasesInv
    <3>2. \A s \in Release : releases[s].state # "absent" => releases'[s].state # "absent"
      OBVIOUS
    <3>3. recs[d].state # "absent" => recs[d].release \in Release
      BY RequestedIs
    <3> QED BY <1>2, <2>2, <3>1, <3>2, <3>3 DEF RecInv
  <2> QED BY <2>1, <2>2
<1>7. OneActive'
  <2>1. ProjectOf(n)' = p
    BY <1>2 DEF ProjectOf
  <2>2. \A d \in Rec : d # n => ProjectOf(d)' = ProjectOf(d) /\ recs'[d].state = recs[d].state
    BY <1>2 DEF ProjectOf
  <2> QED BY <2>1, <2>2 DEF OneActive, NoneActive, ReleasesInv
<1>8. ASSUME NEW s \in Release PROVE MigrationInv(s)'
  BY DEF ReleasesInv, MigrationInv
<1>9. ASSUME NEW q \in Projects PROVE OwnerInv(q)'
  BY <1>1, <1>2 DEF ReleasesInv, OwnerInv
<1>10. ASSUME NEW q \in Projects PROVE RouteInv(q)' /\ Healthy(q)' = Healthy(q)
  <2>1. \A s \in Of(q) : /\ releases'[s].state = "healthy" <=> releases[s].state = "healthy"
                         /\ releases[s].state = "healthy" => releases'[s] = releases[s]
    BY DEF Of
  <2> QED BY <2>1, RouteKept, Unmoved
<1>11. ASSUME NEW d \in Rec, NEW g \in Fence PROVE WorkInv(d, g)'
  <2>1. WorkInv(d, g)
    BY DEF ReleasesInv
  <2>2. CASE d = n
    BY <1>1, <2>1, <2>2 DEF WorkInv
  <2>3. CASE d # n
    BY <1>2, <2>1, <2>3 DEF WorkInv, ProjectOf
  <2> QED BY <2>2, <2>3
<1>12. \A q \in Projects : GatewayInv(q)'
  <2>1. \A d \in Rec : recs[d].state \in {"prepared", "succeeded"} => SameRec(d)
    BY <1>1, <1>5
  <2> QED BY <2>1, GatewayKept DEF ReleasesInv
<1>13. AppliedWasValidated'
  <2>1. ASSUME NEW d \in Rec, NEW s \in Migrating, recs'[d].release = s, recs'[d].state \in Active,
               recs'[d].kind = "promote", migrations[s].state \in {"isolated_validated", "applied"}
        PROVE  Healthy(Home[s])' = migrations[s].retained \union {migrations[s].current}
    <3>1. s \in Release /\ Home[s] \in Projects
      BY Bounds
    <3>2. d # n
      <4>1. CASE row.kind = "rollback"
        BY <1>2, <2>1, <4>1
      <4>2. CASE releases[r].state = "absent"
        <5>1. migrations[r].state \in {"none", "planned"}
          BY <4>2 DEF ReleasesInv, MigrationInv
        <5> QED BY <1>2, <2>1, <5>1
      <4> QED BY <4>1, <4>2
    <3>3. recs[d].release = s /\ recs[d].state \in Active /\ recs[d].kind = "promote"
      BY <1>2, <2>1, <3>2
    <3>4. Healthy(Home[s]) = migrations[s].retained \union {migrations[s].current}
      BY <2>1, <3>1, <3>3 DEF ReleasesInv, AppliedWasValidated
    <3> QED BY <1>10, <3>1, <3>4
  <2> QED BY <2>1 DEF AppliedWasValidated, Healthy, Of
<1> QED
  BY <1>3, <1>4, <1>6, <1>7, <1>8, <1>9, <1>10, <1>11, <1>12, <1>13 DEF ReleasesInv

LEMMA InsertsKeeps ==
  ASSUME ReleasesInv, NEW p \in Projects, StageInserts(p) \/ RollbackInserts(p)
  PROVE  ReleasesInv'
<1>1. /\ owner[p].kind \in {"promote", "rollback"} /\ NoneActive(p) /\ owner[p] \in RequestRow
      /\ owner' = [owner EXCEPT ![p] = NoRequest]
      /\ UNCHANGED <<migrations, attempts, route, gateway, worker, lost, faults>>
  BY InvTyped, TablesTyped DEF StageInserts, RollbackInserts, MayInsert
<1>2. PICK n \in Rec : n = NextRec /\ recs[n] = NoRec
  BY NextRecIs DEF StageInserts, RollbackInserts
<1>3. PICK r \in Release : r = owner[p].release /\ Home[r] = p
                           /\ (owner[p].kind = "promote" <=> releases[r].state = "absent")
  BY <1>1 DEF ReleasesInv, OwnerInv
<1>4. PICK e \in Nat : recs' = [recs EXCEPT ![n] = Requested(p, e)]
  <2>1. owner[p].expected \in Nat /\ route[p].generation \in Nat
    BY <1>1, InvTyped, TablesTyped, RouteTyped, RequestTyped
  <2> QED BY <1>2, <2>1 DEF StageInserts, RollbackInserts
<1>5. PICK row \in RecRow : row = Requested(p, e)
  <2>1. Requested(p, e) \in RecRow
    BY <1>1, <1>3, RequestTyped, RecTyped DEF Requested, NoRec, RecRow, RecState
  <2> QED BY <2>1
<1>6. row.state = "queued" /\ row.release = r /\ row.kind = owner[p].kind
  BY <1>3, <1>5 DEF Requested, NoRec
<1>7. releases \in [Release -> ReleaseRow]
  BY InvTyped DEF TypeOK
<1>8. CASE StageInserts(p)
  <2>1. releases[r].state = "absent" /\ row.kind = "promote"
    BY <1>3, <1>6, <1>8 DEF StageInserts
  <2> DEFINE rel == [releases[r] EXCEPT !.state = "staged"]
  <2>2. rel \in ReleaseRow /\ rel.state = "staged"
    BY <1>7, ReleaseTyped DEF ReleaseState
  <2>3. releases' = [releases EXCEPT ![r] = rel]
    BY <1>3, <1>8 DEF StageInserts
  <2> HIDE DEF rel
  <2>4. /\ releases' \in [Release -> ReleaseRow] /\ releases'[r] = rel
        /\ \A s \in Release : s # r => releases'[s] = releases[s]
    BY <1>7, <2>2, <2>3
  <2> QED BY <1>1, <1>2, <1>3, <1>4, <1>5, <1>6, <2>1, <2>2, <2>4, InsertKeeps
<1>9. CASE RollbackInserts(p)
  <2>1. releases[r].state # "absent" /\ row.kind = "rollback" /\ releases' = releases
    BY <1>3, <1>6, <1>9 DEF RollbackInserts
  <2> QED BY <1>1, <1>2, <1>3, <1>4, <1>5, <1>6, <1>7, <2>1, InsertKeeps
<1> QED BY <1>8, <1>9

-----------------------------------------------------------------------------
(* The switch. *)

LEMMA CompletePreparedKeeps ==
  ASSUME ReleasesInv, NEW c \in Rec, NEW f \in Fence, CompletePrepared(c, f)
  PROVE  ReleasesInv'
<1>1. /\ recs[c].state = "running" /\ route[ProjectOf(c)].generation = recs[c].expected /\ GateOpen(c)
      /\ recs' = [recs EXCEPT ![c].state = "prepared", ![c].previous = route[ProjectOf(c)].release]
      /\ worker' = [worker EXCEPT ![c][f] = "prepared"]
      /\ UNCHANGED <<releases, migrations, attempts, route, owner, gateway, lost, faults>>
  BY DEF CompletePrepared, Completable, Live, RouteUnchanged
<1>2. /\ recs \in [Rec -> RecRow] /\ recs[c] \in RecRow /\ ProjectOf(c) \in Projects
      /\ route[ProjectOf(c)].release \in Release \union {Nothing}
  <2>1. TypeOK /\ recs \in [Rec -> RecRow] /\ ProjectOf(c) \in Projects
    BY <1>1, RequestedIs DEF ReleasesInv, TypeOK
  <2> QED BY <2>1, TablesTyped, RouteTyped
<1> DEFINE row == [recs[c] EXCEPT !.state = "prepared", !.previous = route[ProjectOf(c)].release]
<1>3. /\ row \in RecRow /\ row.state = "prepared" /\ row.release = recs[c].release
      /\ row.kind = recs[c].kind /\ row.expected = recs[c].expected /\ row.fence = recs[c].fence
  BY <1>2 DEF RecRow, RecState
<1>4. recs' = [recs EXCEPT ![c] = row]
  BY <1>1
<1> HIDE DEF row
<1>5. recs' \in [Rec -> RecRow] /\ recs'[c] = row /\ \A d \in Rec : d # c => recs'[d] = recs[d]
  BY <1>2, <1>3, <1>4
<1>6. /\ worker' \in [Rec -> [Fence -> WorkerState]]
      /\ \A d \in Rec, g \in Fence : worker'[d][g] = IF d = c /\ g = f THEN "prepared" ELSE worker[d][g]
  <2>1. TypeOK /\ "prepared" \in WorkerState
    BY InvTyped DEF WorkerState
  <2>2. worker' = [worker EXCEPT ![c][f] = "prepared"]
    BY <1>1
  <2> QED BY <2>1, <2>2, WorkerMoves, Zenon
<1>7. TypeOK'
  BY <1>1, <1>5, <1>6, InvTyped DEF TypeOK, WorkerState, Last
<1>8. ASSUME NEW d \in Rec PROVE AttemptInv(d)'
  <2>1. AttemptInv(d)
    BY DEF ReleasesInv
  <2>2. CASE d = c
    BY <1>1, <1>3, <1>5, <2>1, <2>2 DEF AttemptInv, Owned, Last
  <2>3. CASE d # c
    BY <1>1, <1>5, <2>1, <2>3, AttemptKept
  <2> QED BY <2>2, <2>3
<1>9. /\ \A d \in Rec : d # c => SameRec(d)
      /\ \A d \in Rec : ProjectOf(d)' = ProjectOf(d) /\ Generation(d)' = Generation(d)
      /\ \A d \in Rec : recs'[d].state \in Active <=> recs[d].state \in Active
  BY <1>1, <1>3, <1>5 DEF SameRec, ProjectOf, Generation, Active, RecState
<1>10. ASSUME NEW d \in Rec PROVE RecInv(d)'
  <2>1. RecInv(d) /\ ProjectOf(d)' = ProjectOf(d) /\ Generation(d)' = Generation(d)
    BY <1>9 DEF ReleasesInv
  <2>2. CASE d = c
    BY <1>1, <1>3, <1>5, <2>1, <2>2 DEF RecInv, GateOpen
  <2>3. CASE d # c
    BY <1>1, <1>5, <2>1, <2>3 DEF RecInv
  <2> QED BY <2>2, <2>3
<1>11. OneActive'
  BY <1>9 DEF ReleasesInv, OneActive
<1>12. ASSUME NEW d \in Rec, NEW g \in Fence PROVE WorkInv(d, g)'
  <2>1. WorkInv(d, g) /\ ProjectOf(d)' = ProjectOf(d)
    BY <1>9 DEF ReleasesInv
  <2>2. CASE d = c
    BY <1>1, <1>3, <1>5, <1>6, <2>1, <2>2 DEF WorkInv
  <2>3. CASE d # c
    BY <1>1, <1>5, <1>6, <2>1, <2>3 DEF WorkInv
  <2> QED BY <2>2, <2>3
<1>13. \A q \in Projects : GatewayInv(q)'
  <2>1. \A d \in Rec : recs[d].state \in {"prepared", "succeeded"} => SameRec(d)
    BY <1>1, <1>9
  <2> QED BY <1>1, <2>1, GatewayKept DEF ReleasesInv
<1>14. AppliedWasValidated'
  <2>1. ASSUME NEW d \in Rec, NEW s \in Migrating, recs'[d].release = s, recs'[d].state \in Active,
               recs'[d].kind = "promote", migrations[s].state \in {"isolated_validated", "applied"}
        PROVE  Healthy(Home[s]) = migrations[s].retained \union {migrations[s].current}
    <3>1. recs[d].release = s /\ recs[d].state \in Active /\ recs[d].kind = "promote"
      BY <1>3, <1>5, <1>9, <2>1
    <3> QED BY <2>1, <3>1 DEF ReleasesInv, AppliedWasValidated
  <2>2. \A s \in Migrating : Healthy(Home[s])' = Healthy(Home[s])
    BY <1>1 DEF Healthy, Of
  <2> QED BY <1>1, <2>1, <2>2 DEF AppliedWasValidated, Healthy, Of
<1>15. /\ \A s \in Release : MigrationInv(s)'
       /\ \A p \in Projects : OwnerInv(p)' /\ RouteInv(p)'
  BY <1>1, Unmoved, KeepsMigrations, KeepsOwner, KeepsRoute
<1> QED
  BY <1>7, <1>8, <1>10, <1>11, <1>12, <1>13, <1>14, <1>15 DEF ReleasesInv

LEMMA SwitchKeeps ==
  ASSUME ReleasesInv, NEW c \in Rec, NEW f \in Fence, SwitchTests(c, f) \/ SwitchReplaces(c, f)
  PROVE  ReleasesInv'
<1>1. /\ worker[c][f] \in {"prepared", "replacing"} /\ WorkInv(c, f)
      /\ UNCHANGED <<releases, migrations, recs, attempts, route, owner, lost, faults>>
  BY DEF SwitchTests, SwitchReplaces, ReleasesInv
<1>2. recs[c].state \in {"prepared", "succeeded"}
  BY <1>1 DEF WorkInv
<1>3. PICK p \in Projects : p = ProjectOf(c)
  BY <1>2, RequestedIs
<1>4. gateway \in [Projects -> Rec \union {Nothing}]
  BY InvTyped DEF TypeOK
<1>5. PICK w \in {"replacing", "switched"} : worker' = [worker EXCEPT ![c][f] = w]
  BY DEF SwitchTests, SwitchReplaces
<1>6. /\ worker' \in [Rec -> [Fence -> WorkerState]]
      /\ \A d \in Rec, g \in Fence : worker'[d][g] = IF d = c /\ g = f THEN w ELSE worker[d][g]
  <2>1. TypeOK /\ w \in WorkerState
    BY InvTyped DEF WorkerState
  <2> QED BY <1>5, <2>1, WorkerMoves
<1>7. gateway' = gateway \/ gateway' = [gateway EXCEPT ![p] = c]
  BY <1>3 DEF SwitchTests, SwitchReplaces
<1>8. TypeOK'
  <2>1. gateway' \in [Projects -> Rec \union {Nothing}]
    BY <1>4, <1>7
  <2> QED BY <1>1, <1>6, <2>1, InvTyped DEF TypeOK, WorkerState, Last
<1>9. /\ \A d \in Rec : AttemptInv(d)' /\ RecInv(d)' /\ ProjectOf(d)' = ProjectOf(d)
      /\ OneActive' /\ AppliedWasValidated'
      /\ \A s \in Release : MigrationInv(s)'
      /\ \A q \in Projects : OwnerInv(q)' /\ RouteInv(q)'
  <2>1. \A d \in Rec : AttemptInv(d)' /\ ProjectOf(d)' = ProjectOf(d)
    BY <1>1 DEF ReleasesInv, AttemptInv, Owned, Last, ProjectOf
  <2> QED
    BY <1>1, <2>1, Unmoved, KeepsRecs, KeepsOneActive, KeepsMigrations, KeepsOwner, KeepsRoute, KeepsValidated
<1>10. ASSUME NEW q \in Projects PROVE GatewayInv(q)' /\ (gateway[q] # Nothing => gateway'[q] # Nothing)
  <2>1. CASE gateway'[q] = gateway[q]
    <3>1. \A d \in Rec : SameRec(d)
      BY <1>1, Unmoved DEF SameRecs
    <3> QED BY <1>1, <2>1, <3>1, GatewayKept
  <2>2. CASE gateway'[q] # gateway[q]
    <3>1. q = p /\ gateway'[p] = c
      BY <1>4, <1>7, <2>2
    <3> QED BY <1>1, <1>2, <1>3, <3>1, Bounds DEF GatewayInv, ProjectOf
  <2> QED BY <2>1, <2>2
<1>11. ASSUME NEW d \in Rec, NEW g \in Fence PROVE WorkInv(d, g)'
  <2>1. WorkInv(d, g) /\ ProjectOf(d)' = ProjectOf(d)
    BY <1>9 DEF ReleasesInv
  <2>2. CASE d = c /\ g = f
    <3>1. ASSUME w = "switched" PROVE gateway'[p] = c
      <4>1. SwitchReplaces(c, f)
        BY <1>5, <1>6, <3>1 DEF SwitchTests
      <4> QED BY <1>3, <1>4, <4>1 DEF SwitchReplaces
    <3>2. worker'[d][g] = w /\ ProjectOf(d)' = p /\ recs'[d].state \in {"prepared", "succeeded"}
      BY <1>1, <1>2, <1>3, <1>6, <2>1, <2>2
    <3> QED BY <3>1, <3>2, Bounds DEF WorkInv
  <2>3. CASE ~(d = c /\ g = f)
    <3>1. worker'[d][g] = worker[d][g] /\ recs'[d] = recs[d]
      BY <1>1, <1>6, <2>3
    <3>2. worker[d][g] = "switched" => ProjectOf(d) \in Projects
      BY <2>1, RequestedIs DEF WorkInv
    <3> QED BY <1>10, <2>1, <3>1, <3>2 DEF WorkInv
  <2> QED BY <2>2, <2>3
<1> QED BY <1>8, <1>9, <1>10, <1>11 DEF ReleasesInv

-----------------------------------------------------------------------------
(* Activation and retention. *)

LEMMA ReleaseFinite ==
  ASSUME NEW S, S \subseteq Release
  PROVE  IsFiniteSet(S) /\ Cardinality(S) \in Nat
<1>1. IsFiniteSet(Release)
  BY Bounds, FS_Interval
<1>2. IsFiniteSet(S)
  BY <1>1, FS_Subset
<1> QED BY <1>2, FS_CardinalityType

\* Of releases that were promoted one after another, no more than Retained are
\* kept: all but the first of those are newer than it.
LEMMA Retention ==
  ASSUME NEW kept, kept \subseteq Release, \A r \in kept : releases[r].promoted \in Nat,
         \A r, s \in kept : releases[r].promoted = releases[s].promoted => r = s
  PROVE  Cardinality(kept \ Excess(kept)) <= Retained
<1> DEFINE left == kept \ Excess(kept)
           newer(r) == {s \in kept : releases[s].promoted > releases[r].promoted}
<1>1. \A r \in left : Cardinality(newer(r)) < Retained
  <2>1. ASSUME NEW r \in left PROVE Cardinality(newer(r)) < Retained
    <3>1. Cardinality(newer(r)) \in Nat
      BY ReleaseFinite
    <3>2. ~(Cardinality(newer(r)) >= Retained)
      BY <2>1 DEF Excess
    <3> QED BY <3>1, <3>2, Bounds
  <2> QED BY <2>1
<1>2. CASE left = {}
  <2>1. Cardinality(left) = 0
    BY <1>2, FS_EmptySet
  <2> QED BY <2>1, Bounds
<1>3. CASE left # {}
  <2> DEFINE times == {releases[r].promoted : r \in left}
  <2>1. times \subseteq Nat /\ times # {}
    BY <1>3
  <2>2. PICK t \in times : \A u \in times : ~(<<u, t>> \in OpToRel(<, Nat))
    <3> HIDE DEF times
    <3> QED BY <2>1, WFMin, NatLessThanWellFounded
  <2>3. PICK m \in left : releases[m].promoted = t
    BY <2>2
  <2>4. left \ {m} \subseteq newer(m)
    <3>1. ASSUME NEW s \in left, s # m PROVE s \in newer(m)
      <4>1. /\ releases[s].promoted \in Nat /\ releases[m].promoted \in Nat
            /\ releases[s].promoted # releases[m].promoted
        BY <2>3, <3>1
      <4>2. ~(releases[s].promoted < releases[m].promoted)
        <5>1. releases[s].promoted \in times /\ t \in Nat
          BY <2>1, <2>2
        <5>2. ~(<<releases[s].promoted, t>> \in OpToRel(<, Nat))
          BY <2>2, <5>1
        <5> QED BY <2>3, <4>1, <5>2 DEF OpToRel
      <4> QED BY <4>1, <4>2
    <3> QED BY <3>1
  <2>5. /\ Cardinality(left \ {m}) <= Cardinality(newer(m)) /\ Cardinality(newer(m)) \in Nat
        /\ Cardinality(left \ {m}) \in Nat /\ IsFiniteSet(left \ {m}) /\ IsFiniteSet(left)
    <3>1. left \subseteq Release /\ newer(m) \subseteq Release /\ left \ {m} \subseteq Release
      OBVIOUS
    <3> HIDE DEF left, newer
    <3> QED BY <2>4, <3>1, ReleaseFinite, FS_Subset
  <2>6. Cardinality(left) = Cardinality(left \ {m}) + 1
    <3> HIDE DEF left
    <3>1. Cardinality(left) \in Nat /\ Cardinality(left \ {m}) = Cardinality(left) - 1
      BY <2>3, <2>5, FS_RemoveElement, FS_CardinalityType
    <3> QED BY <3>1
  <2>7. Cardinality(newer(m)) < Retained
    BY <1>1, <2>3
  <2> HIDE DEF left, newer
  <2>8. Cardinality(left) <= Retained
    BY <2>5, <2>6, <2>7, Bounds
  <2> QED BY <2>8 DEF left
<1> QED BY <1>2, <1>3

\* What activation makes of a release.
Activated(r, kept, generation) ==
  \A s \in Release :
    releases'[s] = IF s = r THEN [state |-> "healthy", promoted |-> generation]
                   ELSE IF s \in Excess(kept) THEN [releases[s] EXCEPT !.state = "retired"]
                   ELSE releases[s]

\* The route and its releases after an activation.
LEMMA ActivatedRoute ==
  ASSUME ReleasesInv, NEW p \in Projects, NEW r \in Release, Home[r] = p, releases[r].state # "absent",
         NEW g \in Nat, g = route[p].generation + 1,
         r \in Migrating => migrations[r].state = "applied", UNCHANGED migrations,
         route'[p] = [release |-> r, generation |-> g], Activated(r, Healthy(p) \ {r}, g)
  PROVE  /\ RouteInv(p)'
         /\ \A s \in Release : /\ releases'[s] \in ReleaseRow
                               /\ releases'[s].state = "absent" <=> releases[s].state = "absent"
                               /\ Home[s] # p => releases'[s] = releases[s]
<1> DEFINE kept == Healthy(p) \ {r}
           left == kept \ Excess(kept)
<1>1. /\ RouteInv(p) /\ kept \subseteq Release /\ Excess(kept) \subseteq kept
      /\ \A s \in kept : Home[s] = p /\ releases[s].state = "healthy"
  BY DEF ReleasesInv, Healthy, Of, Excess
<1>2. \A s \in Release : releases[s] \in ReleaseRow /\ releases[s].promoted \in Nat
  BY InvTyped, TablesTyped, ReleaseTyped
<1>3. route[p].generation \in Nat
  BY InvTyped, TablesTyped, RouteTyped
<1>4. releases'[r].state = "healthy" /\ releases'[r].promoted = g /\ releases'[r] \in ReleaseRow
  <2>1. releases'[r] = [state |-> "healthy", promoted |-> g]
    BY DEF Activated
  <2> QED BY <2>1 DEF ReleaseRow, ReleaseState
<1> HIDE DEF kept
<1>5. ASSUME NEW s \in Excess(kept)
      PROVE  releases'[s] \in ReleaseRow /\ releases'[s].state = "retired"
  <2>1. s \in Release /\ s # r /\ releases[s] \in ReleaseRow
    BY <1>1, <1>2 DEF kept
  <2>2. releases'[s] = [releases[s] EXCEPT !.state = "retired"]
    BY <2>1, <1>5 DEF Activated, kept
  <2>3. "retired" \in ReleaseState
    BY DEF ReleaseState
  <2> QED BY <2>1, <2>2, <2>3, ReleaseTyped
<1>6. ASSUME NEW s \in Release, s # r, s \notin Excess(kept) PROVE releases'[s] = releases[s]
  BY <1>6 DEF Activated, kept
<1>7. ASSUME NEW s \in Release
      PROVE  /\ releases'[s] \in ReleaseRow
             /\ releases'[s].state = "absent" <=> releases[s].state = "absent"
             /\ Home[s] # p => releases'[s] = releases[s]
  <2>1. CASE s = r
    BY <1>4, <2>1
  <2>2. CASE s \in Excess(kept)
    BY <1>1, <1>5, <2>2
  <2>3. CASE s # r /\ s \notin Excess(kept)
    BY <1>2, <1>6, <2>3
  <2> QED BY <2>1, <2>2, <2>3
<1>8. Healthy(p)' = left \union {r}
  <2>1. ASSUME NEW s \in Release, Home[s] = p
        PROVE  releases'[s].state = "healthy" <=> s \in left \union {r}
    <3>1. CASE s = r
      BY <1>4, <3>1
    <3>2. CASE s \in Excess(kept)
      BY <1>1, <1>5, <3>2 DEF kept
    <3>3. CASE s # r /\ s \notin Excess(kept)
      <4>1. releases'[s] = releases[s]
        BY <1>6, <3>3
      <4> QED BY <2>1, <3>3, <4>1 DEF kept, Healthy, Of
    <3> QED BY <3>1, <3>2, <3>3
  <2>2. Healthy(p)' = {s \in Release : Home[s] = p /\ releases'[s].state = "healthy"}
    BY DEF Healthy, Of
  <2>3. left \union {r} \subseteq Release /\ \A s \in left \union {r} : Home[s] = p
    BY <1>1
  <2> QED BY <2>1, <2>2, <2>3
<1>9. \A s \in left : /\ releases'[s].promoted = releases[s].promoted /\ s # r
                      /\ releases[s].promoted <= route[p].generation /\ releases[s].promoted \in Nat
  <2>1. ASSUME NEW s \in left
        PROVE  /\ releases'[s].promoted = releases[s].promoted /\ s # r
               /\ releases[s].promoted <= route[p].generation /\ releases[s].promoted \in Nat
    <3>1. s \in Release /\ s # r /\ s \notin Excess(kept) /\ s \in Healthy(p)
      BY <1>1 DEF kept
    <3> QED BY <1>1, <1>2, <1>6, <3>1 DEF RouteInv
  <2> QED BY <2>1
<1>10. \A s, t \in left : releases[s].promoted = releases[t].promoted => s = t
  BY <1>1 DEF RouteInv, kept
<1>11. Cardinality(left \union {r}) <= Retained + 1
  <2>1. \A s \in kept : releases[s].promoted \in Nat
    BY <1>1, <1>2
  <2>2. \A s, t \in kept : releases[s].promoted = releases[t].promoted => s = t
    BY <1>1 DEF RouteInv, kept
  <2>3. Cardinality(left) <= Retained
    BY <1>1, <2>1, <2>2, Retention
  <2>4. IsFiniteSet(left) /\ Cardinality(left) \in Nat /\ r \notin left
    <3>1. left \subseteq Release /\ r \notin left
      BY <1>1 DEF kept
    <3> QED BY <3>1, ReleaseFinite
  <2>5. Cardinality(left \union {r}) = Cardinality(left) + 1
    <3> HIDE DEF left
    <3> QED BY <2>4, FS_AddElement
  <2> QED BY <2>3, <2>4, <2>5, Bounds
<1> HIDE DEF left
<1>12. \A s \in Healthy(p)' : releases'[s].promoted <= g
  BY <1>3, <1>4, <1>8, <1>9
<1>13. \A s, t \in Healthy(p)' : releases'[s].promoted = releases'[t].promoted => s = t
  BY <1>3, <1>4, <1>8, <1>9, <1>10
<1>14. RouteInv(p)'
  <2>1. Cardinality(Healthy(p)') <= Retained + 1
    BY <1>8, <1>11
  <2> QED BY <1>4, <1>12, <1>13, <2>1 DEF RouteInv
<1> QED BY <1>7, <1>14

LEMMA ActivateKeeps ==
  ASSUME ReleasesInv, NEW c \in Rec, NEW f \in Fence, Activate(c, f)
  PROVE  ReleasesInv'
<1>1. /\ recs[c].state = "prepared" /\ worker[c][f] = "switched" /\ WorkInv(c, f) /\ RecInv(c)
      /\ attempts' = Ends(c, "succeeded") /\ recs' = [recs EXCEPT ![c] = Finished(c, "succeeded")]
      /\ worker' = [worker EXCEPT ![c][f] = "none"]
      /\ UNCHANGED <<migrations, owner, gateway, lost, faults>>
  BY DEF Activate, Activatable, Live, ReleasesInv
<1>2. PICK r \in Release, p \in Projects : r = recs[c].release /\ p = ProjectOf(c) /\ p = Home[r]
  BY <1>1, RequestedIs DEF ProjectOf
<1>3. /\ route[p] \in RouteRow /\ route[p].generation \in Nat /\ recs[c].expected = route[p].generation
      /\ releases[r].state # "absent" /\ (r \in Migrating => migrations[r].state = "applied")
  <2>1. route[p] \in RouteRow /\ route[p].generation \in Nat
    BY InvTyped, TablesTyped, RouteTyped
  <2> QED BY <1>1, <1>2, <2>1, RequestedIs DEF RecInv
<1>4. PICK g \in Nat : g = route[p].generation + 1
  BY <1>3
<1>5. Generation(c) = g
  BY <1>3, <1>4, Bounds DEF Generation
<1>6. /\ route' = [route EXCEPT ![p] = [release |-> r, generation |-> g]]
      /\ releases' = [s \in Release |->
           IF s = r THEN [state |-> "healthy", promoted |-> g]
           ELSE IF s \in Excess(Healthy(p) \ {r}) THEN [releases[s] EXCEPT !.state = "retired"]
           ELSE releases[s]]
  BY <1>2, <1>5 DEF Activate
<1>7. /\ route' \in [Projects -> RouteRow] /\ route'[p] = [release |-> r, generation |-> g]
      /\ \A q \in Projects : q # p => route'[q] = route[q]
  <2>1. route \in [Projects -> RouteRow] /\ [release |-> r, generation |-> g] \in RouteRow
    BY InvTyped DEF TypeOK, RouteRow
  <2> QED BY <1>6, <2>1
<1>8. Activated(r, Healthy(p) \ {r}, g)
  BY <1>6 DEF Activated
<1>9. /\ RouteInv(p)'
      /\ \A s \in Release : /\ releases'[s] \in ReleaseRow
                            /\ releases'[s].state = "absent" <=> releases[s].state = "absent"
                            /\ Home[s] # p => releases'[s] = releases[s]
  BY <1>1, <1>2, <1>3, <1>4, <1>7, <1>8, ActivatedRoute
<1>10. releases' \in [Release -> ReleaseRow]
  BY <1>6, <1>9
<1>11. Settled(c, "succeeded", "succeeded")
  <2>1. "succeeded" \in RecState \ {"running", "prepared"} /\ "succeeded" \in AttemptState \ {"running"}
    BY DEF RecState, AttemptState
  <2> QED BY <1>1, <2>1, SettledIs DEF Owned
<1>12. /\ \A d \in Rec : d # c => recs'[d] = recs[d] /\ SameRec(d)
       /\ recs'[c].state = "succeeded" /\ recs'[c].release = r /\ recs'[c].expected = recs[c].expected
       /\ \A d \in Rec : ProjectOf(d)' = ProjectOf(d) /\ Generation(d)' = Generation(d)
       /\ \A d \in Rec : recs'[d].state \in Active => d # c /\ recs[d].state \in Active
  BY <1>2, <1>11 DEF Settled, SameRec, ProjectOf, Generation, Active, RecState
<1>13. /\ worker' \in [Rec -> [Fence -> WorkerState]]
       /\ \A d \in Rec, h \in Fence : worker'[d][h] = IF d = c /\ h = f THEN "none" ELSE worker[d][h]
  <2>1. TypeOK /\ "none" \in WorkerState
    BY InvTyped DEF WorkerState
  <2>2. worker' = [worker EXCEPT ![c][f] = "none"]
    BY <1>1
  <2> QED BY <2>1, <2>2, WorkerMoves, Zenon
<1>14. TypeOK' /\ \A d \in Rec : AttemptInv(d)'
  BY <1>1, <1>7, <1>10, <1>11, <1>13, InvTyped DEF TypeOK, Settled, Last, WorkerState
<1>15. ASSUME NEW d \in Rec, d # c, recs[d].state \in Active PROVE ProjectOf(d) # p
  BY <1>1, <1>2, <1>15 DEF ReleasesInv, OneActive, Active, RecState
<1>16. ASSUME NEW d \in Rec PROVE RecInv(d)'
  <2>1. RecInv(d) /\ ProjectOf(d)' = ProjectOf(d) /\ Generation(d)' = Generation(d)
    BY <1>12 DEF ReleasesInv
  <2>2. CASE d = c
    <3>1. /\ recs'[c].kind = recs[c].kind /\ recs[c].kind \in {"promote", "rollback"}
          /\ route'[p].generation = g /\ route'[p].release = r /\ releases'[r].state # "absent"
      BY <1>1, <1>3, <1>7, <1>9, <1>11, RequestedIs DEF Settled
    <3>2. ProjectOf(c)' = p /\ Generation(c)' = g
      BY <1>2, <1>5, <2>1, <2>2
    <3>3. RecInv(c)'
      BY <1>4, <1>12, <3>1, <3>2 DEF RecInv
    <3> QED BY <2>2, <3>3
  <2>3. CASE d # c
    <3>1. recs'[d] = recs[d]
      BY <1>12, <2>3
    <3>2. CASE recs[d].state = "absent"
      BY <2>1, <3>1, <3>2 DEF RecInv
    <3>3. CASE recs[d].state # "absent" /\ ProjectOf(d) = p
      <4>1. /\ recs[d].state # "prepared" /\ releases'[recs[d].release].state # "absent"
            /\ recs[d].release \in Release /\ recs[d].kind \in {"promote", "rollback"}
        BY <1>9, <1>15, <2>3, <3>3, RequestedIs DEF Active, RecState
      <4>2. Generation(d) \in Nat
        BY InvTyped, TablesTyped, RecTyped, Bounds DEF Generation
      <4>3. recs[d].state = "succeeded" => Generation(d) < g
        BY <1>3, <1>4, <2>1, <3>3, <4>2 DEF RecInv
      <4> QED BY <1>4, <1>7, <2>1, <3>1, <3>3, <4>1, <4>2, <4>3 DEF RecInv
    <3>4. CASE recs[d].state # "absent" /\ ProjectOf(d) # p
      <4>1. route'[ProjectOf(d)] = route[ProjectOf(d)]
        BY <1>7, <3>4, RequestedIs
      <4>2. releases'[recs[d].release].state # "absent"
        BY <1>9, <3>4, RequestedIs
      <4> QED BY <1>1, <2>1, <3>1, <3>4, <4>1, <4>2 DEF RecInv
    <3> QED BY <3>2, <3>3, <3>4
  <2> QED BY <2>2, <2>3
<1>17. OneActive'
  BY <1>12 DEF OneActive, ReleasesInv
<1>18. /\ \A s \in Release : MigrationInv(s)'
       /\ \A q \in Projects : OwnerInv(q)'
  BY <1>1, <1>9 DEF ReleasesInv, MigrationInv, OwnerInv
<1>19. ASSUME NEW q \in Projects, q # p PROVE RouteInv(q)' /\ Healthy(q)' = Healthy(q)
  <2>1. \A s \in Of(q) : releases'[s] = releases[s]
    BY <1>9, <1>19 DEF Of
  <2> QED BY <1>1, <1>7, <1>19, <2>1, RouteKept, Unmoved
<1>20. ASSUME NEW d \in Rec, NEW h \in Fence PROVE WorkInv(d, h)'
  <2>1. WorkInv(d, h) /\ ProjectOf(d)' = ProjectOf(d)
    BY <1>12 DEF ReleasesInv
  <2>2. CASE d = c
    BY <1>1, <1>12, <1>13, <2>1, <2>2 DEF WorkInv
  <2>3. CASE d # c
    BY <1>1, <1>12, <1>13, <2>1, <2>3 DEF WorkInv
  <2> QED BY <2>2, <2>3
<1>21. ASSUME NEW q \in Projects PROVE GatewayInv(q)'
  <2>1. GatewayInv(q) /\ gateway'[q] = gateway[q] /\ gateway[q] \in Rec \union {Nothing}
    BY <1>1, InvTyped, TablesTyped DEF ReleasesInv
  <2>2. CASE gateway[q] = Nothing
    <3>1. q # p
      BY <1>1, <1>2, <2>2 DEF WorkInv
    <3> QED BY <1>7, <2>1, <2>2, <3>1 DEF GatewayInv
  <2>3. ASSUME NEW d \in Rec, d = gateway[q] PROVE GatewayInv(q)'
    <3>1. ProjectOf(d)' = ProjectOf(d) /\ recs'[d].state \in {"prepared", "succeeded"}
      <4>1. recs[d].state \in {"prepared", "succeeded"}
        BY <2>1, <2>3, Bounds DEF GatewayInv
      <4> QED BY <1>12, <4>1
    <3> QED BY <2>1, <2>3, <3>1, Bounds DEF GatewayInv, ProjectOf
  <2> QED BY <2>1, <2>2, <2>3
<1>22. AppliedWasValidated'
  <2>1. ASSUME NEW d \in Rec, NEW s \in Migrating, recs'[d].release = s, recs'[d].state \in Active,
               recs'[d].kind = "promote", migrations[s].state \in {"isolated_validated", "applied"}
        PROVE  Healthy(Home[s])' = migrations[s].retained \union {migrations[s].current}
    <3>1. s \in Release /\ Home[s] \in Projects
      BY Bounds
    <3>2. recs'[d] = recs[d] /\ recs[d].state \in Active /\ d # c
      BY <1>12, <2>1
    <3>3. Home[s] # p
      BY <1>15, <2>1, <3>2 DEF ProjectOf
    <3>4. Healthy(Home[s]) = migrations[s].retained \union {migrations[s].current}
      BY <2>1, <3>2 DEF ReleasesInv, AppliedWasValidated
    <3> QED BY <1>19, <3>1, <3>3, <3>4
  <2> QED BY <1>1, <2>1 DEF AppliedWasValidated, Healthy, Of
<1> QED
  BY <1>9, <1>14, <1>16, <1>17, <1>18, <1>19, <1>20, <1>21, <1>22 DEF ReleasesInv

-----------------------------------------------------------------------------
(* What holds in every behaviour. *)

LEMMA InitKeeps == Init => ReleasesInv
<1> SUFFICES ASSUME Init PROVE ReleasesInv
  OBVIOUS
<1>1. /\ \A r \in Release : releases[r] = [state |-> "absent", promoted |-> 0] /\ migrations[r] = NoMigration
      /\ \A c \in Rec : recs[c] = NoRec /\ attempts[c] = <<>>
      /\ \A p \in Projects : /\ route[p] = [release |-> Nothing, generation |-> 0]
                             /\ owner[p] = NoRequest /\ gateway[p] = Nothing
      /\ \A c \in Rec, f \in Fence : worker[c][f] = "none"
  BY DEF Init
<1>2. TypeOK
  <2>1. NoMigration \in MigrationRow /\ [state |-> "absent", promoted |-> 0] \in ReleaseRow
    BY DEF NoMigration, MigrationRow, MigrationState, Operation, ReleaseRow, ReleaseState, Nothing
  <2>2. [release |-> Nothing, generation |-> 0] \in RouteRow /\ <<>> \in Seq(Attempt) /\ Len(<<>>) = 0
    BY DEF RouteRow, Nothing
  <2>3. 0 \in 0..Faults /\ 0 <= MaxAttempts
    BY Bounds
  <2>4. /\ releases \in [Release -> ReleaseRow] /\ migrations \in [Release -> MigrationRow]
        /\ recs \in [Rec -> RecRow] /\ attempts \in [Rec -> Seq(Attempt)]
        /\ route \in [Projects -> RouteRow] /\ owner \in [Projects -> RequestRow]
    BY <2>1, <2>2, RecTyped, RequestTyped DEF Init
  <2>5. /\ gateway \in [Projects -> Rec \union {Nothing}]
        /\ worker \in [Rec -> [Fence -> WorkerState]] /\ lost \in [Release -> SUBSET Losses]
        /\ faults \in 0..Faults /\ \A c \in Rec : Last(c) <= MaxAttempts
    BY <1>1, <2>2, <2>3 DEF Init, Last, WorkerState
  <2> QED BY <2>4, <2>5 DEF TypeOK, WorkerState
<1>3. \A c \in Rec : AttemptInv(c) /\ RecInv(c)
  BY <1>1 DEF AttemptInv, Owned, RecInv, NoRec
<1>4. OneActive /\ AppliedWasValidated
  BY <1>1 DEF OneActive, AppliedWasValidated, Active, NoRec
<1>5. \A r \in Release : MigrationInv(r)
  BY <1>1 DEF MigrationInv, NoMigration
<1>6. \A p \in Projects : OwnerInv(p) /\ RouteInv(p)
  <2>1. \A p \in Projects : Healthy(p) = {}
    BY <1>1 DEF Healthy, Of
  <2>2. Cardinality({}) <= Retained + 1
    BY FS_EmptySet, Bounds
  <2>3. \A p \in Projects : OwnerInv(p)
    BY <1>1 DEF OwnerInv, NoRequest
  <2>4. ASSUME NEW p \in Projects PROVE RouteInv(p)
    <3>1. route[p].release = Nothing /\ Healthy(p) = {} /\ Cardinality(Healthy(p)) <= Retained + 1
      BY <1>1, <2>1, <2>2
    <3> QED BY <3>1 DEF RouteInv
  <2> QED BY <2>3, <2>4
<1>7. \A c \in Rec, f \in Fence : WorkInv(c, f)
  BY <1>1 DEF WorkInv
<1>8. \A p \in Projects : GatewayInv(p)
  BY <1>1 DEF GatewayInv
<1> QED BY <1>2, <1>3, <1>4, <1>5, <1>6, <1>7, <1>8 DEF ReleasesInv

LEMMA WorkKeeps ==
  ASSUME ReleasesInv, NEW c \in Rec, NEW f \in Fence, Work(c, f)
  PROVE  ReleasesInv'
BY CompletePrepareTrialKeeps, CompleteIsolatedKeeps, CompletePreparedKeeps, RefusalKeeps, SwitchKeeps,
   ActivateKeeps DEF Work

LEMMA FailKeeps ==
  ASSUME ReleasesInv, Fail
  PROVE  ReleasesInv'
BY RefusalKeeps, ReportKeeps, LeaseLapses, OperationFailsKeeps, LoseKeeps DEF Fail

LEMMA RequestKeeps ==
  ASSUME ReleasesInv, Request
  PROVE  ReleasesInv'
BY PlanMigrationKeeps, ReadsKeeps, InsertsKeeps, RequestRefusedKeeps DEF Request

LEMMA StepKeeps == ReleasesInv /\ [Next]_vars => ReleasesInv'
<1> SUFFICES ASSUME ReleasesInv, [Next]_vars PROVE ReleasesInv'
  OBVIOUS
<1>1. CASE Next
  BY <1>1, RequestKeeps, LeaseExpiresKeeps, LeaseKeeps, LeaseLapses, WorkKeeps, TrialSucceedsKeeps,
     LiveApplySucceedsKeeps, FailKeeps DEF Next
<1>2. CASE UNCHANGED vars
  <2>1. /\ UNCHANGED <<releases, migrations, recs, attempts, route, owner, gateway, worker, lost>>
        /\ UNCHANGED faults
    BY <1>2 DEF vars
  <2>2. TypeOK' /\ \A c \in Rec : AttemptInv(c)'
    BY <2>1, InvTyped DEF ReleasesInv, TypeOK, AttemptInv, Owned, Last
  <2> QED BY <2>1, <2>2, Unmoved, QuietStep
<1> QED BY <1>1, <1>2

\* The inductive invariant holds in every behaviour of promotion and rollback.
THEOREM InvariantHolds == Spec => []ReleasesInv
BY InitKeeps, StepKeeps, PTL DEF Spec

\* Every row is one its table can hold, and no reconciliation has more attempts
\* than MAX_ATTEMPTS.
THEOREM TypeCorrect == Spec => []TypeOK
BY InvTyped, InvariantHolds, PTL

\* A reconciliation is worked on by the holder of its current fence, in its last
\* attempt, and a project has one reconciliation at a time (lease_reconciliation,
\* expire_reconciliations, lock_live_reconciliation).
THEOREM AlwaysOneAttempt == Spec => []OneAttempt
<1>1. ReleasesInv => OneAttempt
  <2> SUFFICES ASSUME ReleasesInv PROVE OneAttempt
    OBVIOUS
  <2>1. ASSUME NEW c \in Rec, NEW n \in 1..Last(c)
        PROVE  attempts[c][n].state = "running" <=>
                 /\ n = Last(c)
                 /\ recs[c].state \in {"running", "prepared"}
                 /\ attempts[c][n].fence = recs[c].fence
    <3>1. AttemptInv(c) /\ n \in DOMAIN attempts[c]
      BY TablesTyped DEF ReleasesInv, Last
    <3> QED BY <3>1 DEF AttemptInv, Owned
  <2> QED BY <2>1 DEF OneAttempt, OneActive, ReleasesInv
<1> QED BY <1>1, InvariantHolds, PTL

\* The routed release is healthy, its migration is live, and retention keeps no
\* more than Retained releases besides it (activate_reconciliation,
\* retire_excess_releases), whatever is promoted, rolled back or lost.
THEOREM AlwaysRoutedIsHealthy == Spec => []RoutedIsHealthy
<1>1. ReleasesInv => RoutedIsHealthy
  BY DEF ReleasesInv, RouteInv, RoutedIsHealthy
<1> QED BY <1>1, InvariantHolds, PTL

\* A migration that is validated or applied was tried with exactly the releases
\* that traffic can be on, until its reconciliation ends
\* (record_migration_runtime_validation).
THEOREM AlwaysAppliedWasValidated == Spec => []AppliedWasValidated
<1>1. ReleasesInv => AppliedWasValidated
  BY DEF ReleasesInv
<1> QED BY <1>1, InvariantHolds, PTL

\* The gateway serves the routed release, one that is about to be routed, or one
\* that was routed before, through crashes, lost leases, resumed switches and
\* coordinators that replace the route file after their lease is gone.
THEOREM AlwaysServesPrepared == Spec => []GatewayServesPrepared
<1>1. ReleasesInv => GatewayServesPrepared
  <2> SUFFICES ASSUME ReleasesInv, NEW p \in Projects, NEW c, c = gateway[p]
               PROVE  \/ c = Nothing /\ route[p].generation = 0
                      \/ /\ c # Nothing /\ ProjectOf(c) = p
                         /\ \/ recs[c].state = "prepared" /\ Generation(c) = route[p].generation + 1
                            \/ /\ recs[c].state = "succeeded" /\ Generation(c) <= route[p].generation
                               /\ Generation(c) = route[p].generation => recs[c].release = route[p].release
    BY DEF GatewayServesPrepared
  <2>1. GatewayInv(p) /\ c \in Rec \union {Nothing}
    BY InvTyped, TablesTyped DEF ReleasesInv
  <2>2. CASE c = Nothing
    BY <2>1, <2>2 DEF GatewayInv
  <2>3. CASE c \in Rec
    <3>1. RecInv(c) /\ c # Nothing /\ ProjectOf(c) = p /\ recs[c].state \in {"prepared", "succeeded"}
      BY <2>1, <2>3, Bounds DEF ReleasesInv, GatewayInv
    <3> QED BY <3>1 DEF RecInv, Generation
  <2> QED BY <2>1, <2>2, <2>3
<1> QED BY <1>1, InvariantHolds, PTL

\* The route file only ever goes back when a reconciliation that was activated
\* before is put there again.
OnlyLateReverts ==
  \A p \in Projects :
    \/ gateway'[p] = gateway[p]
    \/ \E c \in Rec :
         gateway'[p] = c /\ (recs[c].state = "succeeded" \/ Generation(gateway[p]) <= Generation(c))

LEMMA StepReverts == ReleasesInv /\ [Next]_vars => OnlyLateReverts
<1> SUFFICES ASSUME ReleasesInv, [Next]_vars PROVE OnlyLateReverts
  OBVIOUS
<1>1. CASE \E c \in Rec, f \in Fence : SwitchReplaces(c, f)
  <2>1. PICK c \in Rec, f \in Fence : SwitchReplaces(c, f)
    BY <1>1
  <2>2. recs[c].state \in {"prepared", "succeeded"} /\ RecInv(c)
    BY <2>1 DEF SwitchReplaces, ReleasesInv, WorkInv
  <2>3. PICK p \in Projects : p = ProjectOf(c)
    BY <2>2, RequestedIs
  <2>4. gateway'[p] = c /\ \A q \in Projects : q # p => gateway'[q] = gateway[q]
    BY <2>1, <2>3, InvTyped DEF SwitchReplaces, TypeOK
  <2>5. ASSUME recs[c].state = "prepared" PROVE Generation(gateway[p]) <= Generation(c)
    <3>1. GatewayInv(p) /\ gateway[p] \in Rec \union {Nothing} /\ route[p].generation \in Nat
      BY InvTyped, TablesTyped, RouteTyped DEF ReleasesInv
    <3>2. Generation(c) = route[p].generation + 1
      BY <2>2, <2>3, <2>5, Bounds DEF RecInv, Generation
    <3>3. CASE gateway[p] = Nothing
      BY <3>1, <3>2, <3>3 DEF Generation
    <3>4. ASSUME NEW d \in Rec, d = gateway[p] PROVE Generation(d) <= route[p].generation + 1
      <4>1. RecInv(d) /\ ProjectOf(d) = p /\ recs[d].state \in {"prepared", "succeeded"} /\ d # Nothing
            /\ recs[d].expected \in Nat
        BY <3>1, <3>4, Bounds, InvTyped, TablesTyped, RecTyped DEF ReleasesInv, GatewayInv
      <4> QED BY <3>1, <4>1 DEF RecInv, Generation
    <3> QED BY <3>1, <3>2, <3>3, <3>4
  <2> QED BY <2>2, <2>4, <2>5 DEF OnlyLateReverts
<1>2. CASE ~\E c \in Rec, f \in Fence : SwitchReplaces(c, f)
  <2>1. ASSUME Request PROVE UNCHANGED gateway
    BY <2>1 DEF Request, PlanMigration, StageReads, RollbackReads, StageInserts, RollbackInserts, RequestRefused
  <2>2. ASSUME NEW c \in Rec, NEW f \in Fence, Work(c, f) PROVE UNCHANGED gateway
    BY <1>2, <2>2 DEF Work, CompletePrepareTrial, CompleteIsolated, CompletePrepared, CompletionRefused,
         SwitchTests, SwitchRefused, Activate, ActivationRefused, Await
  <2>3. ASSUME Fail PROVE UNCHANGED gateway
    BY <2>3 DEF Fail, Crash, Report, Overrun, OperationFails, Lose
  <2>4. ASSUME NEW c \in Rec, Lease(c) \/ Abandoned(c) PROVE UNCHANGED gateway
    BY <2>4 DEF Lease, Abandoned
  <2>5. ASSUME NEW r \in Release, TrialSucceeds(r) \/ LiveApplySucceeds(r) PROVE UNCHANGED gateway
    BY <2>5 DEF TrialSucceeds, LiveApplySucceeds
  <2>6. ASSUME LeaseExpires \/ UNCHANGED vars PROVE UNCHANGED gateway
    BY <2>6 DEF LeaseExpires, vars
  <2>7. UNCHANGED gateway
    BY <2>1, <2>2, <2>3, <2>4, <2>5, <2>6 DEF Next
  <2> QED BY <2>7 DEF OnlyLateReverts
<1> QED BY <1>1, <1>2

\* Whoever still holds the lease of a prepared reconciliation never puts an older
\* route back, although the coordinator's test and its replacement are apart; only
\* a coordinator whose reconciliation has been activated by others can.
THEOREM HolderNeverReverts == Spec => [][OnlyLateReverts]_vars
<1>1. ReleasesInv /\ [Next]_vars => [OnlyLateReverts]_vars
  BY StepReverts
<1> QED BY <1>1, InvariantHolds, PTL DEF Spec

-----------------------------------------------------------------------------
(* What is over stays over. *)

Gone == {"failed", "retired"}
Standing == {"staged", "healthy"}

\* A lease is held, live or lapsed, exactly while somebody may work, and nobody
\* works for a release that failed or was retired.
FinalInv ==
  \A c \in Rec : /\ recs[c].lease = "none" <=> ~Owned(c)
                 /\ Owned(c) => releases[recs[c].release].state \in Standing

\* A reconciliation that succeeded or failed keeps its row and its attempts.
SettledStays ==
  \A c \in Rec : recs[c].state \in {"succeeded", "failed"} => UNCHANGED <<recs[c], attempts[c]>>

\* A route changes only by the activation of a reconciliation that was prepared
\* for the generation it replaces, and then by one generation.
RouteAdvances ==
  \A p \in Projects : route'[p] = route[p] \/ \E c \in Rec :
    /\ ProjectOf(c) = p /\ recs[c].state = "prepared" /\ recs'[c].state = "succeeded"
    /\ recs[c].expected = route[p].generation
    /\ route'[p] = [release |-> recs[c].release, generation |-> route[p].generation + 1]

\* A release that failed or was retired is never served again.
GoneStays ==
  \A r \in Release : releases[r].state \in Gone => releases'[r] = releases[r]

FinalStep == FinalInv' /\ SettledStays /\ RouteAdvances /\ GoneStays

LEMMA QuietFinal ==
  ASSUME FinalInv, UNCHANGED <<recs, attempts, releases, route>>
  PROVE  FinalStep
BY DEF FinalStep, FinalInv, Owned, SettledStays, RouteAdvances, GoneStays

\* Whoever works on another reconciliation works for another project.
LEMMA OthersElsewhere ==
  ASSUME ReleasesInv, NEW c \in Rec, recs[c].state \in Active, NEW d \in Rec, d # c, Owned(d)
  PROVE  ProjectOf(d) # ProjectOf(c) /\ recs[d].release \in Release /\ Home[recs[d].release] = ProjectOf(d)
<1>1. recs[d].state \in Active /\ recs[d].state # "absent"
  BY DEF Owned, Active, RecState
<1>2. ProjectOf(d) # ProjectOf(c)
  BY <1>1 DEF ReleasesInv, OneActive
<1> QED BY <1>1, <1>2, RequestedIs DEF ProjectOf

\* A step about one active reconciliation and the releases of its project.
LEMMA MoveFinal ==
  ASSUME ReleasesInv, FinalInv, NEW c \in Rec, recs[c].state \in Active,
         \A d \in Rec : d # c => recs'[d] = recs[d] /\ attempts'[d] = attempts[d],
         recs'[c].lease = "none" <=> ~Owned(c)',
         Owned(c)' => releases'[recs'[c].release].state \in Standing,
         \A s \in Release : \/ releases'[s] = releases[s]
                            \/ Home[s] = ProjectOf(c) /\ releases[s].state \notin Gone,
         RouteAdvances
  PROVE  FinalStep
<1>1. ASSUME NEW d \in Rec
      PROVE  /\ recs'[d].lease = "none" <=> ~Owned(d)'
             /\ Owned(d)' => releases'[recs'[d].release].state \in Standing
  <2>1. CASE d = c
    BY <2>1
  <2>2. CASE d # c
    <3>1. recs'[d] = recs[d] /\ (Owned(d)' <=> Owned(d))
      BY <2>2 DEF Owned
    <3>2. ASSUME Owned(d) PROVE releases'[recs[d].release].state \in Standing
      BY <2>2, <3>2, OthersElsewhere DEF FinalInv
    <3> QED BY <3>1, <3>2 DEF FinalInv
  <2> QED BY <2>1, <2>2
<1>2. FinalInv'
  BY <1>1 DEF FinalInv
<1>3. SettledStays
  BY DEF SettledStays, Active
<1>4. GoneStays
  BY DEF GoneStays
<1> QED BY <1>2, <1>3, <1>4 DEF FinalStep

LEMMA RouteRests == UNCHANGED route => RouteAdvances
BY DEF RouteAdvances

LEMMA FinishedLease ==
  ASSUME TypeOK, NEW c \in Rec, NEW st \in RecState
  PROVE  Finished(c, st).lease = "none"
<1>1. recs[c] \in RecRow
  BY TablesTyped
<1> QED BY <1>1 DEF Finished, RecRow

\* The attempt of c ends and c waits, is retried, succeeded or failed.
LEMMA FinishFinal ==
  ASSUME ReleasesInv, FinalInv, NEW c \in Rec, Owned(c),
         NEW state \in RecState \ {"running", "prepared"}, NEW attempt \in AttemptState \ {"running"},
         recs' = [recs EXCEPT ![c] = Finished(c, state)], attempts' = Ends(c, attempt),
         \A s \in Release : \/ releases'[s] = releases[s]
                            \/ Home[s] = ProjectOf(c) /\ releases[s].state \notin Gone,
         RouteAdvances
  PROVE  FinalStep
<1>1. Settled(c, state, attempt) /\ TypeOK /\ recs[c].state \in Active
  BY SettledIs DEF ReleasesInv, Owned, Active, RecState
<1>2. recs'[c].lease = "none"
  <2>1. recs \in [Rec -> RecRow]
    BY <1>1 DEF TypeOK
  <2> QED BY <1>1, <2>1, FinishedLease
<1>3. ~Owned(c)'
  BY <1>1 DEF Settled, Owned
<1>4. \A d \in Rec : d # c => recs'[d] = recs[d] /\ attempts'[d] = attempts[d]
  BY <1>1 DEF Settled
<1> QED BY <1>1, <1>2, <1>3, <1>4, MoveFinal

LEMMA ReportFinal ==
  ASSUME ReleasesInv, FinalInv, NEW c \in Rec, NEW f \in Fence, NEW outcome, Report(c, f, outcome)
  PROVE  FinalStep
<1>1. PICK state \in {"retriable", "failed"} :
         /\ attempts' = Ends(c, state) /\ recs' = [recs EXCEPT ![c] = Finished(c, state)]
         /\ \/ releases' = releases
            \/ FailsRelease(c) /\ releases' = [releases EXCEPT ![recs[c].release].state = "failed"]
  BY DEF Report
<1>2. recs[c].state = "running" /\ UNCHANGED route
  BY DEF Report, Live
<1>3. state \in RecState \ {"running", "prepared"} /\ state \in AttemptState \ {"running"} /\ Owned(c)
  BY <1>2 DEF RecState, AttemptState, Owned
<1>4. ASSUME NEW s \in Release
      PROVE  releases'[s] = releases[s] \/ (Home[s] = ProjectOf(c) /\ releases[s].state \notin Gone)
  <2>1. PICK r \in Release : r = recs[c].release
    BY <1>2, RequestedIs
  <2>2. releases \in [Release -> ReleaseRow]
    BY InvTyped DEF TypeOK
  <2>3. CASE s # r
    BY <1>1, <2>1, <2>2, <2>3
  <2>4. CASE s = r
    BY <1>1, <2>1, <2>4 DEF FailsRelease, ProjectOf, Gone
  <2> QED BY <2>3, <2>4
<1> QED BY <1>1, <1>2, <1>3, <1>4, RouteRests, FinishFinal

LEMMA AwaitFinal ==
  ASSUME ReleasesInv, FinalInv, NEW c \in Rec, NEW f \in Fence,
         CompletePrepareTrial(c, f) \/ CompleteIsolated(c, f)
  PROVE  FinalStep
<1>1. PICK state \in {"awaiting_trial", "awaiting_live_apply"} : Await(c, f, state)
  BY DEF CompletePrepareTrial, CompleteIsolated
<1>2. Owned(c)
  BY DEF CompletePrepareTrial, CompleteIsolated, Completable, Live, Owned
<1>3. state \in RecState \ {"running", "prepared"} /\ "succeeded" \in AttemptState \ {"running"}
  BY DEF RecState, AttemptState
<1> QED BY <1>1, <1>2, <1>3, RouteRests, FinishFinal DEF Await

\* A reconciliation that somebody owns is prepared, or its lease runs out.
LEMMA OwnedFinal ==
  ASSUME ReleasesInv, FinalInv, NEW c \in Rec, Owned(c), NEW row \in RecRow,
         recs' = [recs EXCEPT ![c] = row], row.state \in {"running", "prepared"},
         row.release = recs[c].release, row.lease # "none", UNCHANGED <<attempts, releases, route>>
  PROVE  FinalStep
<1>1. recs \in [Rec -> RecRow]
  BY InvTyped DEF TypeOK
<1>2. recs'[c] = row /\ \A d \in Rec : d # c => recs'[d] = recs[d] /\ attempts'[d] = attempts[d]
  BY <1>1
<1>3. recs[c].state \in Active /\ releases[recs[c].release].state \in Standing
  BY DEF Owned, Active, RecState, FinalInv
<1>4. Owned(c)'
  BY <1>2 DEF Owned
<1> QED BY <1>2, <1>3, <1>4, RouteRests, MoveFinal

LEMMA CompletePreparedFinal ==
  ASSUME ReleasesInv, FinalInv, NEW c \in Rec, NEW f \in Fence, CompletePrepared(c, f)
  PROVE  FinalStep
<1>1. PICK r \in Release \union {Nothing} : r = route[ProjectOf(c)].release
  <2>1. recs[c].state = "running"
    BY DEF CompletePrepared, Completable, Live
  <2> QED BY <2>1, InvTyped, RequestedIs, TablesTyped, RouteTyped
<1> DEFINE row == [recs[c] EXCEPT !.state = "prepared", !.previous = r]
<1>2. recs[c] \in RecRow /\ recs[c].lease = "live" /\ Owned(c)
  BY InvTyped, TablesTyped DEF CompletePrepared, Completable, Live, Owned
<1>3. recs' = [recs EXCEPT ![c] = row]
  BY <1>1 DEF CompletePrepared
<1>4. row \in RecRow /\ row.state = "prepared" /\ row.release = recs[c].release /\ row.lease = "live"
  BY <1>1, <1>2 DEF RecRow, RecState
<1> HIDE DEF row
<1> QED BY <1>2, <1>3, <1>4, OwnedFinal DEF CompletePrepared

LEMMA LapseFinal ==
  ASSUME ReleasesInv, FinalInv, NEW c \in Rec, Abandoned(c) \/ Overrun(c)
  PROVE  FinalStep
<1> DEFINE row == [recs[c] EXCEPT !.lease = "lapsed"]
<1>1. recs[c].lease = "live" /\ recs' = [recs EXCEPT ![c] = row] /\ UNCHANGED <<attempts, releases, route>>
  BY DEF Abandoned, Overrun
<1>2. recs[c] \in RecRow /\ Owned(c)
  BY <1>1, InvTyped, TablesTyped DEF FinalInv
<1>3. row \in RecRow /\ row.state = recs[c].state /\ row.release = recs[c].release /\ row.lease = "lapsed"
  BY <1>2 DEF RecRow
<1> HIDE DEF row
<1> QED BY <1>1, <1>2, <1>3, OwnedFinal DEF Owned

LEMMA ActivateFinal ==
  ASSUME ReleasesInv, FinalInv, NEW c \in Rec, NEW f \in Fence, Activate(c, f)
  PROVE  FinalStep
<1>1. /\ recs[c].state = "prepared" /\ Owned(c) /\ RecInv(c)
      /\ attempts' = Ends(c, "succeeded") /\ recs' = [recs EXCEPT ![c] = Finished(c, "succeeded")]
  BY DEF Activate, Activatable, Live, Owned, ReleasesInv
<1>2. PICK r \in Release, p \in Projects : r = recs[c].release /\ p = ProjectOf(c) /\ p = Home[r]
  BY <1>1, RequestedIs DEF ProjectOf
<1>3. /\ route \in [Projects -> RouteRow] /\ recs \in [Rec -> RecRow] /\ TypeOK
      /\ recs[c].expected = route[p].generation /\ releases[r].state \in Standing
  BY <1>1, <1>2, InvTyped DEF TypeOK, RecInv, FinalInv
<1>4. PICK g : g = route[p].generation + 1
  OBVIOUS
<1>5. Generation(c) = g
  BY <1>3, <1>4, Bounds DEF Generation
<1>6. /\ route' = [route EXCEPT ![p] = [release |-> r, generation |-> g]]
      /\ releases' = [s \in Release |->
           IF s = r THEN [state |-> "healthy", promoted |-> g]
           ELSE IF s \in Excess(Healthy(p) \ {r}) THEN [releases[s] EXCEPT !.state = "retired"]
           ELSE releases[s]]
  BY <1>2, <1>5 DEF Activate
<1>7. ASSUME NEW s \in Release
      PROVE  releases'[s] = releases[s] \/ (Home[s] = ProjectOf(c) /\ releases[s].state \notin Gone)
  <2>1. CASE s = r
    BY <1>2, <1>3, <2>1 DEF Standing, Gone
  <2>2. CASE s # r /\ s \in Excess(Healthy(p) \ {r})
    <3>1. s \in Healthy(p)
      BY <2>2 DEF Excess
    <3> QED BY <1>2, <3>1 DEF Healthy, Of, Gone
  <2>3. CASE s # r /\ s \notin Excess(Healthy(p) \ {r})
    BY <1>6, <2>3
  <2> QED BY <2>1, <2>2, <2>3
<1>8. "succeeded" \in RecState \ {"running", "prepared"} /\ "succeeded" \in AttemptState \ {"running"}
  BY DEF RecState, AttemptState
<1>9. RouteAdvances
  <2>1. recs'[c].state = "succeeded"
    BY <1>1, <1>3, <1>8, FinishedIs
  <2>2. route'[p] = [release |-> recs[c].release, generation |-> route[p].generation + 1]
    BY <1>2, <1>3, <1>4, <1>6
  <2>3. \A q \in Projects : q # p => route'[q] = route[q]
    BY <1>3, <1>6
  <2> QED BY <1>1, <1>2, <1>3, <2>1, <2>2, <2>3 DEF RouteAdvances
<1> QED BY <1>1, <1>7, <1>8, <1>9, FinishFinal

\* A request is the only way to a new reconciliation, on a release that is neither
\* failed nor retired before it.
LEMMA InsertFinal ==
  ASSUME ReleasesInv, FinalInv, NEW p \in Projects, StageInserts(p) \/ RollbackInserts(p)
  PROVE  FinalStep
<1>1. NextRec \in Rec /\ recs[NextRec] = NoRec
  BY NextRecIs DEF StageInserts, RollbackInserts
<1>2. PICK c \in Rec : c = NextRec /\ recs[c] = NoRec
  BY <1>1
<1>3. PICK n : recs' = [recs EXCEPT ![c] = Requested(p, n)] /\ UNCHANGED <<attempts, route>>
  BY <1>2 DEF StageInserts, RollbackInserts
<1>4. /\ recs \in [Rec -> RecRow] /\ releases \in [Release -> ReleaseRow]
      /\ \A s \in Release : releases[s] \in ReleaseRow
  BY InvTyped DEF TypeOK
<1>5. /\ recs'[c].state = "queued" /\ recs'[c].lease = "none"
      /\ \A d \in Rec : d # c => recs'[d] = recs[d]
  <2>1. recs'[c] = Requested(p, n) /\ \A d \in Rec : d # c => recs'[d] = recs[d]
    BY <1>3, <1>4
  <2> QED BY <2>1 DEF Requested, NoRec
<1>6. \A s \in Release : \/ releases'[s] = releases[s]
                         \/ releases[s].state = "absent" /\ releases'[s].state = "staged"
  <2>1. CASE UNCHANGED releases
    BY <2>1
  <2>2. CASE StageInserts(p)
    <3>1. owner[p].kind = "promote" /\ OwnerInv(p)
      BY <2>2 DEF StageInserts, ReleasesInv
    <3>2. PICK r \in Release : r = owner[p].release /\ releases[r].state = "absent"
      BY <3>1 DEF OwnerInv
    <3>3. releases' = [releases EXCEPT ![r].state = "staged"]
      BY <2>2, <3>2 DEF StageInserts
    <3>4. releases'[r].state = "staged"
      BY <1>4, <3>3, ReleaseTyped DEF ReleaseState
    <3>5. \A s \in Release : s # r => releases'[s] = releases[s]
      BY <1>4, <3>3
    <3> QED BY <3>2, <3>4, <3>5
  <2> QED BY <2>1, <2>2 DEF RollbackInserts
<1>7. FinalInv'
  <2>1. ASSUME NEW d \in Rec
        PROVE  /\ recs'[d].lease = "none" <=> ~Owned(d)'
               /\ Owned(d)' => releases'[recs'[d].release].state \in Standing
    <3>1. CASE d = c
      BY <1>5, <3>1 DEF Owned
    <3>2. CASE d # c
      <4>1. recs'[d] = recs[d] /\ (Owned(d)' <=> Owned(d))
        BY <1>5, <3>2 DEF Owned
      <4>2. ASSUME Owned(d) PROVE releases'[recs[d].release].state \in Standing
        <5>1. recs[d].release \in Release /\ releases[recs[d].release].state \in Standing
          BY <4>2, RequestedIs DEF Owned, FinalInv
        <5> QED BY <1>6, <5>1 DEF Standing
      <4> QED BY <4>1, <4>2 DEF FinalInv
    <3> QED BY <3>1, <3>2
  <2> QED BY <2>1 DEF FinalInv
<1>8. SettledStays
  BY <1>2, <1>3, <1>5 DEF SettledStays, NoRec
<1>9. GoneStays
  BY <1>6 DEF GoneStays, Gone
<1> QED BY <1>3, <1>7, <1>8, <1>9, RouteRests DEF FinalStep

\* A reconciliation after a lease's expiry: nobody's, or as it was.
LEMMA ExpiryFinal ==
  ASSUME ReleasesInv, FinalInv, NEW d \in Rec, recs'[d] = AfterExpiry(d), attempts'[d] = ExpiredAttempts(d),
         releases' = AfterExpiryReleases
  PROVE  /\ recs'[d].lease = "none" <=> ~Owned(d)'
         /\ Owned(d)' => releases'[recs'[d].release].state \in Standing
         /\ recs[d].state \in {"succeeded", "failed"} => recs'[d] = recs[d] /\ attempts'[d] = attempts[d]
<1>0. TypeOK /\ {"failed", "retriable"} \subseteq RecState
  BY InvTyped DEF RecState
<1>1. CASE Lapsed(d) \/ MigrationFailed(d)
  <2>1. PICK st \in {"failed", "retriable"} : AfterExpiry(d) = Finished(d, st)
    <3>1. CASE Lapsed(d)
      <4>1. ~MigrationFailed(d)
        BY <3>1 DEF Lapsed, MigrationFailed
      <4>2. AfterExpiry(d) = Finished(d, IF Exhausted(d) THEN "failed" ELSE "retriable")
        BY <3>1, <4>1 DEF AfterExpiry
      <4> QED BY <4>2
    <3>2. CASE ~Lapsed(d)
      BY <1>1, <3>2 DEF AfterExpiry
    <3> QED BY <3>1, <3>2
  <2>2. recs'[d].lease = "none" /\ ~Owned(d)'
    BY <1>0, <2>1, FinishedIs, FinishedLease DEF Owned
  <2> QED BY <1>1, <2>2 DEF Lapsed, MigrationFailed
<1>2. CASE ~Lapsed(d) /\ ~MigrationFailed(d)
  <2>1. recs'[d] = recs[d] /\ attempts'[d] = attempts[d]
    BY <1>2, ExpiredAttemptsIs DEF AfterExpiry
  <2>2. Owned(d)' <=> Owned(d)
    BY <2>1 DEF Owned
  <2>3. ASSUME Owned(d) PROVE releases'[recs[d].release].state \in Standing
    <3>1. PICK r \in Release : r = recs[d].release /\ releases[r].state \in Standing
      BY <2>3, RequestedIs DEF Owned, FinalInv
    <3>2. ASSUME NEW c \in Rec, MigrationFailed(c) \/ Lapsed(c) PROVE recs[c].release # r
      <4>1. c # d /\ recs[c].state \in Active
        BY <1>2, <3>2 DEF Lapsed, MigrationFailed, Active, RecState
      <4> QED BY <2>3, <3>1, <4>1, OthersElsewhere DEF ProjectOf
    <3>3. releases'[r] = releases[r]
      BY <3>2 DEF AfterExpiryReleases
    <3> QED BY <3>1, <3>3
  <2> QED BY <2>1, <2>2, <2>3 DEF FinalInv
<1> QED BY <1>1, <1>2

LEMMA ExpiryGone ==
  ASSUME releases' = AfterExpiryReleases
  PROVE  GoneStays
BY DEF AfterExpiryReleases, FailsRelease, GoneStays, Gone

LEMMA LeaseExpiresFinal ==
  ASSUME ReleasesInv, FinalInv, LeaseExpires
  PROVE  FinalStep
<1>1. /\ \A d \in Rec : recs'[d] = AfterExpiry(d) /\ attempts'[d] = ExpiredAttempts(d)
      /\ releases' = AfterExpiryReleases /\ UNCHANGED route
  BY DEF LeaseExpires
<1> QED BY <1>1, ExpiryFinal, ExpiryGone, RouteRests DEF FinalStep, FinalInv, SettledStays

LEMMA LeaseFinal ==
  ASSUME ReleasesInv, FinalInv, NEW c \in Rec, Lease(c)
  PROVE  FinalStep
<1> DEFINE row == [recs[c] EXCEPT !.state = IF recs[c].state = "prepared" THEN "prepared" ELSE "running",
                                  !.fence = recs[c].fence + 1, !.lease = "live", !.phase = LeasePhase(c)]
<1>1. /\ recs' = [d \in Rec |-> IF d # c THEN AfterExpiry(d) ELSE row]
      /\ attempts' = [d \in Rec |-> IF d = c THEN Granted(c) ELSE ExpiredAttempts(d)]
      /\ releases' = AfterExpiryReleases /\ UNCHANGED route
  BY DEF Lease, LeasedState
<1>2. recs[c] \in RecRow /\ recs[c].state \in Active
  <2>1. PICK fence : fence = recs[c].fence + 1
    OBVIOUS
  <2> QED BY <2>1, InvTyped, TablesTyped, GrantedIs DEF Lease
<1>3. row.state \in {"running", "prepared"} /\ row.lease = "live" /\ row.release = recs[c].release
  BY <1>2 DEF RecRow
<1> HIDE DEF row
<1>4. recs'[c] = row /\ Owned(c)'
  BY <1>1, <1>3 DEF Owned
<1>5. releases'[recs[c].release].state \in Standing
  <2>1. PICK r \in Release : r = recs[c].release /\ releases[r].state # "absent"
    BY <1>2, RequestedIs DEF Active
  <2>2. /\ releases' \in [Release -> ReleaseRow] /\ SameReleases
    BY <1>1, AfterExpiryReleasesIs
  <2>3. releases'[r].state \in ReleaseState \ {"absent"}
    BY <2>1, <2>2, ReleaseTyped DEF SameReleases
  <2>4. releases'[r].state \notin {"failed", "retired"}
    BY <1>1, <2>1 DEF Lease, Leasable
  <2> QED BY <2>1, <2>3, <2>4 DEF ReleaseState, Standing
<1>6. \A d \in Rec : d # c => recs'[d] = AfterExpiry(d) /\ attempts'[d] = ExpiredAttempts(d)
  BY <1>1
<1>7. ASSUME NEW d \in Rec
      PROVE  /\ recs'[d].lease = "none" <=> ~Owned(d)'
             /\ Owned(d)' => releases'[recs'[d].release].state \in Standing
             /\ recs[d].state \in {"succeeded", "failed"} => recs'[d] = recs[d] /\ attempts'[d] = attempts[d]
  <2>1. CASE d = c
    BY <1>2, <1>3, <1>4, <1>5, <2>1 DEF Active
  <2>2. CASE d # c
    BY <1>1, <1>6, <2>2, ExpiryFinal
  <2> QED BY <2>1, <2>2
<1> QED BY <1>1, <1>7, ExpiryGone, RouteRests DEF FinalStep, FinalInv, SettledStays

LEMMA StepFinal == ReleasesInv /\ FinalInv /\ [Next]_vars => FinalStep
<1> SUFFICES ASSUME ReleasesInv, FinalInv, [Next]_vars PROVE FinalStep
  OBVIOUS
<1>1. ASSUME UNCHANGED vars PROVE FinalStep
  BY <1>1, QuietFinal DEF vars
<1>2. ASSUME Request PROVE FinalStep
  <2>1. ASSUME NEW r \in Release, PlanMigration(r) \/ StageReads(r) \/ RollbackReads(r) PROVE FinalStep
    BY <2>1, QuietFinal DEF PlanMigration, StageReads, RollbackReads
  <2>2. ASSUME NEW p \in Projects, RequestRefused(p) PROVE FinalStep
    BY <2>2, QuietFinal DEF RequestRefused
  <2> QED BY <1>2, <2>1, <2>2, InsertFinal DEF Request
<1>3. ASSUME NEW c \in Rec, NEW f \in Fence, Work(c, f) PROVE FinalStep
  <2>1. ASSUME CompletionRefused(c, f) \/ SwitchTests(c, f) \/ SwitchReplaces(c, f) \/ SwitchRefused(c, f)
               \/ ActivationRefused(c, f)
        PROVE  FinalStep
    BY <2>1, QuietFinal DEF CompletionRefused, SwitchTests, SwitchReplaces, SwitchRefused, ActivationRefused
  <2> QED BY <1>3, <2>1, AwaitFinal, CompletePreparedFinal, ActivateFinal DEF Work
<1>4. ASSUME NEW r \in Release, TrialSucceeds(r) \/ LiveApplySucceeds(r) PROVE FinalStep
  BY <1>4, QuietFinal DEF TrialSucceeds, LiveApplySucceeds
<1>5. ASSUME Fail PROVE FinalStep
  <2>1. ASSUME NEW c \in Rec, NEW f \in Fence, Crash(c, f) PROVE FinalStep
    BY <2>1, QuietFinal DEF Crash
  <2>2. ASSUME NEW r \in Release, OperationFails(r) \/ \E thing \in Losses : Lose(r, thing) PROVE FinalStep
    BY <2>2, QuietFinal DEF OperationFails, Lose
  <2> QED BY <1>5, <2>1, <2>2, ReportFinal, LapseFinal DEF Fail
<1> QED BY <1>1, <1>2, <1>3, <1>4, <1>5, LeaseExpiresFinal, LeaseFinal, LapseFinal DEF Next

LEMMA InitFinal == Init => FinalInv
BY DEF Init, FinalInv, Owned, NoRec

THEOREM FinalInvariantHolds == Spec => []FinalInv
<1>1. ReleasesInv /\ FinalInv /\ [Next]_vars => FinalInv'
  BY StepFinal DEF FinalStep
<1> QED BY <1>1, InitFinal, InvariantHolds, PTL DEF Spec

\* A reconciliation that succeeded or failed keeps its row and its attempts,
\* whatever is reported, leased or expired afterwards (lock_live_reconciliation,
\* expire_reconciliations).
THEOREM SettledForGood == Spec => [][SettledStays]_vars
<1>1. ReleasesInv /\ FinalInv /\ [Next]_vars => [SettledStays]_vars
  BY StepFinal DEF FinalStep
<1> QED BY <1>1, InvariantHolds, FinalInvariantHolds, PTL DEF Spec

\* The generation of a route is a fence: it moves by one, by an activation that was
\* prepared for exactly the generation it replaces, however many prepared switches
\* were interrupted and taken up again (activate_reconciliation).
THEOREM RoutesAdvance == Spec => [][RouteAdvances]_vars
<1>1. ReleasesInv /\ FinalInv /\ [Next]_vars => [RouteAdvances]_vars
  BY StepFinal DEF FinalStep
<1> QED BY <1>1, InvariantHolds, FinalInvariantHolds, PTL DEF Spec

\* A release that failed or was retired stays so, although a rollback may be
\* requested while it is still healthy and inserted after its retirement
\* (request_rollback, lease_reconciliation, retire_excess_releases).
THEOREM GoneForGood == Spec => [][GoneStays]_vars
<1>1. ReleasesInv /\ FinalInv /\ [Next]_vars => [GoneStays]_vars
  BY StepFinal DEF FinalStep
<1> QED BY <1>1, InvariantHolds, FinalInvariantHolds, PTL DEF Spec
=============================================================================
