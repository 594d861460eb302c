-------------------------- MODULE PortfolioProofs ---------------------------
(***************************************************************************)
(* Machine-checked proofs about a portfolio's way to the public: first of  *)
(* Publications, then of Approvals.                                        *)
(*                                                                         *)
(* Publications, for any number of documents and of attempts of each: the  *)
(* invariant has three parts, kept step by step one after the other: the   *)
(* types, what the rows say (DatabaseInv), and what the files and the      *)
(* completions that work on them are like (FilesInv).                      *)
(*                                                                         *)
(* Approvals, for any drafts, releases and destinations and any number of  *)
(* approvals, activations and publications: whatever is queued for the     *)
(* public was approved or is a field the owner lets activations change,    *)
(* and facts and newest document follow the route.                         *)
(***************************************************************************)
EXTENDS Publications, Approvals, SequenceTheorems, TLAPS

-----------------------------------------------------------------------------
(* Publications: the inductive invariant. *)

\* What the queue's transactions rely on: a document that was not approved yet
\* has no publication, one without a row was never leased, and the publication
\* an open lease transaction cleans up for stays the candidate it was.
QueueInv ==
  /\ \A p \in Pub : p > docs => pubs[p].state = "absent"
  /\ \A p \in Pub : pubs[p].state = "absent" => pubs[p].attempt = Nothing
  /\ leasing # Nothing => Candidate(leasing) /\ pubs[leasing].attempt # Nothing

\* A pending promotion is of the next generation and newer than whatever is
\* published.
PromotionInv ==
  /\ site.promotion # Nothing => site.promotionGeneration = site.generation + 1
  /\ \A p \in Pub : pubs[p].state = "published" =>
       /\ pubs[p].generation <= site.generation
       /\ site.promotion # Nothing => p < site.promotion

DatabaseInv == QueueInv /\ PromotionInv /\ RowsAgree /\ LiveInOrder

\* A tree whose worker has opened it for removal, and the artifacts that may be
\* served: whole, or torn by the worker of their own tree.
Spoiled(p, a) == a \in Attempt /\ worker[p][a] \in {"removing", "cleaned"}
Sound(p) == artifacts[p] = "whole" \/ (artifacts[p] = "torn" /\ Spoiled(p, origin[p]))
Promoted(p) == pubs[p].state \in {"promotion_pending", "published"}

\* How far a completion may be, given what the worker and the files are like.
\* The removal of the next lease follows a lapsed one, and then a completion
\* whose tree it can still reach does not pass the next test of the row.
CompletionInv(p, a) ==
  /\ a > pubs[p].attempt => handler[p][a] = "none" /\ worker[p][a] = "none"
  /\ worker[p][a] \in {"none", "rendering", "failing"} => handler[p][a] = "none"
  /\ handler[p][a] \in {"installed", "tested", "prepared", "switched"} => staging[p][a] = "absent"
  /\ handler[p][a] = "tested" /\ pubs[p].attempt = a => Sound(p) /\ leasing # p
  /\ handler[p][a] \in {"prepared", "switched"} => Promoted(p)
  /\ ActiveAttempt(p, a) =>
       /\ handler[p][a] = "validated" => staging[p][a] = "whole" \/ Spoiled(p, a)
       /\ handler[p][a] = "installed" => Sound(p)

ServedInv ==
  /\ \A p \in Pub : Promoted(p) => Sound(p)
  /\ pointer # Nothing => Promoted(pointer)
  /\ reconciler.at # "idle" => reconciler.pub # Nothing /\ Promoted(reconciler.pub)

FilesInv == (\A p \in Pub, a \in Attempt : CompletionInv(p, a)) /\ ServedInv

IInv == TypeOK /\ DatabaseInv /\ FilesInv

-----------------------------------------------------------------------------
(* Type correctness. *)

LEMMA PubsAreNumbers == \A p \in Pub : p \in 0..MaxDocs /\ p \in Nat /\ p # Nothing
BY BoundsAssumption DEF Pub, Nothing

LEMMA NumbersArePubs == \A p \in 0..MaxDocs : p # Nothing => p \in Pub
BY BoundsAssumption DEF Pub, Nothing

LEMMA AttemptsAreNumbers ==
  /\ \A a \in Attempt : a \in Nat /\ a # Nothing
  /\ \A p \in Pub : \A n \in Nat : n < Leases[p] => n + 1 \in Attempt
BY BoundsAssumption DEF Attempt, Pub, Nothing

LEMMA StatesAreValues ==
  /\ "absent" \in PubState /\ "queued" \in PubState /\ "publishing" \in PubState
  /\ "promotion_pending" \in PubState /\ "published" \in PubState /\ "failed" \in PubState
  /\ "absent" \in AttemptState /\ "leased" \in AttemptState /\ "succeeded" \in AttemptState
  /\ "failed" \in AttemptState /\ "expired" \in AttemptState /\ "fenced" \in AttemptState
BY DEF PubState, AttemptState

LEMMA StepsAreValues ==
  /\ "absent" \in Tree /\ "whole" \in Tree /\ "torn" \in Tree
  /\ "none" \in WorkerState /\ "rendering" \in WorkerState /\ "failing" \in WorkerState
  /\ "reported" \in WorkerState /\ "removing" \in WorkerState /\ "cleaned" \in WorkerState
  /\ "gone" \in WorkerState
  /\ "none" \in HandlerState /\ "checked" \in HandlerState /\ "validated" \in HandlerState
  /\ "installed" \in HandlerState /\ "tested" \in HandlerState /\ "prepared" \in HandlerState
  /\ "switched" \in HandlerState /\ "ended" \in HandlerState
BY DEF Tree, WorkerState, HandlerState

LEMMA RowsTyped ==
  ASSUME TypeOK
  PROVE  /\ site \in SiteRow /\ \A p \in Pub : pubs[p] \in PubRow
         /\ site.generation \in Nat /\ site.promotionGeneration \in Nat
         /\ site.promotion \in 0..MaxDocs
<1>1. site \in SiteRow /\ \A p \in Pub : pubs[p] \in PubRow
  BY DEF TypeOK
<1> QED
  BY <1>1 DEF SiteRow

LEMMA PromotionTyped ==
  ASSUME NEW s \in SiteRow, NEW p \in 0..MaxDocs, NEW g \in Nat
  PROVE  [s EXCEPT !.promotion = p, !.promotionGeneration = g] \in SiteRow
BY DEF SiteRow

LEMMA CurrentTyped ==
  ASSUME NEW s \in SiteRow, NEW p \in 0..MaxDocs, NEW q \in 0..MaxDocs, NEW g \in Nat,
         NEW h \in Nat
  PROVE  [s EXCEPT !.current = p, !.generation = g, !.promotion = q,
                   !.promotionGeneration = h] \in SiteRow
BY DEF SiteRow

LEMMA PendingTyped ==
  ASSUME NEW r \in PubRow, NEW s \in PubState, NEW g \in Nat
  PROVE  [r EXCEPT !.state = s, !.lease = "none", !.generation = g] \in PubRow
BY DEF PubRow

LEMMA InitTyped == Init => TypeOK
BY PubsAreNumbers, StatesAreValues, StepsAreValues, BoundsAssumption
   DEF Init, TypeOK, PubRow, SiteRow, NoPub, Idle, Nothing

LEMMA OwnerTyped ==
  ASSUME TypeOK, Approve \/ CreatePublication \/ RefreshFacts
  PROVE  TypeOK'
<1> USE BoundsAssumption, StatesAreValues
<1>0. ASSUME NEW new, SupersedeUnstarted(new)
      PROVE  pubs' \in [Pub -> PubRow]
             /\ attempts' \in [Pub -> [Attempt -> AttemptState]]
  <2>1. Queued \in PubRow
    BY DEF Queued, NoPub, PubRow
  <2>2. ASSUME NEW p \in Pub PROVE [pubs[p] EXCEPT !.state = "failed"] \in
             PubRow
    BY RowsTyped, StatesAreValues DEF PubRow
  <2> QED
    BY <1>0, <2>1, <2>2 DEF SupersedeUnstarted, FencedAttempts, TypeOK
<1>1. CASE Approve
  BY <1>1 DEF Approve, TypeOK, files, actors
<1>2. CASE CreatePublication
  BY <1>2, <1>0 DEF CreatePublication, SiteRow, TypeOK, files, actors
<1>3. CASE RefreshFacts
  BY <1>3, <1>0 DEF RefreshFacts, TypeOK, files, actors
<1> QED BY <1>1, <1>2, <1>3

LEMMA GrantTyped ==
  ASSUME TypeOK, NEW p \in Pub, Candidate(p), Grant(p)
  PROVE  /\ attempts' \in [Pub -> [Attempt -> AttemptState]]
         /\ pubs' \in [Pub -> PubRow]
         /\ worker' \in [Pub -> [Attempt -> WorkerState]]
<1> DEFINE a == pubs[p].attempt + 1
<1>1. a \in Attempt
  BY AttemptsAreNumbers, RowsTyped DEF Candidate, PubRow, Nothing
<1>2. [pubs[p] EXCEPT !.state = "publishing", !.attempt = a, !.lease = "live"] \in PubRow
  <2>1. pubs[p] \in PubRow
    BY RowsTyped
  <2> HIDE DEF a
  <2> QED BY <1>1, <2>1, StatesAreValues DEF PubRow
<1>3. [b \in Attempt |-> CASE b = a -> "leased"
                           [] b # a /\ attempts[p][b] = "leased" -> "expired"
                           [] OTHER -> attempts[p][b]] \in [Attempt -> AttemptState]
  BY StatesAreValues DEF TypeOK
<1> HIDE DEF a
<1>4. worker' \in [Pub -> [Attempt -> WorkerState]]
  BY <1>1, StepsAreValues DEF TypeOK, Grant, a
<1>5. pubs' = [pubs EXCEPT ![p] = [@ EXCEPT !.state = "publishing", !.attempt = a, !.lease = "live"]]
  BY DEF Grant, a, TypeOK
<1> QED
  BY <1>2, <1>3, <1>4, <1>5 DEF Grant, TypeOK, a

\* Removals leave trees, and only where their own tree was or went.
LEMMA RemovalTyped ==
  ASSUME TypeOK, NEW p \in Pub, NEW a \in Attempt, Tears(p, a) \/ Empties(p, a)
  PROVE  staging' \in [Pub -> [Attempt -> Tree]] /\ artifacts' \in [Pub -> Tree]
<1>1. "absent" \in Tree /\ "torn" \in Tree /\ staging \in [Pub -> [Attempt -> Tree]] /\ artifacts \in [Pub -> Tree]
  BY StepsAreValues DEF TypeOK
<1>2. CASE Tears(p, a)
  <2>1. /\ [staging EXCEPT ![p][a] = "torn"] \in [Pub -> [Attempt -> Tree]]
        /\ [artifacts EXCEPT ![p] = "torn"] \in [Pub -> Tree]
    BY <1>1
  <2> QED BY <1>1, <1>2, <2>1 DEF Tears
<1>3. CASE Empties(p, a)
  BY <1>1, <1>3 DEF Empties
<1> QED BY <1>2, <1>3

LEMMA RemovalEffect ==
  ASSUME TypeOK, NEW p \in Pub, NEW a \in Attempt, Tears(p, a) \/ Empties(p, a)
  PROVE  /\ \A q \in Pub, b \in Attempt : q # p \/ b # a => staging'[q][b] = staging[q][b]
         /\ \A q \in Pub : q # p => artifacts'[q] = artifacts[q]
         /\ artifacts'[p] = artifacts[p] \/ (artifacts'[p] = "torn" /\ origin[p] = a)
         /\ staging[p][a] = "absent" => staging'[p][a] = "absent"
<1>1. CASE Tears(p, a)
  BY <1>1 DEF Tears, Moved, TypeOK
<1>2. CASE Empties(p, a)
  BY <1>2 DEF Empties, Moved, TypeOK
<1> QED BY <1>1, <1>2

LEMMA LeaseTyped ==
  ASSUME TypeOK, QueueInv, NEW p \in Pub, Lease(p)
  PROVE  TypeOK'
<1>1. CASE LeasePublication(p)
  BY <1>1, GrantTyped DEF LeasePublication, TypeOK, files
<1>2. CASE ReclaimStaging(p)
  BY <1>2, PubsAreNumbers DEF ReclaimStaging, TypeOK, files, actors
<1>3. ASSUME leasing = p
      PROVE  Candidate(p) /\ pubs[p].attempt \in Attempt
  BY <1>3, PubsAreNumbers DEF QueueInv, TypeOK, PubRow
<1>6. CASE LeaseTears(p)
  BY <1>3, <1>6, RemovalTyped DEF LeaseTears, TypeOK, database, actors
<1>7. CASE LeaseCleaned(p)
  <2>1. staging' \in [Pub -> [Attempt -> Tree]] /\ artifacts' \in [Pub -> Tree]
    BY <1>3, <1>7, RemovalTyped DEF LeaseCleaned
  <2> QED
    BY <1>3, <1>7, <2>1, GrantTyped, BoundsAssumption DEF LeaseCleaned, TypeOK, Nothing
<1>4. CASE LeaseRolledBack(p)
  BY <1>4, BoundsAssumption DEF LeaseRolledBack, TypeOK, files, actors, Nothing
<1>5. CASE Lapse(p)
  <2>1. [pubs[p] EXCEPT !.lease = "lapsed"] \in PubRow
    BY DEF TypeOK, PubRow
  <2> QED
    BY <1>5, <2>1 DEF Lapse, TypeOK, files, actors
<1> QED BY <1>1, <1>2, <1>4, <1>5, <1>6, <1>7 DEF Lease

LEMMA WorkTyped ==
  ASSUME TypeOK, NEW p \in Pub, NEW a \in Attempt, Work(p, a)
  PROVE  TypeOK'
<1>1. CASE staging' \in [Pub -> [Attempt -> Tree]] /\ worker' \in [Pub -> [Attempt -> WorkerState]]
           /\ UNCHANGED <<database, artifacts, origin, pointer, handler, reconciler>>
  BY <1>1 DEF TypeOK, database
<1>2. ASSUME NEW t \in Tree PROVE [staging EXCEPT ![p][a] = t] \in [Pub -> [Attempt -> Tree]]
  BY DEF TypeOK
<1>3. ASSUME NEW w \in WorkerState
      PROVE  [worker EXCEPT ![p][a] = w] \in [Pub -> [Attempt -> WorkerState]]
  BY DEF TypeOK
<1>4. staging \in [Pub -> [Attempt -> Tree]]
  BY DEF TypeOK
<1>5. CASE CompleteFailed(p, a)
  <2>1. [pubs[p] EXCEPT !.state = "failed", !.lease = "none"] \in PubRow
    <3>1. pubs[p] \in PubRow
      BY RowsTyped
    <3> QED BY <3>1, StatesAreValues DEF PubRow
  <2>2. pubs' = [pubs EXCEPT ![p] = [@ EXCEPT !.state = "failed", !.lease = "none"]]
    BY <1>5 DEF CompleteFailed, TypeOK
  <2>3. pubs' \in [Pub -> PubRow]
    BY <2>1, <2>2 DEF TypeOK
  <2>4. attempts' \in [Pub -> [Attempt -> AttemptState]]
    BY <1>5, StatesAreValues DEF CompleteFailed, TypeOK
  <2>5. staging' \in [Pub -> [Attempt -> Tree]] /\ worker' \in [Pub -> [Attempt -> WorkerState]]
    <3>1. worker' = [worker EXCEPT ![p][a] = "gone"]
      BY <1>5 DEF CompleteFailed
    <3>2. staging' = staging \/ staging' = [staging EXCEPT ![p][a] = "absent"]
      BY <1>5 DEF CompleteFailed
    <3> QED BY <1>2, <1>3, <1>4, <3>1, <3>2, StepsAreValues
  <2> QED
    BY <1>5, <2>3, <2>4, <2>5 DEF CompleteFailed, TypeOK
<1>6. CASE Render(p, a)
  BY <1>1, <1>2, <1>3, <1>6, StepsAreValues DEF Render
<1>7. CASE RenderFails(p, a)
  BY <1>1, <1>2, <1>3, <1>4, <1>7, StepsAreValues DEF RenderFails
<1>8. CASE WorkerDies(p, a)
  BY <1>1, <1>2, <1>3, <1>8, StepsAreValues DEF WorkerDies
<1>9. CASE WorkerCleans(p, a)
  BY <1>1, <1>3, <1>4, <1>9, StepsAreValues DEF WorkerCleans, files
<1>10. CASE WorkerTears(p, a)
  BY <1>10, RemovalTyped DEF WorkerTears, TypeOK, database, actors
<1>11. CASE WorkerCleaned(p, a)
  <2>1. staging' \in [Pub -> [Attempt -> Tree]] /\ artifacts' \in [Pub -> Tree]
    BY <1>11, RemovalTyped DEF WorkerCleaned
  <2>2. worker' \in [Pub -> [Attempt -> WorkerState]]
    BY <1>3, <1>11, StepsAreValues DEF WorkerCleaned
  <2> QED BY <1>11, <2>1, <2>2 DEF WorkerCleaned, TypeOK, database
<1> QED BY <1>5, <1>6, <1>7, <1>8, <1>9, <1>10, <1>11 DEF Work

LEMMA RefuseTyped ==
  ASSUME TypeOK, NEW p \in Pub, NEW a \in Attempt, Refuse(p, a)
  PROVE  TypeOK'
BY StepsAreValues DEF TypeOK, Refuse, Goto, files, database

LEMMA GotoTyped ==
  ASSUME TypeOK, NEW p \in Pub, NEW a \in Attempt, NEW s \in HandlerState, Goto(p, a, s)
  PROVE  handler' \in [Pub -> [Attempt -> HandlerState]]
BY DEF TypeOK, Goto

LEMMA FinalizeTyped ==
  ASSUME TypeOK, NEW p \in 0..MaxDocs, FinalizePromotion(p)
  PROVE  site' \in SiteRow /\ pubs' \in [Pub -> PubRow]
<1>1. site' \in SiteRow
  <2>1. Nothing \in 0..MaxDocs /\ 0 \in Nat
    BY BoundsAssumption DEF Nothing
  <2> QED
    BY <2>1, RowsTyped, CurrentTyped DEF FinalizePromotion
<1>2. ASSUME NEW q \in Pub PROVE [pubs[q] EXCEPT !.state = "published"] \in PubRow
  BY StatesAreValues DEF TypeOK, PubRow
<1> QED
  BY <1>1, <1>2 DEF TypeOK, FinalizePromotion

LEMMA CompleteTyped ==
  ASSUME TypeOK, NEW p \in Pub, NEW a \in Attempt, Complete(p, a)
  PROVE  TypeOK'
<1>0. CASE /\ \E s \in HandlerState : Goto(p, a, s)
           /\ UNCHANGED <<database, files, worker, reconciler>>
  BY <1>0, GotoTyped DEF TypeOK, database, files
<1>1. CASE EnsureActive(p, a) \/ ValidateStaged(p, a) \/ PrepareTests(p, a) \/ HandlerStops(p, a)
  BY <1>0, <1>1, RefuseTyped, StepsAreValues
     DEF EnsureActive, ValidateStaged, PrepareTests, HandlerStops
<1>2. CASE InstallArtifact(p, a)
  <2>1. CASE Installed(p, a) = "error"
    BY <1>2, <2>1, RefuseTyped DEF InstallArtifact
  <2>2. CASE Installed(p, a) # "error"
    <3>1. Installed(p, a) \in Tree
      BY <2>2, StepsAreValues DEF Installed, TypeOK
    <3>2. /\ artifacts \in [Pub -> Tree] /\ artifacts' = [artifacts EXCEPT ![p] = Installed(p, a)]
          /\ staging \in [Pub -> [Attempt -> Tree]] /\ staging' = [staging EXCEPT ![p][a] = "absent"]
      BY <1>2, <2>2 DEF InstallArtifact, TypeOK
    <3>3. artifacts' \in [Pub -> Tree] /\ staging' \in [Pub -> [Attempt -> Tree]]
      BY <3>1, <3>2, StepsAreValues
    <3>4. origin' \in [Pub -> Attempt \union {Nothing}]
      BY <1>2, <2>2 DEF InstallArtifact, TypeOK
    <3> QED
      BY <1>2, <2>2, <3>3, <3>4, GotoTyped, StepsAreValues DEF InstallArtifact, TypeOK, database
  <2> QED BY <2>1, <2>2
<1>3. CASE PreparePromotion(p, a)
  <2>0. NextGeneration \in Nat
    BY RowsTyped DEF NextGeneration
  <2>1. CASE StillThere(p, a)
    <3>1. site' \in SiteRow
      <4>1. site' = [site EXCEPT !.promotion = p, !.promotionGeneration = NextGeneration]
        BY <1>3, <2>1 DEF PreparePromotion
      <4> QED
        BY <2>0, <4>1, RowsTyped, PromotionTyped, PubsAreNumbers
    <3> DEFINE row == [pubs[p] EXCEPT !.state = "promotion_pending", !.lease = "none",
                                      !.generation = NextGeneration]
    <3>2. row \in PubRow
      BY <2>0, RowsTyped, PendingTyped, StatesAreValues
    <3>3. pubs' = [pubs EXCEPT ![p] = row]
      BY <1>3, <2>1 DEF PreparePromotion, TypeOK
    <3> HIDE DEF row
    <3>4. pubs' \in [Pub -> PubRow]
      BY <3>2, <3>3 DEF TypeOK
    <3>5. attempts' \in [Pub -> [Attempt -> AttemptState]]
      <4>1. attempts \in [Pub -> [Attempt -> AttemptState]]
        BY DEF TypeOK
      <4>2. attempts' = [attempts EXCEPT ![p][a] = "succeeded"]
        BY <1>3, <2>1 DEF PreparePromotion
      <4> QED
        BY <4>1, <4>2, StatesAreValues
    <3> QED
      BY <1>3, <2>1, <3>1, <3>4, <3>5, GotoTyped, StepsAreValues
         DEF PreparePromotion, TypeOK, files
  <2>2. CASE ~StillThere(p, a)
    BY <1>3, <2>2, RefuseTyped DEF PreparePromotion
  <2> QED BY <2>1, <2>2
<1>4. CASE SwitchPointer(p, a)
  BY <1>4, PubsAreNumbers, GotoTyped, StepsAreValues DEF SwitchPointer, TypeOK, database
<1>5. CASE CompleteFinalizes(p, a)
  <2>1. CASE FinalizePromotion(p) /\ Goto(p, a, "ended")
             /\ UNCHANGED <<docs, attempts, leasing, files, worker, reconciler>>
    BY <2>1, GotoTyped, FinalizeTyped, PubsAreNumbers, StepsAreValues DEF TypeOK, files
  <2> QED
    BY <1>0, <1>5, <2>1, RefuseTyped, StepsAreValues DEF CompleteFinalizes
<1> QED BY <1>1, <1>2, <1>3, <1>4, <1>5 DEF Complete

LEMMA ReconcileTyped ==
  ASSUME TypeOK, Reconcile
  PROVE  TypeOK'
<1>1. CASE ReconcileReads
  BY <1>1 DEF ReconcileReads, files, database, TypeOK, SiteRow
<1>2. CASE ReconcileSwitches
  <2>1. reconciler.pub \in 0..MaxDocs /\ Nothing \in 0..MaxDocs
    BY BoundsAssumption DEF TypeOK, Nothing
  <2>2. pointer' \in 0..MaxDocs
    BY <1>2, <2>1 DEF ReconcileSwitches, TypeOK
  <2>3. reconciler' \in [at : {"idle", "read", "switched"}, pub : 0..MaxDocs]
    BY <1>2, <2>1 DEF ReconcileSwitches, TypeOK, Idle
  <2> QED
    BY <1>2, <2>2, <2>3 DEF ReconcileSwitches, database, TypeOK
<1>3. CASE ReconcileFinalizes
  <2>1. site' \in SiteRow /\ pubs' \in [Pub -> PubRow]
    BY <1>3, FinalizeTyped DEF ReconcileFinalizes, TypeOK
  <2> QED
    BY <1>3, <2>1, BoundsAssumption DEF ReconcileFinalizes, files, TypeOK, Idle, Nothing
<1>4. CASE ReconcilerStops
  BY <1>4, BoundsAssumption DEF ReconcilerStops, files, database, TypeOK, Idle, Nothing
<1> QED BY <1>1, <1>2, <1>3, <1>4 DEF Reconcile

-----------------------------------------------------------------------------
(* The rows. *)

LEMMA DatabaseUnchanged ==
  ASSUME DatabaseInv, UNCHANGED database
  PROVE  DatabaseInv'
BY DEF DatabaseInv, QueueInv, PromotionInv, RowsAgree, LiveInOrder, database, Candidate, Newest

LEMMA NumbersTyped ==
  ASSUME TypeOK
  PROVE  /\ docs \in Nat /\ site.generation \in Nat /\ site.promotionGeneration \in Nat
         /\ site.promotion \in Nat /\ site.current \in Nat
         /\ site.promotion \in Pub \cup {Nothing} /\ site.current \in Pub \cup {Nothing}
         /\ \A p \in Pub : pubs[p].generation \in Nat
                           /\ pubs[p].attempt \in Nat /\ pubs[p].attempt \in Attempt \cup {Nothing}
<1>1. site.promotion \in 0..MaxDocs /\ site.current \in 0..MaxDocs
  BY RowsTyped DEF SiteRow
<1>2. docs \in Nat
  BY BoundsAssumption DEF TypeOK
<1>3. \A p \in Pub : pubs[p].generation \in Nat /\ pubs[p].attempt \in Attempt \cup {Nothing}
  BY RowsTyped DEF PubRow
<1> QED
  BY <1>1, <1>2, <1>3, RowsTyped, NumbersArePubs, AttemptsAreNumbers, BoundsAssumption DEF Nothing

LEMMA InitKeeps == Init => DatabaseInv /\ FilesInv
BY PubsAreNumbers, AttemptsAreNumbers
   DEF Init, DatabaseInv, QueueInv, PromotionInv, RowsAgree, LiveInOrder, NoPub, FilesInv,
       CompletionInv, ServedInv, Promoted, ActiveAttempt, Idle, Nothing

LEMMA ApproveKeeps ==
  ASSUME TypeOK, DatabaseInv, Approve
  PROVE  DatabaseInv'
BY NumbersTyped, PubsAreNumbers
   DEF Approve, DatabaseInv, QueueInv, PromotionInv, RowsAgree, LiveInOrder, Candidate, Newest

\* A new publication is queued in place of the unstarted ones.
LEMMA SupersedeKeeps ==
  ASSUME TypeOK, DatabaseInv, NEW new \in Pub, pubs[new].state = "absent", leasing = Nothing,
         SupersedeUnstarted(new), docs' \in {docs, docs + 1}, new <= docs',
         site' \in {site, [site EXCEPT !.exists = TRUE]}, UNCHANGED leasing
  PROVE  DatabaseInv'
<1>1. /\ site'.promotion = site.promotion /\ site'.current = site.current
      /\ site'.generation = site.generation
      /\ site'.promotionGeneration = site.promotionGeneration
  BY RowsTyped DEF SiteRow
<1>2. ASSUME NEW p \in Pub
      PROVE  /\ p \in Unstarted /\ p # new => pubs'[p].state = "failed"
                                              /\ pubs'[p].attempt = pubs[p].attempt
                                              /\ pubs'[p].generation = pubs[p].generation
             /\ p \notin Unstarted /\ p # new => pubs'[p] = pubs[p]
             /\ p = new => pubs'[p].state = "queued" /\ pubs'[p].attempt = Nothing
             /\ p \notin Unstarted => attempts'[p] = attempts[p]
             /\ \A a \in Attempt : attempts'[p][a] = "leased" => p \notin Unstarted /\ attempts[p][a] = "leased"
  BY RowsTyped DEF SupersedeUnstarted, FencedAttempts, Queued, NoPub, PubRow, TypeOK
<1>3. \A p \in Pub : p \in Unstarted <=> pubs[p].state \in {"queued", "publishing"}
  BY DEF Unstarted
<1> HIDE DEF SupersedeUnstarted, Unstarted
<1>4. RowsAgree'
  BY <1>1, <1>2, <1>3 DEF DatabaseInv, RowsAgree
<1>5. QueueInv'
  BY <1>2, <1>3, NumbersTyped, PubsAreNumbers DEF DatabaseInv, QueueInv
<1>6. PromotionInv' /\ LiveInOrder'
  BY <1>1, <1>2, <1>3 DEF DatabaseInv, PromotionInv, LiveInOrder
<1> QED BY <1>4, <1>5, <1>6 DEF DatabaseInv

LEMMA GrantKeeps ==
  ASSUME TypeOK, DatabaseInv, NEW p \in Pub, Candidate(p), Grant(p), UNCHANGED <<docs, site>>,
         leasing' = Nothing
  PROVE  DatabaseInv'
<1> DEFINE a == pubs[p].attempt + 1
<1>0. a \in Attempt
  BY AttemptsAreNumbers, RowsTyped DEF Candidate, PubRow, Nothing
<1>1. /\ \A q \in Pub : q # p => pubs'[q] = pubs[q] /\ attempts'[q] = attempts[q]
      /\ pubs'[p].state = "publishing" /\ pubs'[p].attempt = a
      /\ pubs'[p].generation = pubs[p].generation
      /\ \A b \in Attempt : attempts'[p][b] = "leased" <=> b = a
  BY <1>0, RowsTyped DEF Grant, TypeOK, PubRow
<1>2. pubs[p].state \in {"queued", "publishing"} /\ site.promotion = Nothing
  BY DEF Candidate
<1> HIDE DEF a
<1>3. RowsAgree'
  BY <1>0, <1>1, <1>2 DEF DatabaseInv, RowsAgree
<1>4. QueueInv'
  BY <1>1, <1>2 DEF DatabaseInv, QueueInv
<1>5. PromotionInv' /\ LiveInOrder'
  BY <1>1, <1>2 DEF DatabaseInv, PromotionInv, LiveInOrder
<1> QED BY <1>3, <1>4, <1>5 DEF DatabaseInv

LEMMA LeaseKeeps ==
  ASSUME TypeOK, DatabaseInv, NEW p \in Pub, Lease(p)
  PROVE  DatabaseInv'
<1>1. CASE LeasePublication(p)
  BY <1>1, GrantKeeps DEF LeasePublication
<1>2. CASE ReclaimStaging(p)
  BY <1>2, PubsAreNumbers
     DEF ReclaimStaging, Leftover, DatabaseInv, QueueInv, PromotionInv, RowsAgree, LiveInOrder,
         Candidate, Newest
<1>3. CASE LeaseCleaned(p)
  BY <1>3, GrantKeeps, PubsAreNumbers DEF LeaseCleaned, DatabaseInv, QueueInv
<1>6. CASE LeaseTears(p)
  BY <1>6, DatabaseUnchanged DEF LeaseTears
<1>4. CASE LeaseRolledBack(p)
  BY <1>4 DEF LeaseRolledBack, DatabaseInv, QueueInv, PromotionInv, RowsAgree, LiveInOrder
<1>5. CASE Lapse(p)
  <2>1. /\ \A q \in Pub : q # p => pubs'[q] = pubs[q]
        /\ pubs'[p].state = pubs[p].state /\ pubs'[p].attempt = pubs[p].attempt
        /\ pubs'[p].generation = pubs[p].generation
        /\ pubs[p].state = "publishing" /\ pubs[p].lease = "live"
        /\ UNCHANGED <<docs, site, attempts, leasing>>
    BY <1>5, RowsTyped DEF Lapse, TypeOK, PubRow
  <2>2. RowsAgree' /\ PromotionInv' /\ LiveInOrder'
    BY <2>1 DEF DatabaseInv, RowsAgree, PromotionInv, LiveInOrder
  <2>3. leasing' # Nothing => Candidate(leasing)' /\ pubs'[leasing'].attempt # Nothing
    <3> SUFFICES ASSUME leasing # Nothing
                 PROVE  Candidate(leasing)' /\ pubs'[leasing'].attempt # Nothing
      BY <2>1
    <3>1. leasing \in Pub /\ leasing # p
      BY NumbersArePubs, <2>1 DEF DatabaseInv, QueueInv, Candidate, TypeOK
    <3> QED
      BY <2>1, <3>1 DEF DatabaseInv, QueueInv, Candidate, Newest
  <2>4. QueueInv'
    BY <2>1, <2>3 DEF DatabaseInv, QueueInv
  <2> QED BY <2>2, <2>4 DEF DatabaseInv
<1> QED BY <1>1, <1>2, <1>3, <1>4, <1>5, <1>6 DEF Lease

LEMMA FailKeeps ==
  ASSUME TypeOK, DatabaseInv, NEW p \in Pub, NEW a \in Attempt, CompleteFailed(p, a)
  PROVE  DatabaseInv'
<1>1. /\ \A q \in Pub : q # p => pubs'[q] = pubs[q] /\ attempts'[q] = attempts[q]
      /\ \A b \in Attempt : attempts'[p][b] = IF b = a THEN "failed" ELSE attempts[p][b]
      /\ pubs'[p].state = "failed" /\ pubs'[p].attempt = pubs[p].attempt
      /\ pubs[p].state = "publishing" /\ pubs[p].attempt = a
      /\ UNCHANGED <<docs, site, leasing>> /\ leasing = Nothing
  BY RowsTyped DEF CompleteFailed, ActiveAttempt, TypeOK, PubRow
<1>2. RowsAgree'
  BY <1>1 DEF DatabaseInv, RowsAgree
<1>3. QueueInv' /\ PromotionInv' /\ LiveInOrder'
  BY <1>1 DEF DatabaseInv, QueueInv, PromotionInv, LiveInOrder
<1> QED BY <1>2, <1>3 DEF DatabaseInv

LEMMA PrepareKeeps ==
  ASSUME TypeOK, DatabaseInv, NEW p \in Pub, NEW a \in Attempt, PreparePromotion(p, a),
         StillThere(p, a)
  PROVE  DatabaseInv'
<1>1. /\ \A q \in Pub : q # p => pubs'[q] = pubs[q] /\ attempts'[q] = attempts[q]
      /\ \A b \in Attempt : attempts'[p][b] = IF b = a THEN "succeeded" ELSE attempts[p][b]
      /\ pubs'[p].state = "promotion_pending" /\ pubs'[p].attempt = a
      /\ pubs'[p].generation = site.generation + 1
      /\ UNCHANGED <<docs, leasing>> /\ leasing = Nothing
  BY RowsTyped DEF PreparePromotion, StillThere, TypeOK, PubRow, NextGeneration
<1>2. /\ site'.promotion = p /\ site'.promotionGeneration = site.generation + 1
      /\ site'.current = site.current /\ site'.generation = site.generation
  BY RowsTyped DEF PreparePromotion, NextGeneration, SiteRow
<1>3. /\ pubs[p].state = "publishing" /\ pubs[p].attempt = a /\ site.promotion = Nothing
      /\ \A q \in Pub : q > p => pubs[q].state = "absent"
  BY DEF StillThere, Newest
<1> USE PubsAreNumbers, NumbersTyped
<1>4. RowsAgree'
  BY <1>1, <1>2, <1>3 DEF DatabaseInv, RowsAgree
<1>5. QueueInv'
  BY <1>1, <1>3 DEF DatabaseInv, QueueInv
<1>6. PromotionInv'
  BY <1>1, <1>2, <1>3 DEF DatabaseInv, PromotionInv
<1>7. LiveInOrder'
  BY <1>1, <1>2, <1>3 DEF DatabaseInv, PromotionInv, RowsAgree, LiveInOrder
<1> QED BY <1>4, <1>5, <1>6, <1>7 DEF DatabaseInv

LEMMA FinalizeKeeps ==
  ASSUME TypeOK, DatabaseInv, NEW p \in Pub, site.promotion = p, FinalizePromotion(p),
         UNCHANGED <<docs, attempts, leasing>>
  PROVE  DatabaseInv'
<1>1. /\ \A q \in Pub : q # p => pubs'[q] = pubs[q]
      /\ pubs'[p].state = "published" /\ pubs'[p].attempt = pubs[p].attempt
      /\ pubs'[p].generation = pubs[p].generation
  BY RowsTyped DEF FinalizePromotion, TypeOK, PubRow
<1>2. /\ site'.promotion = Nothing /\ site'.current = p
      /\ site'.generation = site.promotionGeneration
  BY RowsTyped DEF FinalizePromotion, SiteRow
<1>3. /\ pubs[p].state = "promotion_pending" /\ pubs[p].generation = site.promotionGeneration
      /\ site.promotionGeneration = site.generation + 1
  BY PubsAreNumbers DEF DatabaseInv, RowsAgree, PromotionInv
<1>4. leasing = Nothing
  BY NumbersArePubs, PubsAreNumbers DEF TypeOK, DatabaseInv, QueueInv, Candidate
<1> USE PubsAreNumbers, NumbersTyped
<1>5. RowsAgree'
  BY <1>1, <1>2, <1>3 DEF DatabaseInv, RowsAgree
<1>6. QueueInv'
  BY <1>1, <1>3, <1>4 DEF DatabaseInv, QueueInv
<1>7. PromotionInv'
  BY <1>1, <1>2, <1>3 DEF DatabaseInv, PromotionInv
<1>8. LiveInOrder'
  BY <1>1, <1>2, <1>3 DEF DatabaseInv, PromotionInv, RowsAgree, LiveInOrder
<1> QED BY <1>5, <1>6, <1>7, <1>8 DEF DatabaseInv

-----------------------------------------------------------------------------
(* The completions and the files. *)

\* A completion is not disturbed by a step that leaves its own state and tree
\* alone, tears only what its worker removes, and gives its attempt no new claim.
LEMMA CompletionStable ==
  ASSUME NEW p \in Pub, NEW a \in Attempt, CompletionInv(p, a),
         handler'[p][a] = handler[p][a], worker'[p][a] = worker[p][a],
         staging'[p][a] = staging[p][a],
         Sound(p) => Sound(p)', Promoted(p) => Promoted(p)',
         pubs'[p].attempt = pubs[p].attempt, leasing' = p => leasing = p,
         ActiveAttempt(p, a)' => ActiveAttempt(p, a)
  PROVE  CompletionInv(p, a)'
<1>1. Spoiled(p, a) => Spoiled(p, a)'
  BY DEF Spoiled
<1> HIDE DEF Sound, Spoiled, Promoted, ActiveAttempt
<1> QED
  BY <1>1 DEF CompletionInv

\* An artifact stays sound: once its worker has begun it does not stop being a
\* removal, and nobody else tears it.
LEMMA SoundStable ==
  ASSUME NEW q \in Pub, Sound(q), origin'[q] = origin[q],
         Spoiled(q, origin[q]) => worker'[q][origin[q]] \in {"removing", "cleaned"},
         \/ artifacts'[q] = artifacts[q]
         \/ artifacts'[q] = "torn" /\ Spoiled(q, origin[q])
  PROVE  Sound(q)'
BY DEF Sound, Spoiled

LEMMA SoundUnmoved ==
  ASSUME UNCHANGED <<artifacts, origin, worker>>
  PROVE  \A q \in Pub : Sound(q) => Sound(q)'
BY DEF Sound, Spoiled

LEMMA ServedStable ==
  ASSUME TypeOK, ServedInv,
         \A q \in Pub : Promoted(q) => Promoted(q)' /\ Sound(q)',
         \A q \in Pub : Promoted(q)' => Promoted(q) \/ Sound(q)',
         pointer' = pointer \/ (pointer' \in Pub /\ pubs[pointer'].state \in {"promotion_pending", "published"}),
         \/ reconciler'.at = "idle"
         \/ reconciler'.pub \in Pub /\ pubs[reconciler'.pub].state \in {"promotion_pending", "published"}
  PROVE  ServedInv'
<1>1. pointer # Nothing => pointer \in Pub /\ pubs[pointer].state \in {"promotion_pending", "published"}
  BY NumbersArePubs DEF TypeOK, ServedInv, Promoted
<1>2. pointer' # Nothing => pubs'[pointer'].state \in {"promotion_pending", "published"}
  BY <1>1 DEF Promoted
<1>3. reconciler'.at # "idle" =>
        reconciler'.pub # Nothing /\ pubs'[reconciler'.pub].state \in {"promotion_pending", "published"}
  BY PubsAreNumbers DEF Promoted
<1>4. \A q \in Pub : Promoted(q)' => Sound(q)'
  OBVIOUS
<1> HIDE DEF Sound
<1> QED
  BY <1>2, <1>3, <1>4 DEF ServedInv, Promoted

\* What the reaper works on was promoted.
LEMMA ReconcilerPub ==
  ASSUME TypeOK, ServedInv
  PROVE  \/ reconciler.at = "idle"
         \/ reconciler.pub \in Pub /\ pubs[reconciler.pub].state \in {"promotion_pending", "published"}
BY NumbersArePubs DEF TypeOK, ServedInv, Promoted

\* Transactions that touch no file and wake no actor, and give no claim.
LEMMA RowsKeepFiles ==
  ASSUME TypeOK, FilesInv, UNCHANGED <<files, worker, handler>>,
         UNCHANGED reconciler \/ reconciler' = Idle,
         \A q \in Pub : pubs'[q].attempt = pubs[q].attempt,
         \A q \in Pub : Promoted(q)' <=> Promoted(q),
         leasing' \in {leasing, Nothing},
         \A q \in Pub, b \in Attempt : ActiveAttempt(q, b)' => ActiveAttempt(q, b)
  PROVE  FilesInv'
<1>0. UNCHANGED <<staging, artifacts, origin, pointer>>
  BY DEF files
<1>1. \A q \in Pub : Sound(q) => Sound(q)'
  BY <1>0, SoundUnmoved
<1>2. ASSUME NEW q \in Pub, NEW b \in Attempt PROVE CompletionInv(q, b)'
  BY <1>0, <1>1, CompletionStable, PubsAreNumbers DEF FilesInv
<1>3. \/ reconciler'.at = "idle"
      \/ reconciler'.pub \in Pub /\ pubs[reconciler'.pub].state \in {"promotion_pending", "published"}
  BY ReconcilerPub DEF FilesInv, Idle
<1>4. ServedInv'
  BY <1>0, <1>1, <1>3, ServedStable DEF FilesInv, ServedInv
<1> QED
  BY <1>2, <1>4 DEF FilesInv

LEMMA SupersedeKeepsFiles ==
  ASSUME TypeOK, QueueInv, FilesInv, NEW new \in Pub, pubs[new].state = "absent",
         SupersedeUnstarted(new), UNCHANGED <<leasing, files, actors>>
  PROVE  FilesInv'
<1>2. \A q \in Pub : pubs'[q].attempt = pubs[q].attempt
  BY RowsTyped DEF SupersedeUnstarted, QueueInv, Queued, NoPub, PubRow
<1>3. ASSUME NEW q \in Pub, NEW b \in Attempt, ActiveAttempt(q, b)' PROVE ActiveAttempt(q, b)
  <2>1. pubs'[q].state = "publishing"
    BY <1>3 DEF ActiveAttempt
  <2>2. q # new /\ q \notin Unstarted
    BY <2>1, RowsTyped DEF SupersedeUnstarted, Queued, NoPub, PubRow
  <2>3. pubs'[q] = pubs[q]
    BY <2>2 DEF SupersedeUnstarted
  <2> QED
    BY <2>1, <2>2, <2>3 DEF Unstarted
<1>4. \A q \in Pub : Promoted(q)' <=> Promoted(q)
  BY RowsTyped DEF SupersedeUnstarted, Unstarted, Queued, NoPub, PubRow, Promoted
<1> QED
  BY <1>2, <1>3, <1>4, RowsKeepFiles DEF actors

LEMMA OwnerKeeps ==
  ASSUME IInv, Approve \/ CreatePublication \/ RefreshFacts
  PROVE  DatabaseInv' /\ FilesInv'
<1> USE DEF IInv
<1>1. CASE Approve
  <2>1. FilesInv'
    BY <1>1, RowsKeepFiles DEF Approve, actors, ActiveAttempt, Promoted
  <2> QED BY <1>1, <2>1, ApproveKeeps
<1>2. CASE CreatePublication
  <2>1. docs \in Pub /\ docs \in Nat /\ docs' = docs
    BY <1>2, NumbersArePubs, NumbersTyped DEF CreatePublication, TypeOK
  <2>2. CASE pubs[docs].state = "absent"
    BY <1>2, <2>1, <2>2, SupersedeKeeps, SupersedeKeepsFiles DEF CreatePublication, DatabaseInv
  <2>3. CASE pubs[docs].state # "absent"
    <3>1. /\ site'.promotion = site.promotion /\ site'.current = site.current
          /\ site'.generation = site.generation
          /\ site'.promotionGeneration = site.promotionGeneration
          /\ UNCHANGED <<docs, pubs, attempts, leasing, files, actors>>
      BY <1>2, <2>3, RowsTyped DEF CreatePublication, SiteRow
    <3>2. DatabaseInv'
      BY <3>1 DEF DatabaseInv, QueueInv, PromotionInv, RowsAgree, LiveInOrder, Candidate, Newest
    <3> QED
      BY <3>1, <3>2, RowsKeepFiles DEF actors, ActiveAttempt, Promoted
  <2> QED BY <2>2, <2>3
<1>3. CASE RefreshFacts
  <2>1. docs' \in Pub /\ docs' = docs + 1 /\ docs \in Nat
    BY <1>3, BoundsAssumption DEF RefreshFacts, Pub
  <2>2. pubs[docs + 1].state = "absent"
    BY <2>1 DEF DatabaseInv, QueueInv
  <2>3. CASE site.exists
    <3>1. SupersedeUnstarted(docs + 1) /\ docs + 1 <= docs'
      BY <1>3, <2>1, <2>3 DEF RefreshFacts
    <3> QED
      BY <1>3, <2>1, <2>2, <3>1, SupersedeKeeps, SupersedeKeepsFiles DEF RefreshFacts, DatabaseInv
  <2>4. CASE ~site.exists
    <3>1. FilesInv'
      BY <1>3, <2>4, RowsKeepFiles DEF RefreshFacts, actors, ActiveAttempt, Promoted
    <3>2. UNCHANGED <<site, pubs, attempts, leasing>>
      BY <1>3, <2>4 DEF RefreshFacts
    <3>3. DatabaseInv'
      BY <2>1, <3>2, PubsAreNumbers
         DEF DatabaseInv, QueueInv, PromotionInv, RowsAgree, LiveInOrder, Candidate, Newest
    <3> QED BY <3>1, <3>3
  <2> QED BY <2>3, <2>4
<1> QED BY <1>1, <1>2, <1>3

\* A grant makes the attempts before it powerless, whatever was done to their
\* trees: the artifact may be torn by the lease only while nothing is promoted.
LEMMA GrantKeepsFiles ==
  ASSUME TypeOK, FilesInv, NEW p \in Pub, Candidate(p), Grant(p), leasing' = Nothing,
         \/ UNCHANGED <<staging, artifacts>>
         \/ pubs[p].attempt \in Attempt /\ Empties(p, pubs[p].attempt),
         UNCHANGED <<site, origin, pointer, handler, reconciler>>
  PROVE  FilesInv'
<1>a. pubs[p].attempt + 1 \in Attempt /\ pubs[p].attempt \in Nat
  BY AttemptsAreNumbers, RowsTyped DEF Candidate, PubRow, Nothing
<1>0. PICK a \in Attempt : a = pubs[p].attempt + 1 /\ pubs[p].attempt \in Nat
  BY <1>a
<1>1. /\ \A q \in Pub : q # p => /\ pubs'[q] = pubs[q] /\ attempts'[q] = attempts[q]
                                 /\ worker'[q] = worker[q]
      /\ pubs'[p].attempt = a /\ pubs'[p].state = "publishing"
      /\ \A b \in Attempt : b # a => worker'[p][b] = worker[p][b]
      /\ worker'[p][a] = "rendering"
  BY <1>0, RowsTyped DEF Grant, TypeOK, PubRow
<1>b. /\ \A q \in Pub, b \in Attempt : q # p \/ b # pubs[p].attempt => staging'[q][b] = staging[q][b]
      /\ \A q \in Pub : q # p => artifacts'[q] = artifacts[q]
      /\ \A b \in Attempt : staging[p][b] = "absent" => staging'[p][b] = "absent"
  BY RemovalEffect
<1>c. ~Promoted(p) /\ ~Promoted(p)'
  BY <1>1 DEF Candidate, Promoted
<1>d. \A q \in Pub : q # p => /\ Sound(q) => Sound(q)'
                              /\ Promoted(q)' <=> Promoted(q)
                              /\ \A b \in Attempt : ActiveAttempt(q, b)' <=> ActiveAttempt(q, b)
  BY <1>1, <1>b DEF Sound, Spoiled, Promoted, ActiveAttempt
<1>2. ASSUME NEW q \in Pub, NEW b \in Attempt, q # p PROVE CompletionInv(q, b)'
  <2>1. /\ handler'[q][b] = handler[q][b] /\ worker'[q][b] = worker[q][b]
        /\ staging'[q][b] = staging[q][b] /\ pubs'[q].attempt = pubs[q].attempt
        /\ CompletionInv(q, b)
    BY <1>1, <1>b, <1>2 DEF FilesInv
  <2> QED
    BY <1>d, <1>2, <2>1, CompletionStable, PubsAreNumbers
<1>3. CompletionInv(p, a)'
  <2>1. a > pubs[p].attempt
    BY <1>0
  <2>2. handler'[p][a] = "none"
    BY <1>0, <2>1 DEF FilesInv, CompletionInv
  <2>3. ~(a > a)
    BY <1>0
  <2> QED
    BY <1>1, <2>2, <2>3 DEF CompletionInv
<1>4. ASSUME NEW b \in Attempt, b # a PROVE CompletionInv(p, b)'
  <2>1. CompletionInv(p, b) /\ ~ActiveAttempt(p, b)' /\ worker'[p][b] = worker[p][b]
    BY <1>1, <1>4 DEF FilesInv, ActiveAttempt
  <2>2. b > pubs'[p].attempt => b > pubs[p].attempt
    BY <1>0, <1>1, AttemptsAreNumbers
  <2>3. pubs'[p].attempt # b /\ (staging[p][b] = "absent" => staging'[p][b] = "absent")
    BY <1>1, <1>b, <1>4
  <2> HIDE DEF Sound, Spoiled, Promoted, ActiveAttempt
  <2> QED
    BY <1>c, <2>1, <2>2, <2>3 DEF CompletionInv
<1>5. ServedInv'
  BY <1>c, <1>d, ServedStable, ReconcilerPub DEF FilesInv, ServedInv
<1> QED
  BY <1>2, <1>3, <1>4, <1>5 DEF FilesInv

LEMMA LeaseKeepsFiles ==
  ASSUME TypeOK, QueueInv, FilesInv, NEW p \in Pub, Lease(p)
  PROVE  FilesInv'
<1>0. ASSUME leasing = p
      PROVE  /\ Candidate(p) /\ pubs[p].attempt \in Attempt
             /\ ~ActiveAttempt(p, pubs[p].attempt) /\ ~Promoted(p)
  BY <1>0, PubsAreNumbers DEF QueueInv, TypeOK, PubRow, Candidate, ActiveAttempt, Promoted
<1>1. CASE LeasePublication(p)
  BY <1>1, GrantKeepsFiles DEF LeasePublication, files
<1>2. CASE ReclaimStaging(p)
  <2>1. /\ UNCHANGED <<pubs, attempts, files, worker, handler, reconciler>> /\ leasing' = p
        /\ staging[p][pubs[p].attempt] # "absent" /\ leasing = Nothing
    BY <1>2 DEF ReclaimStaging, Leftover, actors
  <2>2. UNCHANGED <<staging, artifacts, origin, pointer>>
    BY <2>1 DEF files
  <2>3. /\ \A q \in Pub : (Sound(q)' <=> Sound(q)) /\ (Promoted(q)' <=> Promoted(q))
        /\ \A q \in Pub, b \in Attempt : /\ ActiveAttempt(q, b)' <=> ActiveAttempt(q, b)
                                         /\ Spoiled(q, b)' <=> Spoiled(q, b)
    BY <2>1, <2>2 DEF Sound, Spoiled, Promoted, ActiveAttempt
  <2>4. ASSUME NEW q \in Pub, NEW b \in Attempt PROVE CompletionInv(q, b)'
    <3>1. CompletionInv(q, b)
      BY DEF FilesInv
    <3>2. handler[q][b] = "tested" /\ pubs[q].attempt = b => q # p
      BY <2>1, <3>1 DEF CompletionInv
    <3> HIDE DEF Sound, Spoiled, Promoted, ActiveAttempt
    <3> QED
      BY <2>1, <2>2, <2>3, <3>1, <3>2 DEF CompletionInv
  <2>5. ServedInv'
    BY <2>1, <2>2, <2>3, ServedStable, ReconcilerPub DEF FilesInv, ServedInv
  <2> QED
    BY <2>4, <2>5 DEF FilesInv
<1>3. CASE LeaseCleaned(p)
  BY <1>0, <1>3, GrantKeepsFiles DEF LeaseCleaned
<1>6. CASE LeaseTears(p)
  <2>0. leasing = p /\ UNCHANGED <<leasing, pubs, attempts, origin, pointer, worker, handler, reconciler>>
    BY <1>6 DEF LeaseTears, database, actors
  <2>1. PICK a \in Attempt : a = pubs[p].attempt /\ ~ActiveAttempt(p, a) /\ ~Promoted(p)
    BY <1>0, <2>0
  <2>2. /\ \A q \in Pub, b \in Attempt : q # p \/ b # a => staging'[q][b] = staging[q][b]
        /\ \A q \in Pub : q # p => artifacts'[q] = artifacts[q]
        /\ staging[p][a] = "absent" => staging'[p][a] = "absent"
    BY <1>6, <2>1, RemovalEffect DEF LeaseTears
  <2>3. /\ \A q \in Pub : (q # p => (Sound(q)' <=> Sound(q))) /\ (Promoted(q)' <=> Promoted(q))
        /\ \A q \in Pub, b \in Attempt : /\ ActiveAttempt(q, b)' <=> ActiveAttempt(q, b)
                                         /\ Spoiled(q, b)' <=> Spoiled(q, b)
    BY <2>0, <2>2 DEF Sound, Spoiled, Promoted, ActiveAttempt
  <2>4. ASSUME NEW q \in Pub, NEW b \in Attempt PROVE CompletionInv(q, b)'
    <3>1. CompletionInv(q, b)
      BY DEF FilesInv
    <3>2. q = p => ~ActiveAttempt(p, b)
      BY <2>1 DEF ActiveAttempt
    <3>3. q = p => ~(handler[p][b] = "tested" /\ pubs[p].attempt = b)
      BY <2>0, <3>1 DEF CompletionInv
    <3>4. staging[q][b] = "absent" => staging'[q][b] = "absent"
      BY <2>2
    <3> HIDE DEF Sound, Spoiled, Promoted, ActiveAttempt
    <3> QED
      BY <2>0, <2>1, <2>2, <2>3, <3>1, <3>2, <3>3, <3>4 DEF CompletionInv
  <2>5. ServedInv'
    BY <2>0, <2>1, <2>3, ServedStable, ReconcilerPub DEF FilesInv, ServedInv
  <2> QED
    BY <2>4, <2>5 DEF FilesInv
<1>4. CASE LeaseRolledBack(p)
  BY <1>4, RowsKeepFiles DEF LeaseRolledBack, actors, ActiveAttempt, Promoted
<1>5. CASE Lapse(p)
  <2>1. \A q \in Pub : pubs'[q].attempt = pubs[q].attempt /\ pubs'[q].state = pubs[q].state
    BY <1>5, RowsTyped DEF Lapse, PubRow, TypeOK
  <2>2. ASSUME NEW q \in Pub, NEW b \in Attempt, ActiveAttempt(q, b)' PROVE ActiveAttempt(q, b)
    <3>1. q # p => pubs'[q] = pubs[q]
      BY <1>5 DEF Lapse, TypeOK
    <3>2. pubs'[p].lease = "lapsed"
      BY <1>5, RowsTyped DEF Lapse, PubRow, TypeOK
    <3> QED
      BY <1>5, <2>2, <3>1, <3>2 DEF ActiveAttempt, Lapse
  <2>3. \A q \in Pub : Promoted(q)' <=> Promoted(q)
    BY <2>1 DEF Promoted
  <2> QED
    BY <1>5, <2>1, <2>2, <2>3, RowsKeepFiles DEF Lapse, actors
<1> QED BY <1>1, <1>2, <1>3, <1>4, <1>5, <1>6 DEF Lease

\* The state of the attempts other than (p, a).
OthersUnchanged(p, a) ==
  \A q \in Pub, b \in Attempt : q # p \/ b # a =>
    /\ worker'[q][b] = worker[q][b] /\ handler'[q][b] = handler[q][b]
    /\ staging'[q][b] = staging[q][b]
    /\ ActiveAttempt(q, b)' => ActiveAttempt(q, b)

\* A step of one worker or of one completion.
LEMMA OwnStepKeepsFiles ==
  ASSUME TypeOK, FilesInv, NEW p \in Pub, NEW a \in Attempt, CompletionInv(p, a)',
         OthersUnchanged(p, a), UNCHANGED <<leasing, reconciler>>,
         \A q \in Pub : pubs'[q].attempt = pubs[q].attempt,
         \A q \in Pub : Sound(q) => Sound(q)',
         \A q \in Pub : Promoted(q) => Promoted(q)',
         \A q \in Pub : Promoted(q)' => Promoted(q) \/ Sound(q)',
         pointer' = pointer \/ (pointer' = p /\ Promoted(p))
  PROVE  FilesInv'
<1>1. ASSUME NEW q \in Pub, NEW b \in Attempt PROVE CompletionInv(q, b)'
  <2>1. CASE q = p /\ b = a
    BY <2>1
  <2>2. CASE q # p \/ b # a
    <3>1. /\ worker'[q][b] = worker[q][b] /\ handler'[q][b] = handler[q][b]
          /\ staging'[q][b] = staging[q][b] /\ CompletionInv(q, b)
          /\ ActiveAttempt(q, b)' => ActiveAttempt(q, b)
      BY <2>2 DEF FilesInv, OthersUnchanged
    <3> QED BY <3>1, CompletionStable
  <2> QED BY <2>1, <2>2
<1>2. pointer' = pointer \/ (pointer' \in Pub /\ pubs[pointer'].state \in {"promotion_pending", "published"})
  BY DEF Promoted
<1>3. ServedInv'
  BY <1>2, ServedStable, ReconcilerPub DEF FilesInv, ServedInv
<1> QED
  BY <1>1, <1>3 DEF FilesInv

LEMMA WorkKeepsFiles ==
  ASSUME TypeOK, FilesInv, NEW p \in Pub, NEW a \in Attempt, Work(p, a)
  PROVE  FilesInv'
<1>0. /\ worker \in [Pub -> [Attempt -> WorkerState]] /\ staging \in [Pub -> [Attempt -> Tree]]
      /\ CompletionInv(p, a)
  BY DEF TypeOK, FilesInv
<1>1. CASE CompleteFailed(p, a)
  <2>1. /\ \A q \in Pub : q # p => pubs'[q] = pubs[q] /\ attempts'[q] = attempts[q]
        /\ \A b \in Attempt : b # a => attempts'[p][b] = attempts[p][b]
        /\ pubs'[p].state = "failed" /\ pubs'[p].attempt = pubs[p].attempt
        /\ pubs[p].state = "publishing" /\ worker[p][a] = "failing" /\ worker'[p][a] = "gone"
        /\ UNCHANGED <<leasing, artifacts, origin, pointer, handler, reconciler>>
    BY <1>1, RowsTyped DEF CompleteFailed, ActiveAttempt, TypeOK, PubRow
  <2>2. OthersUnchanged(p, a)
    <3>1. \A q \in Pub, b \in Attempt : q # p \/ b # a =>
            /\ worker'[q][b] = worker[q][b] /\ handler'[q][b] = handler[q][b]
            /\ staging'[q][b] = staging[q][b]
      BY <1>0, <1>1 DEF CompleteFailed
    <3>2. \A q \in Pub, b \in Attempt : ActiveAttempt(q, b)' => ActiveAttempt(q, b)
      BY <2>1 DEF ActiveAttempt
    <3> QED
      BY <3>1, <3>2 DEF OthersUnchanged
  <2>3. CompletionInv(p, a)'
    BY <1>0, <2>1 DEF CompletionInv
  <2>4. \A q \in Pub : Sound(q) => Sound(q)'
    BY <1>0, <1>1, <2>1 DEF CompleteFailed, Sound, Spoiled
  <2>5. \A q \in Pub : Promoted(q)' <=> Promoted(q)
    BY <2>1 DEF Promoted
  <2> QED
    BY <2>1, <2>2, <2>3, <2>4, <2>5, OwnStepKeepsFiles
<1>2. CASE Render(p, a) \/ RenderFails(p, a) \/ WorkerDies(p, a) \/ WorkerCleans(p, a)
  <2>1. UNCHANGED <<leasing, pubs, attempts, artifacts, origin, pointer, handler, reconciler>>
    BY <1>2 DEF Render, RenderFails, WorkerDies, WorkerCleans, database, files
  <2>2. \A q \in Pub, b \in Attempt : q # p \/ b # a =>
          worker'[q][b] = worker[q][b] /\ staging'[q][b] = staging[q][b]
    BY <1>0, <1>2 DEF Render, RenderFails, WorkerDies, WorkerCleans, files
  <2>3. OthersUnchanged(p, a)
    BY <2>1, <2>2 DEF OthersUnchanged, ActiveAttempt
  <2>4. \/ /\ worker'[p][a] \in {"failing", "gone", "reported"} /\ worker[p][a] = "rendering"
        \/ /\ worker'[p][a] = "removing" /\ worker[p][a] = "reported"
           /\ staging' = staging
    BY <1>0, <1>2 DEF Render, RenderFails, WorkerDies, WorkerCleans, files
  <2>5. \A q \in Pub : Sound(q) => Sound(q)'
    <3>1. \A q \in Pub, b \in Attempt : Spoiled(q, b) => Spoiled(q, b)'
      BY <2>2, <2>4 DEF Spoiled
    <3> QED BY <2>1, <3>1 DEF Sound, Spoiled
  <2>6. \A q \in Pub : Promoted(q)' <=> Promoted(q)
    BY <2>1 DEF Promoted
  <2>7. CompletionInv(p, a)'
    <3>1. (ActiveAttempt(p, a)' <=> ActiveAttempt(p, a)) /\ (Sound(p) => Sound(p)')
      BY <2>1, <2>5 DEF ActiveAttempt
    <3>2. Spoiled(p, a) => Spoiled(p, a)'
      BY <2>4 DEF Spoiled
    <3> HIDE DEF Sound, Spoiled, Promoted, ActiveAttempt
    <3> QED
      BY <1>0, <2>1, <2>4, <2>6, <3>1, <3>2 DEF CompletionInv
  <2> QED
    BY <2>1, <2>3, <2>5, <2>6, <2>7, OwnStepKeepsFiles
<1>3. CASE WorkerTears(p, a) \/ WorkerCleaned(p, a)
  <2>1. /\ UNCHANGED <<leasing, pubs, attempts, origin, pointer, handler, reconciler>>
        /\ Tears(p, a) \/ Empties(p, a)
        /\ worker[p][a] = "removing" /\ worker'[p][a] \in {"removing", "cleaned"}
        /\ \A q \in Pub, b \in Attempt : q # p \/ b # a => worker'[q][b] = worker[q][b]
    BY <1>0, <1>3 DEF WorkerTears, WorkerCleaned, database, actors
  <2>2. /\ \A q \in Pub, b \in Attempt : q # p \/ b # a => staging'[q][b] = staging[q][b]
        /\ \A q \in Pub : q # p => artifacts'[q] = artifacts[q]
        /\ artifacts'[p] = artifacts[p] \/ (artifacts'[p] = "torn" /\ origin[p] = a)
        /\ staging[p][a] = "absent" => staging'[p][a] = "absent"
    BY <2>1, RemovalEffect
  <2>3. OthersUnchanged(p, a)
    BY <2>1, <2>2 DEF OthersUnchanged, ActiveAttempt
  <2>4. /\ Spoiled(p, a) /\ Spoiled(p, a)'
        /\ \A q \in Pub, b \in Attempt : Spoiled(q, b) => Spoiled(q, b)'
    BY <2>1 DEF Spoiled
  <2>5. ASSUME NEW q \in Pub, Sound(q) PROVE Sound(q)'
    <3>1. origin'[q] = origin[q]
      BY <2>1
    <3>2. Spoiled(q, origin[q]) => worker'[q][origin[q]] \in {"removing", "cleaned"}
      BY <2>1 DEF Spoiled
    <3>3. artifacts'[q] = artifacts[q] \/ (artifacts'[q] = "torn" /\ Spoiled(q, origin[q]))
      BY <2>2, <2>4
    <3> QED BY <2>5, <3>1, <3>2, <3>3, SoundStable
  <2>6. \A q \in Pub : Promoted(q)' <=> Promoted(q)
    BY <2>1 DEF Promoted
  <2>7. CompletionInv(p, a)'
    <3>1. (ActiveAttempt(p, a)' <=> ActiveAttempt(p, a)) /\ (Sound(p) => Sound(p)')
      BY <2>1, <2>5 DEF ActiveAttempt
    <3>2. /\ worker[p][a] \notin {"none", "rendering", "failing"}
          /\ worker'[p][a] \notin {"none", "rendering", "failing"}
      BY <2>1
    <3> HIDE DEF Sound, Spoiled, Promoted, ActiveAttempt
    <3> QED
      BY <1>0, <2>1, <2>2, <2>4, <2>6, <3>1, <3>2 DEF CompletionInv
  <2> QED
    BY <2>1, <2>3, <2>5, <2>6, <2>7, OwnStepKeepsFiles
<1> QED BY <1>1, <1>2, <1>3 DEF Work

\* A completion that only goes on to its next step, or ends with an error.
LEMMA GotoKeepsFiles ==
  ASSUME TypeOK, FilesInv, NEW p \in Pub, NEW a \in Attempt, NEW step, Goto(p, a, step),
         UNCHANGED <<database, files, worker, reconciler>>,
         handler[p][a] # "none" \/ worker[p][a] = "reported",
         \/ step \in {"checked", "ended"}
         \/ step = "validated" /\ staging[p][a] = "whole"
         \/ step = "tested" /\ handler[p][a] = "installed" /\ Sound(p) /\ leasing # p
  PROVE  FilesInv'
<1>0. UNCHANGED <<leasing, pubs, attempts, staging, artifacts, origin, pointer>>
  BY DEF database, files
<1>1. /\ handler'[p][a] = step
      /\ \A q \in Pub, b \in Attempt : q # p \/ b # a => handler'[q][b] = handler[q][b]
  BY DEF Goto, TypeOK
<1>2. OthersUnchanged(p, a)
  BY <1>0, <1>1 DEF OthersUnchanged, ActiveAttempt
<1>3. /\ \A q \in Pub : (Sound(q) => Sound(q)') /\ (Promoted(q)' <=> Promoted(q))
      /\ Spoiled(p, a)' <=> Spoiled(p, a)
      /\ ActiveAttempt(p, a)' <=> ActiveAttempt(p, a)
  BY <1>0, SoundUnmoved DEF Promoted, ActiveAttempt, Spoiled
<1>4. CompletionInv(p, a)'
  <2>1. CompletionInv(p, a)
    BY DEF FilesInv
  <2> HIDE DEF Sound, Spoiled, Promoted, ActiveAttempt
  <2> QED
    BY <1>0, <1>1, <1>3, <2>1 DEF CompletionInv
<1> QED
  BY <1>0, <1>2, <1>3, <1>4, OwnStepKeepsFiles

LEMMA RefuseKeepsFiles ==
  ASSUME TypeOK, FilesInv, NEW p \in Pub, NEW a \in Attempt, Refuse(p, a),
         handler[p][a] # "none" \/ worker[p][a] = "reported"
  PROVE  FilesInv'
BY GotoKeepsFiles DEF Refuse

LEMMA InstallKeepsFiles ==
  ASSUME TypeOK, FilesInv, NEW p \in Pub, NEW a \in Attempt, InstallArtifact(p, a)
  PROVE  FilesInv'
<1>1. CASE Installed(p, a) = "error"
  BY <1>1, RefuseKeepsFiles DEF InstallArtifact, At
<1>2. CASE Installed(p, a) # "error"
  <2>1. /\ artifacts' = [artifacts EXCEPT ![p] = Installed(p, a)]
        /\ origin' = [origin EXCEPT ![p] = IF artifacts[p] = "absent" THEN a ELSE @]
        /\ staging' = [staging EXCEPT ![p][a] = "absent"]
        /\ Goto(p, a, "installed") /\ handler[p][a] = "validated"
        /\ UNCHANGED <<leasing, pubs, attempts, pointer, worker, reconciler>>
    BY <1>2 DEF InstallArtifact, At, database
  <2>2. /\ artifacts'[p] = Installed(p, a) /\ handler'[p][a] = "installed"
        /\ staging'[p][a] = "absent"
        /\ origin'[p] = IF artifacts[p] = "absent" THEN a ELSE origin[p]
        /\ \A q \in Pub : q # p => artifacts'[q] = artifacts[q] /\ origin'[q] = origin[q]
    BY <2>1 DEF Goto, TypeOK
  <2>3. \/ artifacts[p] = "absent" /\ staging[p][a] \in {"whole", "torn"} /\ artifacts'[p] = staging[p][a]
        \/ artifacts[p] = "whole" /\ artifacts'[p] = "whole"
    <3>1. CASE artifacts[p] = "absent" /\ staging[p][a] # "absent"
      BY <2>2, <3>1 DEF Installed, TypeOK, Tree
    <3>2. CASE artifacts[p] = "whole" /\ staging[p][a] # "absent"
      BY <2>2, <3>2 DEF Installed
    <3>3. staging[p][a] # "absent" /\ artifacts[p] \in {"absent", "whole"}
      BY <1>2 DEF Installed
    <3> QED BY <3>1, <3>2, <3>3
  <2>4. OthersUnchanged(p, a)
    BY <2>1 DEF OthersUnchanged, ActiveAttempt, Goto, TypeOK
  <2>5. /\ \A q \in Pub : Sound(q) => Sound(q)'
        /\ \A q \in Pub : Promoted(q)' <=> Promoted(q)
    BY <2>1, <2>2, <2>3 DEF Sound, Spoiled, Promoted
  <2>6. staging[p][a] = "whole" \/ Spoiled(p, a) => Sound(p)'
    BY <2>1, <2>2, <2>3 DEF Sound, Spoiled
  <2>7. CompletionInv(p, a)'
    <3>1. CompletionInv(p, a) /\ (ActiveAttempt(p, a)' <=> ActiveAttempt(p, a))
      BY <2>1 DEF FilesInv, ActiveAttempt
    <3> HIDE DEF Sound, Spoiled, Promoted, ActiveAttempt
    <3> QED
      BY <2>1, <2>2, <2>6, <3>1 DEF CompletionInv
  <2> QED
    BY <2>1, <2>4, <2>5, <2>7, OwnStepKeepsFiles
<1> QED BY <1>1, <1>2

LEMMA PrepareKeepsFiles ==
  ASSUME TypeOK, FilesInv, NEW p \in Pub, NEW a \in Attempt, PreparePromotion(p, a)
  PROVE  FilesInv'
<1>1. CASE ~StillThere(p, a)
  BY <1>1, RefuseKeepsFiles DEF PreparePromotion, At
<1>2. CASE StillThere(p, a)
  <2>1. /\ \A q \in Pub : q # p => pubs'[q] = pubs[q] /\ attempts'[q] = attempts[q]
        /\ \A b \in Attempt : b # a => attempts'[p][b] = attempts[p][b]
        /\ pubs'[p].state = "promotion_pending" /\ pubs'[p].attempt = pubs[p].attempt
    BY <1>2, RowsTyped DEF PreparePromotion, TypeOK, PubRow
  <2>3. /\ Goto(p, a, "prepared") /\ handler[p][a] = "tested" /\ pubs[p].attempt = a
        /\ UNCHANGED <<leasing, staging, artifacts, origin, pointer, worker, reconciler>>
    BY <1>2 DEF PreparePromotion, At, StillThere, files
  <2>4. CompletionInv(p, a) /\ Sound(p)
    BY <2>3 DEF FilesInv, CompletionInv
  <2>5. /\ handler'[p][a] = "prepared"
        /\ \A q \in Pub, b \in Attempt : q # p \/ b # a => handler'[q][b] = handler[q][b]
    BY <2>3 DEF Goto, TypeOK
  <2>6. OthersUnchanged(p, a)
    <3>1. \A q \in Pub, b \in Attempt : ActiveAttempt(q, b)' => ActiveAttempt(q, b)
      BY <2>1 DEF ActiveAttempt
    <3> QED
      BY <2>3, <2>5, <3>1 DEF OthersUnchanged
  <2>7. /\ \A q \in Pub : Sound(q) => Sound(q)'
        /\ \A q \in Pub : Promoted(q) => Promoted(q)'
        /\ \A q \in Pub : Promoted(q)' => Promoted(q) \/ q = p
        /\ Promoted(p)' /\ ~ActiveAttempt(p, a)'
    BY <2>1, <2>3, SoundUnmoved DEF Promoted, ActiveAttempt
  <2>8. CompletionInv(p, a)'
    <3> HIDE DEF Sound, Spoiled, Promoted, ActiveAttempt
    <3> QED
      BY <2>1, <2>3, <2>4, <2>5, <2>7 DEF CompletionInv
  <2> QED
    BY <2>1, <2>3, <2>4, <2>6, <2>7, <2>8, OwnStepKeepsFiles
<1> QED BY <1>1, <1>2

LEMMA SwitchKeepsFiles ==
  ASSUME TypeOK, FilesInv, NEW p \in Pub, NEW a \in Attempt, SwitchPointer(p, a)
  PROVE  FilesInv'
<1>1. /\ handler'[p][a] = "switched" /\ handler[p][a] = "prepared"
      /\ \A q \in Pub, b \in Attempt : q # p \/ b # a => handler'[q][b] = handler[q][b]
      /\ UNCHANGED <<leasing, pubs, attempts, staging, artifacts, origin, worker, reconciler>>
      /\ pointer' = p
  BY DEF SwitchPointer, At, Goto, TypeOK, database
<1>2. /\ \A q \in Pub : (Sound(q) => Sound(q)') /\ (Promoted(q)' <=> Promoted(q))
      /\ ActiveAttempt(p, a)' <=> ActiveAttempt(p, a)
  BY <1>1, SoundUnmoved DEF Promoted, ActiveAttempt
<1>3. Promoted(p) /\ CompletionInv(p, a)
  BY <1>1 DEF FilesInv, CompletionInv
<1>4. CompletionInv(p, a)'
  <2> HIDE DEF Sound, Spoiled, Promoted, ActiveAttempt
  <2> QED
    BY <1>1, <1>2, <1>3 DEF CompletionInv
<1>5. OthersUnchanged(p, a)
  BY <1>1 DEF OthersUnchanged, ActiveAttempt
<1> QED
  BY <1>1, <1>2, <1>3, <1>4, <1>5, OwnStepKeepsFiles

\* The finalizing transaction writes no file and ends the claim of nobody: the
\* publication it marks is not being published any more.
LEMMA FinalizeEffect ==
  ASSUME TypeOK, DatabaseInv, NEW p \in Pub, site.promotion = p, FinalizePromotion(p),
         UNCHANGED attempts
  PROVE  /\ \A q \in Pub : pubs'[q].attempt = pubs[q].attempt
         /\ \A q \in Pub : Promoted(q)' <=> Promoted(q)
         /\ \A q \in Pub, b \in Attempt : ActiveAttempt(q, b)' => ActiveAttempt(q, b)
<1>1. pubs[p].state = "promotion_pending"
  BY DEF DatabaseInv, RowsAgree
<1>2. /\ \A q \in Pub : q # p => pubs'[q] = pubs[q]
      /\ pubs'[p].state = "published" /\ pubs'[p].attempt = pubs[p].attempt
  BY RowsTyped DEF FinalizePromotion, TypeOK, PubRow
<1> QED
  BY <1>1, <1>2 DEF ActiveAttempt, Promoted

LEMMA CompleteFinalizesKeeps ==
  ASSUME TypeOK, DatabaseInv, FilesInv, NEW p \in Pub, NEW a \in Attempt, CompleteFinalizes(p, a)
  PROVE  DatabaseInv' /\ FilesInv'
<1>0. handler[p][a] = "switched"
  BY DEF CompleteFinalizes, At
<1>1. CASE /\ Finalizable(p) /\ FinalizePromotion(p) /\ Goto(p, a, "ended")
           /\ UNCHANGED <<docs, attempts, leasing, files, worker, reconciler>>
  <2>1. DatabaseInv'
    BY <1>1, FinalizeKeeps DEF Finalizable
  <2>2. /\ handler'[p][a] = "ended"
        /\ \A q \in Pub, b \in Attempt : q # p \/ b # a => handler'[q][b] = handler[q][b]
        /\ UNCHANGED <<leasing, staging, artifacts, origin, pointer, worker, reconciler>>
    BY <1>1 DEF Goto, TypeOK, files
  <2>3. /\ \A q \in Pub : pubs'[q].attempt = pubs[q].attempt
        /\ \A q \in Pub : Promoted(q)' <=> Promoted(q)
        /\ \A q \in Pub, b \in Attempt : ActiveAttempt(q, b)' => ActiveAttempt(q, b)
    BY <1>1, FinalizeEffect DEF Finalizable
  <2>4. OthersUnchanged(p, a)
    BY <2>2, <2>3 DEF OthersUnchanged
  <2>5. \A q \in Pub : Sound(q) => Sound(q)'
    BY <2>2, SoundUnmoved
  <2>6. CompletionInv(p, a)'
    BY <1>0, <2>2, <2>3 DEF FilesInv, CompletionInv
  <2> QED
    BY <2>1, <2>2, <2>3, <2>4, <2>5, <2>6, OwnStepKeepsFiles
<1>2. CASE Goto(p, a, "ended") /\ UNCHANGED <<database, files, worker, reconciler>>
  BY <1>0, <1>2, GotoKeepsFiles, DatabaseUnchanged
<1> QED
  BY <1>1, <1>2 DEF CompleteFinalizes, Refuse

LEMMA CompleteKeeps ==
  ASSUME TypeOK, DatabaseInv, FilesInv, NEW p \in Pub, NEW a \in Attempt, Complete(p, a)
  PROVE  DatabaseInv' /\ FilesInv'
<1>1. CASE EnsureActive(p, a)
  BY <1>1, RefuseKeepsFiles, GotoKeepsFiles, DatabaseUnchanged DEF EnsureActive, Refuse
<1>2. CASE ValidateStaged(p, a)
  BY <1>2, RefuseKeepsFiles, GotoKeepsFiles, DatabaseUnchanged DEF ValidateStaged, Refuse, At
<1>3. CASE InstallArtifact(p, a)
  BY <1>3, InstallKeepsFiles, DatabaseUnchanged DEF InstallArtifact, Refuse
<1>4. CASE PrepareTests(p, a)
  <2>1. CASE ActiveAttempt(p, a) /\ site.promotion = Nothing
    <3>1. handler[p][a] = "installed" /\ Sound(p)
      BY <1>4, <2>1 DEF PrepareTests, At, FilesInv, CompletionInv
    <3>2. leasing # p
      BY <2>1, PubsAreNumbers DEF ActiveAttempt, DatabaseInv, QueueInv, Candidate
    <3> QED
      BY <1>4, <2>1, <3>1, <3>2, GotoKeepsFiles, DatabaseUnchanged DEF PrepareTests
  <2>2. CASE ~(ActiveAttempt(p, a) /\ site.promotion = Nothing)
    BY <1>4, <2>2, RefuseKeepsFiles, DatabaseUnchanged DEF PrepareTests, Refuse, At
  <2> QED BY <2>1, <2>2
<1>5. CASE PreparePromotion(p, a)
  BY <1>5, PrepareKeeps, PrepareKeepsFiles, DatabaseUnchanged DEF PreparePromotion, Refuse
<1>6. CASE SwitchPointer(p, a)
  BY <1>6, SwitchKeepsFiles, DatabaseUnchanged DEF SwitchPointer
<1>7. CASE CompleteFinalizes(p, a)
  BY <1>7, CompleteFinalizesKeeps
<1>8. CASE HandlerStops(p, a)
  BY <1>8, GotoKeepsFiles, DatabaseUnchanged DEF HandlerStops
<1> QED
  BY <1>1, <1>2, <1>3, <1>4, <1>5, <1>6, <1>7, <1>8 DEF Complete

LEMMA ReconcileKeeps ==
  ASSUME TypeOK, DatabaseInv, FilesInv, Reconcile
  PROVE  DatabaseInv' /\ FilesInv'
<1>1. CASE ReconcileReads \/ ReconcileSwitches
  <2>1. UNCHANGED <<database, leasing, pubs, attempts, staging, artifacts, origin, worker, handler>>
    BY <1>1 DEF ReconcileReads, ReconcileSwitches, files, database
  <2>2. /\ \A q \in Pub : (Sound(q) => Sound(q)') /\ (Promoted(q)' <=> Promoted(q))
        /\ \A q \in Pub, b \in Attempt : ActiveAttempt(q, b)' <=> ActiveAttempt(q, b)
    BY <2>1, SoundUnmoved DEF Promoted, ActiveAttempt
  <2>3. ASSUME NEW q \in Pub, NEW b \in Attempt PROVE CompletionInv(q, b)'
    BY <2>1, <2>2, CompletionStable DEF FilesInv
  <2>4. /\ pointer' = pointer \/ (pointer' \in Pub /\ pubs[pointer'].state \in {"promotion_pending", "published"})
        /\ \/ reconciler'.at = "idle"
           \/ reconciler'.pub \in Pub /\ pubs[reconciler'.pub].state \in {"promotion_pending", "published"}
    <3>1. CASE ReconcileReads
      <4>1. site.promotion \in Pub /\ pubs[site.promotion].state = "promotion_pending"
        BY <3>1, NumbersTyped DEF ReconcileReads, DatabaseInv, RowsAgree
      <4> QED BY <3>1, <4>1 DEF ReconcileReads, files
    <3>2. CASE ReconcileSwitches
      <4>1. reconciler.pub \in Pub /\ pubs[reconciler.pub].state \in {"promotion_pending", "published"}
        BY <3>2, ReconcilerPub DEF ReconcileSwitches, FilesInv
      <4> QED BY <3>2, <4>1 DEF ReconcileSwitches, Idle, TypeOK
    <3> QED BY <1>1, <3>1, <3>2
  <2>5. ServedInv'
    BY <2>2, <2>4, ServedStable DEF FilesInv, ServedInv
  <2> QED
    BY <2>1, <2>3, <2>5, DatabaseUnchanged DEF FilesInv
<1>2. CASE ReconcilerStops
  <2>1. FilesInv'
    BY <1>2, RowsKeepFiles DEF ReconcilerStops, database, ActiveAttempt, Promoted
  <2> QED BY <1>2, <2>1, DatabaseUnchanged DEF ReconcilerStops
<1>3. CASE ReconcileFinalizes
  <2>1. reconciler.pub \in Pub
    BY <1>3, ReconcilerPub DEF ReconcileFinalizes, FilesInv
  <2>2. CASE Finalizable(reconciler.pub)
    <3>1. DatabaseInv'
      BY <1>3, <2>1, <2>2, FinalizeKeeps DEF ReconcileFinalizes, Finalizable
    <3>2. FilesInv'
      BY <1>3, <2>1, <2>2, FinalizeEffect, RowsKeepFiles DEF ReconcileFinalizes, Finalizable
    <3> QED BY <3>1, <3>2
  <2>3. CASE ~Finalizable(reconciler.pub)
    <3>1. UNCHANGED database
      BY <1>3, <2>3 DEF ReconcileFinalizes, database
    <3>2. FilesInv'
      BY <1>3, <3>1, RowsKeepFiles DEF ReconcileFinalizes, database, ActiveAttempt, Promoted
    <3> QED BY <3>1, <3>2, DatabaseUnchanged
  <2> QED BY <2>2, <2>3
<1> QED BY <1>1, <1>2, <1>3 DEF Reconcile

-----------------------------------------------------------------------------
(* The theorems. *)

\* The inductive invariant holds initially and every step keeps it.
THEOREM IInvInductive ==
  /\ Init => IInv
  /\ IInv /\ [Next]_vars => IInv'
<1>1. Init => IInv
  BY InitTyped, InitKeeps DEF IInv
<1>2. ASSUME IInv, Next PROVE IInv'
  <2>1. TypeOK /\ QueueInv /\ DatabaseInv /\ FilesInv
    BY <1>2 DEF IInv, DatabaseInv
  <2>2. CASE Approve \/ CreatePublication \/ RefreshFacts
    BY <1>2, <2>1, <2>2, OwnerTyped, OwnerKeeps DEF IInv
  <2>3. CASE \E p \in Pub : Lease(p)
    BY <2>1, <2>3, LeaseTyped, LeaseKeeps, LeaseKeepsFiles DEF IInv
  <2>4. ASSUME NEW p \in Pub, NEW a \in Attempt, Complete(p, a) PROVE IInv'
    BY <2>1, <2>4, CompleteTyped, CompleteKeeps DEF IInv
  <2>5. ASSUME NEW p \in Pub, NEW a \in Attempt, Work(p, a) PROVE IInv'
    <3>1. DatabaseInv'
      <4>1. CASE CompleteFailed(p, a)
        BY <2>1, <4>1, FailKeeps
      <4>2. CASE ~CompleteFailed(p, a)
        BY <2>1, <2>5, <4>2, DatabaseUnchanged
           DEF Work, Render, RenderFails, WorkerDies, WorkerCleans, WorkerTears, WorkerCleaned
      <4> QED BY <4>1, <4>2
    <3> QED
      BY <2>1, <2>5, <3>1, WorkTyped, WorkKeepsFiles DEF IInv
  <2>6. CASE Reconcile
    BY <2>1, <2>6, ReconcileTyped, ReconcileKeeps DEF IInv
  <2> QED
    BY <1>2, <2>2, <2>3, <2>4, <2>5, <2>6 DEF Next
<1>3. ASSUME IInv, UNCHANGED vars PROVE IInv'
  <2>1. DatabaseInv'
    BY <1>3, DatabaseUnchanged DEF IInv, vars, database
  <2>2. TypeOK'
    BY <1>3 DEF IInv, TypeOK, vars
  <2>3. FilesInv'
    BY <1>3 DEF IInv, FilesInv, CompletionInv, ServedInv, Sound, Spoiled, Promoted, ActiveAttempt, vars
  <2> QED BY <2>1, <2>2, <2>3 DEF IInv
<1> QED BY <1>1, <1>2, <1>3

\* The inductive invariant holds in every behaviour of the protocol.
THEOREM InvariantHolds == Spec => []IInv
BY IInvInductive, PTL DEF Spec

\* Every row, tree, pointer and actor keeps its type.
THEOREM TypeCorrect == Spec => []TypeOK
BY InvariantHolds, PTL DEF IInv

\* The transactions of the owner, the lease, the completion and the reaper
\* leave site, publication and attempt rows that agree with each other.
THEOREM RowsAlwaysAgree == Spec => []RowsAgree
<1>1. IInv => RowsAgree
  BY DEF IInv, DatabaseInv
<1> QED BY <1>1, InvariantHolds, PTL

\* Publications go live in the order they were queued.
THEOREM AlwaysLiveInOrder == Spec => []LiveInOrder
<1>1. IInv => LiveInOrder
  BY DEF IInv, DatabaseInv
<1> QED BY <1>1, InvariantHolds, PTL

\* What is promoted, live or named by the pointer is whole, or is being torn by
\* the worker of its own tree, which had opened it for removal before it was
\* installed; no lease, no other worker and no repeated completion tears it.
THEOREM ServedTornOnlyByItsWorker == Spec => []OnlyItsWorkerTears
<1>1. IInv => OnlyItsWorkerTears
  <2> SUFFICES ASSUME IInv, NEW p \in Pub, Promoted(p) \/ pointer = p
               PROVE  \/ artifacts[p] = "whole"
                      \/ artifacts[p] = "torn" /\ worker[p][origin[p]] \in {"removing", "cleaned"}
    BY DEF OnlyItsWorkerTears, Promoted
  <2>1. Promoted(p)
    BY PubsAreNumbers DEF IInv, FilesInv, ServedInv
  <2> QED BY <2>1 DEF IInv, FilesInv, ServedInv, Sound, Spoiled
<1> QED BY <1>1, InvariantHolds, PTL

-----------------------------------------------------------------------------
(* What goes live goes live once, in order, and stays decided. *)

\* A publication that is published or failed keeps its row, and a pending
\* promotion can only be finished: no newer document supersedes it.
DecidedStays ==
  \A p \in Pub :
    /\ pubs[p].state \in {"published", "failed"} => pubs'[p] = pubs[p]
    /\ pubs[p].state = "promotion_pending" =>
         pubs'[p] \in {pubs[p], [pubs[p] EXCEPT !.state = "published"]}

\* The site moves on only to the pending promotion, which is newer than what is
\* current, by one generation, and after the pointer was switched to it.
LiveAdvances ==
  \/ UNCHANGED <<site.current, site.generation>>
  \/ /\ site.promotion # Nothing /\ site.promotion > site.current /\ pointer = site.promotion
     /\ site'.current = site.promotion /\ site'.generation = site.generation + 1

SiteStep == DecidedStays /\ LiveAdvances

LEMMA RestingSite ==
  ASSUME UNCHANGED <<site, pubs>>
  PROVE  SiteStep
BY DEF SiteStep, DecidedStays, LiveAdvances

\* A step that writes rows of publications that are not decided.
LEMMA UndecidedMoves ==
  ASSUME \A p \in Pub : pubs'[p] = pubs[p] \/ pubs[p].state \in {"absent", "queued", "publishing"},
         UNCHANGED <<site.current, site.generation>>
  PROVE  SiteStep
BY DEF SiteStep, DecidedStays, LiveAdvances

LEMMA SupersedeSite ==
  ASSUME IInv, CreatePublication \/ RefreshFacts
  PROVE  SiteStep
<1>1. TypeOK /\ QueueInv /\ site \in SiteRow /\ docs \in Nat /\ docs \in 0..MaxDocs
  BY RowsTyped, NumbersTyped DEF IInv, DatabaseInv, TypeOK
<1>2. UNCHANGED <<site.current, site.generation>>
  BY <1>1 DEF CreatePublication, RefreshFacts, SiteRow
<1>3. ASSUME NEW new \in Pub, pubs[new].state = "absent", SupersedeUnstarted(new)
      PROVE  \A p \in Pub : pubs'[p] = pubs[p] \/ pubs[p].state \in {"absent", "queued", "publishing"}
  BY <1>3 DEF SupersedeUnstarted, Unstarted
<1>4. CASE CreatePublication
  BY <1>1, <1>2, <1>3, <1>4, NumbersArePubs, UndecidedMoves DEF CreatePublication
<1>5. CASE RefreshFacts
  <2>1. docs + 1 \in Pub /\ docs + 1 > docs
    BY <1>1, <1>5, BoundsAssumption DEF RefreshFacts, Pub
  <2>2. pubs[docs + 1].state = "absent"
    BY <1>1, <2>1 DEF QueueInv
  <2> QED BY <1>2, <1>3, <1>5, <2>1, <2>2, UndecidedMoves DEF RefreshFacts
<1> QED BY <1>4, <1>5

LEMMA LeaseSite ==
  ASSUME IInv, NEW p \in Pub, Lease(p)
  PROVE  SiteStep
<1>0. pubs \in [Pub -> PubRow] /\ QueueInv
  BY DEF IInv, TypeOK, DatabaseInv
<1>1. CASE ReclaimStaging(p) \/ LeaseTears(p) \/ LeaseRolledBack(p)
  BY <1>1, RestingSite DEF ReclaimStaging, LeaseTears, LeaseRolledBack, database
<1>2. CASE LeasePublication(p) \/ LeaseCleaned(p)
  <2>1. Candidate(p) /\ Grant(p) /\ UNCHANGED site
    BY <1>0, <1>2, PubsAreNumbers DEF LeasePublication, LeaseCleaned, QueueInv
  <2>2. \A q \in Pub : pubs'[q] = pubs[q] \/ pubs[q].state \in {"absent", "queued", "publishing"}
    BY <1>0, <2>1 DEF Grant, Candidate
  <2> QED BY <2>1, <2>2, UndecidedMoves
<1>3. CASE Lapse(p)
  <2>1. \A q \in Pub : pubs'[q] = pubs[q] \/ pubs[q].state \in {"absent", "queued", "publishing"}
    BY <1>0, <1>3 DEF Lapse
  <2> QED BY <1>3, <2>1, UndecidedMoves DEF Lapse
<1> QED BY <1>1, <1>2, <1>3 DEF Lease

LEMMA WorkSite ==
  ASSUME IInv, NEW p \in Pub, NEW a \in Attempt, Work(p, a)
  PROVE  SiteStep
<1>1. CASE CompleteFailed(p, a)
  <2>1. \A q \in Pub : pubs'[q] = pubs[q] \/ pubs[q].state \in {"absent", "queued", "publishing"}
    BY <1>1 DEF IInv, TypeOK, CompleteFailed, ActiveAttempt
  <2> QED BY <1>1, <2>1, UndecidedMoves DEF CompleteFailed
<1>2. CASE ~CompleteFailed(p, a)
  BY <1>2, RestingSite
     DEF Work, Render, RenderFails, WorkerDies, WorkerCleans, WorkerTears, WorkerCleaned, database
<1> QED BY <1>1, <1>2

LEMMA FinalizeSite ==
  ASSUME IInv, NEW p \in Pub, Finalizable(p), FinalizePromotion(p)
  PROVE  SiteStep
<1>1. /\ TypeOK /\ site \in SiteRow /\ pubs \in [Pub -> PubRow] /\ RowsAgree /\ PromotionInv
      /\ site.promotion = p /\ pointer = p
  BY RowsTyped DEF IInv, TypeOK, DatabaseInv, Finalizable
<1>2. /\ pubs[p].state = "promotion_pending" /\ site.promotionGeneration = site.generation + 1
      /\ p \in Nat /\ p # Nothing
  BY <1>1, PubsAreNumbers DEF RowsAgree, PromotionInv
<1>3. p > site.current
  <2>1. CASE site.current \in Pub
    <3>1. pubs[site.current].state = "published"
      BY <1>1, <2>1 DEF RowsAgree
    <3> QED BY <1>1, <1>2, <2>1, <3>1, PubsAreNumbers DEF PromotionInv
  <2>2. CASE site.current = Nothing
    BY <1>2, <2>2 DEF Nothing
  <2> QED BY <1>1, <2>1, <2>2, NumbersTyped
<1>4. site'.current = p /\ site'.generation = site.generation + 1
  BY <1>1, <1>2 DEF FinalizePromotion, SiteRow
<1>5. pubs'[p] = [pubs[p] EXCEPT !.state = "published"] /\ \A q \in Pub : q # p => pubs'[q] = pubs[q]
  BY <1>1 DEF FinalizePromotion
<1>6. DecidedStays
  BY <1>2, <1>5 DEF DecidedStays
<1>7. LiveAdvances
  BY <1>1, <1>2, <1>3, <1>4 DEF LiveAdvances
<1> QED BY <1>6, <1>7 DEF SiteStep

LEMMA CompleteSite ==
  ASSUME IInv, NEW p \in Pub, NEW a \in Attempt, Complete(p, a)
  PROVE  SiteStep
<1>1. ASSUME Refuse(p, a) PROVE SiteStep
  BY <1>1, RestingSite DEF Refuse, database
<1>2. CASE EnsureActive(p, a) \/ ValidateStaged(p, a) \/ InstallArtifact(p, a) \/ PrepareTests(p, a)
           \/ SwitchPointer(p, a) \/ HandlerStops(p, a)
  BY <1>1, <1>2, RestingSite
     DEF EnsureActive, ValidateStaged, InstallArtifact, PrepareTests, SwitchPointer, HandlerStops, database
<1>3. CASE PreparePromotion(p, a)
  <2>1. CASE ~StillThere(p, a)
    BY <1>1, <1>3, <2>1 DEF PreparePromotion
  <2>2. CASE StillThere(p, a)
    <3>1. site \in SiteRow /\ pubs \in [Pub -> PubRow]
      BY DEF IInv, TypeOK
    <3>2. UNCHANGED <<site.current, site.generation>>
      BY <1>3, <2>2, <3>1 DEF PreparePromotion, SiteRow
    <3>3. \A q \in Pub : pubs'[q] = pubs[q] \/ pubs[q].state \in {"absent", "queued", "publishing"}
      BY <1>3, <2>2, <3>1 DEF PreparePromotion, StillThere
    <3> QED BY <3>2, <3>3, UndecidedMoves
  <2> QED BY <2>1, <2>2
<1>4. CASE CompleteFinalizes(p, a)
  BY <1>1, <1>4, FinalizeSite, RestingSite DEF CompleteFinalizes, database
<1> QED BY <1>2, <1>3, <1>4 DEF Complete

LEMMA ReconcileSite ==
  ASSUME IInv, Reconcile
  PROVE  SiteStep
<1>1. CASE ReconcileReads \/ ReconcileSwitches \/ ReconcilerStops
  BY <1>1, RestingSite DEF ReconcileReads, ReconcileSwitches, ReconcilerStops, database
<1>2. CASE ReconcileFinalizes
  <2>1. reconciler.pub \in Pub
    BY <1>2, ReconcilerPub DEF ReconcileFinalizes, IInv, FilesInv
  <2> QED BY <1>2, <2>1, FinalizeSite, RestingSite DEF ReconcileFinalizes
<1> QED BY <1>1, <1>2 DEF Reconcile

LEMMA StepSite == IInv /\ [Next]_vars => SiteStep
<1> SUFFICES ASSUME IInv, [Next]_vars PROVE SiteStep
  OBVIOUS
<1>1. CASE UNCHANGED vars
  BY <1>1, RestingSite DEF vars
<1>2. CASE Approve
  BY <1>2, RestingSite DEF Approve
<1> QED
  BY <1>1, <1>2, SupersedeSite, LeaseSite, WorkSite, CompleteSite, ReconcileSite DEF Next

\* A publication that is published or failed stays so, and a promotion that was
\* prepared is never withdrawn, whatever the owner queues, the worker reports late
\* or the reaper finds (supersede_unstarted, finish_failed, finalize_promotion).
THEOREM DecidedForGood == Spec => [][DecidedStays]_vars
<1>1. IInv /\ [Next]_vars => [DecidedStays]_vars
  BY StepSite DEF SiteStep
<1> QED BY <1>1, InvariantHolds, PTL DEF Spec

\* The site's row advances only to the newer pending promotion, by one generation,
\* and with the pointer already on it: a promotion that the completion and the
\* reaper both finalize counts once (finalize_promotion, reconcile_pending).
THEOREM LiveSiteAdvances == Spec => [][LiveAdvances]_vars
<1>1. IInv /\ [Next]_vars => [LiveAdvances]_vars
  BY StepSite DEF SiteStep
<1> QED BY <1>1, InvariantHolds, PTL DEF Spec

-----------------------------------------------------------------------------
(* Approvals: the inductive invariant. *)

\* A review has the routed release's fact exactly when its body uses it.
ReviewOK(review) ==
  IF UsesDeploymentFacts(review.body) THEN review.fact \in TrustedRow
  ELSE review.fact = NoFact

\* A fact revision differs from the reviewed fact only where the scope lets it.
StoredOK(row, stored) ==
  /\ stored.displayed = row.review.fact.release
  /\ stored.link = ManagedDemoLink(row.review)
  /\ "managed_demo_destination" \notin row.scope => stored.url = row.review.fact.url
  /\ "deployment_timestamp" \notin row.scope => stored.deployed = row.review.fact.deployed

\* The history of an approval, empty when its review has no fact.
HistoryOK(row, history) ==
  /\ history # <<>> <=> row.review.fact # NoFact
  /\ \A k \in DOMAIN history : StoredOK(row, history[k].stored)

FactsOK ==
  \A a \in DOMAIN approved :
    ReviewOK(approved[a].review) /\ HistoryOK(approved[a], facts[a])

HeldOK == held # NoReview => ReviewOK(held)

\* Ready is said of the release of the latest fact revision.
Attested(ready, history) ==
  ready.state = "ready_to_share" =>
    history # <<>> /\ ready.attested = Last(history).release

ReadyOK == \A a \in DOMAIN approved : Attested(readiness[a], facts[a])

RouteOK == route.release # NoRelease => promoted[route.release] = route.observed

\* What PublishedWasApproved says of one document.
ValuesOK(values, row) ==
  /\ DOMAIN values = DOMAIN row.approvals
  /\ \A t \in DOMAIN values \ {"demo_readiness"} :
       \/ values[t] = row.approvals[t]
       \/ t \in row.scope
       \/ /\ t = "link"
          /\ "managed_demo_destination" \in row.scope
          /\ values[t].label = row.approvals[t].label

\* A document and the approval and history it was made from.
DocumentOK(p) ==
  /\ p.approved \in DOMAIN approved
  /\ p.fact \in 0..Len(facts[p.approved])
  /\ p.fact # 0 => /\ approved[p.approved].review.body.section
                   /\ approved[p.approved].review.body.shown
  /\ ValuesOK(p.values, approved[p.approved])

PublicationsOK == \A i \in DOMAIN publications : DocumentOK(publications[i])

ApprovalsInv ==
  /\ ApprovalsTypeOK
  /\ FactsOK
  /\ HeldOK
  /\ ReadyOK
  /\ RouteOK
  /\ PublicationsOK
  /\ FactsFollowRoute
  /\ PublicationFollowsRoute

-----------------------------------------------------------------------------
(* Sequences and rows. *)

\* A sequence of rows with no common set, and one more row.
LEMMA AppendSeq ==
  ASSUME NEW s, s \in Seq(Range(s)), NEW x
  PROVE  /\ Append(s, x) \in Seq(Range(Append(s, x)))
         /\ Len(s) \in Nat
         /\ Len(Append(s, x)) = Len(s) + 1
         /\ DOMAIN s = 1..Len(s)
         /\ DOMAIN Append(s, x) = 1..(Len(s) + 1)
         /\ \A i \in 1..Len(s) : Append(s, x)[i] = s[i]
         /\ Append(s, x)[Len(s) + 1] = x
         /\ Append(s, x) # <<>>
<1> DEFINE T == Range(s) \cup {x}
           u == Append(s, x)
<1>1. s \in Seq(T)
  BY DEF Range
<1>2. /\ u \in Seq(T) /\ Len(u) = Len(s) + 1 /\ Len(s) \in Nat
      /\ \A i \in 1..Len(s) : u[i] = s[i]
      /\ u[Len(s) + 1] = x
  BY <1>1, AppendProperties
<1>3. DOMAIN s = 1..Len(s) /\ DOMAIN u = 1..(Len(s) + 1)
  BY <1>1, <1>2, LenProperties
<1>4. \A i \in 1..Len(u) : u[i] \in Range(u)
  BY <1>2, <1>3 DEF Range
<1>5. u \in [1..Len(u) -> Range(u)]
  <2>1. u \in [1..Len(u) -> T]
    BY <1>2, LenProperties
  <2> HIDE DEF u
  <2> QED BY <2>1, <1>4
<1>6. u \in Seq(Range(u))
  <2> HIDE DEF u
  <2>1. Len(u) \in Nat
    BY <1>2
  <2> QED BY <1>5, <2>1, SeqDef
<1>7. u # <<>>
  BY <1>2, EmptySeq
<1> QED BY <1>2, <1>3, <1>6, <1>7

\* A member of a range has an index.
LEMMA InRange ==
  ASSUME NEW s, NEW x \in Range(s)
  PROVE  \E i \in DOMAIN s : s[i] = x
BY DEF Range

\* What the type invariant says, with names for the sets.
LEMMA Types ==
  ASSUME ApprovalsTypeOK
  PROVE  /\ drafts \in Seq(DraftRow) /\ Len(drafts) \in Nat /\ Len(drafts) <= MaxDrafts
         /\ DOMAIN drafts = 1..Len(drafts)
         /\ held \in ReviewRow \cup {NoReview}
         /\ approved \in Seq(Range(approved))
         /\ Len(approved) \in Nat /\ DOMAIN approved = 1..Len(approved)
         /\ DOMAIN facts = 1..Len(approved) /\ DOMAIN readiness = 1..Len(approved)
         /\ facts \in Seq(Seq(FactRow)) /\ Len(facts) = Len(approved)
         /\ readiness \in Seq(ReadinessRow) /\ Len(readiness) = Len(approved)
         /\ \A a \in 1..Len(approved) :
              /\ ApprovedOK(approved[a])
              /\ facts[a] \in Seq(FactRow)
              /\ readiness[a] \in ReadinessRow
         /\ route \in RouteRow
         /\ promoted \in [Release -> 0..MaxActivations]
         /\ clock \in 0..MaxActivations
         /\ publications \in Seq(Range(publications))
         /\ Len(publications) \in Nat /\ DOMAIN publications = 1..Len(publications)
         /\ refused \in BOOLEAN
         /\ approved = <<>> <=> Len(approved) = 0
         /\ publications = <<>> <=> Len(publications) = 0
<1>1. /\ drafts \in Seq(DraftRow) /\ Len(drafts) <= MaxDrafts
      /\ held \in ReviewRow \cup {NoReview}
      /\ approved \in Seq(Range(approved))
      /\ \A a \in DOMAIN approved : ApprovedOK(approved[a])
      /\ facts \in Seq(Seq(FactRow)) /\ Len(facts) = Len(approved)
      /\ readiness \in Seq(ReadinessRow) /\ Len(readiness) = Len(approved)
      /\ route \in RouteRow
      /\ promoted \in [Release -> 0..MaxActivations]
      /\ clock \in 0..MaxActivations
      /\ publications \in Seq(Range(publications))
      /\ refused \in BOOLEAN
  BY DEF ApprovalsTypeOK
<1>2. /\ Len(drafts) \in Nat /\ DOMAIN drafts = 1..Len(drafts)
      /\ Len(approved) \in Nat /\ DOMAIN approved = 1..Len(approved)
      /\ DOMAIN facts = 1..Len(approved) /\ DOMAIN readiness = 1..Len(approved)
      /\ Len(publications) \in Nat /\ DOMAIN publications = 1..Len(publications)
  BY <1>1, LenProperties
<1>3. \A a \in 1..Len(approved) : facts[a] \in Seq(FactRow) /\ readiness[a] \in ReadinessRow
  BY <1>1, <1>2, ElementOfSeq
<1>4. /\ approved = <<>> <=> Len(approved) = 0
      /\ publications = <<>> <=> Len(publications) = 0
  BY <1>1, EmptySeq
<1> QED BY <1>1, <1>2, <1>3, <1>4

\* A history's last revision is one of its rows.
LEMMA Histories ==
  ASSUME NEW h \in Seq(FactRow)
  PROVE  /\ Len(h) \in Nat /\ DOMAIN h = 1..Len(h)
         /\ h = <<>> <=> Len(h) = 0
         /\ h # <<>> => Len(h) \in DOMAIN h /\ Last(h) = h[Len(h)] /\ Last(h) \in FactRow
<1>1. Len(h) \in Nat /\ DOMAIN h = 1..Len(h)
  BY LenProperties
<1>2. h = <<>> <=> Len(h) = 0
  BY EmptySeq
<1>3. ASSUME h # <<>> PROVE Len(h) \in DOMAIN h /\ Last(h) = h[Len(h)] /\ Last(h) \in FactRow
  <2>1. Len(h) \in 1..Len(h)
    BY <1>1, <1>2, <1>3
  <2> QED BY <2>1, <1>1, ElementOfSeq DEF Last
<1> QED BY <1>1, <1>2, <1>3

\* A history with one more revision.
LEMMA AppendHistory ==
  ASSUME NEW h \in Seq(FactRow), NEW f \in FactRow
  PROVE  /\ Append(h, f) \in Seq(FactRow)
         /\ Len(Append(h, f)) = Len(h) + 1
         /\ DOMAIN Append(h, f) = 1..(Len(h) + 1)
         /\ \A k \in 1..Len(h) : Append(h, f)[k] = h[k]
         /\ Append(h, f)[Len(h) + 1] = f
         /\ Append(h, f) # <<>>
         /\ Last(Append(h, f)) = f
<1>1. /\ Append(h, f) \in Seq(FactRow)
      /\ Len(Append(h, f)) = Len(h) + 1
      /\ \A k \in 1..Len(h) : Append(h, f)[k] = h[k]
      /\ Append(h, f)[Len(h) + 1] = f
      /\ Len(h) \in Nat
  BY AppendProperties
<1>2. DOMAIN Append(h, f) = 1..(Len(h) + 1)
  BY <1>1, LenProperties
<1>3. Append(h, f) # <<>>
  BY <1>1, EmptySeq
<1> QED BY <1>1, <1>2, <1>3 DEF Last

\* The assumption on bodies, by field.
LEMMA Bodies ==
  ASSUME NEW b \in Body
  PROVE  /\ b.section \in BOOLEAN /\ b.shown \in BOOLEAN
         /\ b.link \in Link \cup {NoLink}
         /\ b.shows \subseteq StatusField
BY ApprovalsAssumption

\* The fields of a review, which is never the absent one.
LEMMA ReviewFields ==
  ASSUME NEW v \in ReviewRow
  PROVE  /\ v.draft \in 1..MaxDrafts /\ v.body \in Body /\ v.look \in Look
         /\ v.fact \in TrustedRow \cup {NoFact}
         /\ v # NoReview
<1>1. /\ v.draft \in 1..MaxDrafts /\ v.body \in Body /\ v.look \in Look
      /\ v.fact \in TrustedRow \cup {NoFact}
  BY DEF ReviewRow
<1>2. NoReview.draft = 0
  BY DEF NoReview
<1> QED BY <1>1, <1>2, ApprovalsAssumption

\* The fields of a trusted fact, which is never the absent one.
LEMMA TrustedFields ==
  ASSUME NEW f \in TrustedRow
  PROVE  /\ f.release \in Release /\ f.url \in Url
         /\ f.deployed \in 0..MaxActivations /\ f.observed \in 0..MaxActivations
         /\ f # NoFact
<1>1. /\ f.release \in Release /\ f.url \in Url
      /\ f.deployed \in 0..MaxActivations /\ f.observed \in 0..MaxActivations
  BY DEF TrustedRow
<1>2. NoFact.release = NoRelease
  BY DEF NoFact
<1> QED BY <1>1, <1>2, ApprovalsAssumption

\* The fields of a fact revision and of what it stores.
LEMMA StoredFields ==
  ASSUME NEW f \in FactRow
  PROVE  /\ f.release \in Release /\ f.stored \in StoredRow
         /\ f.stored.url \in Url /\ f.stored.deployed \in 0..MaxActivations
         /\ f.stored.observed \in 0..MaxActivations /\ f.stored.displayed \in Release
         /\ f.stored.link \in Link \cup {NoLink}
<1>1. f.release \in Release /\ f.stored \in StoredRow
  BY DEF FactRow
<1> QED BY <1>1 DEF StoredRow

-----------------------------------------------------------------------------
(* The document of an approval. *)

\* A managed link is the body's own, at the trusted destination.
LEMMA Managed ==
  ASSUME NEW v \in ReviewRow, ManagedDemoLink(v) # NoLink
  PROVE  /\ ManagedDemoLink(v) = v.body.link /\ v.body.link.url = v.fact.url
         /\ v.body.link \in Link
<1>1. v.body \in Body
  BY ReviewFields
<1>2. v.body.link \in Link \cup {NoLink}
  BY <1>1, Bodies
<1> QED BY <1>2 DEF ManagedDemoLink

\* A document made from an approval, a history of its facts and a readiness.
DocumentFits(p, a, h, ready) ==
  /\ p.approved = a
  /\ \/ p.fact = 0
     \/ /\ p.fact = Len(h)
        /\ approved[a].review.body.section /\ approved[a].review.body.shown
  /\ approved[a].review.body.section /\ approved[a].review.body.shown => p.fact = Len(h)
  /\ ValuesOK(p.values, approved[a])
  /\ "demo_readiness" \in DOMAIN p.values => p.values["demo_readiness"] = ready

\* Whatever a document shows of an approval was approved or may be refreshed.
LEMMA DocumentWasApproved ==
  ASSUME ApprovalsTypeOK, NEW a \in 1..Len(approved), NEW h \in Seq(FactRow), NEW ready,
         ReviewOK(approved[a].review), HistoryOK(approved[a], h)
  PROVE  DocumentFits(Document(a, h, ready), a, h, ready)
<1> PICK row : row = approved[a]
  OBVIOUS
<1> PICK v : v = row.review
  OBVIOUS
<1> PICK body : body = v.body
  OBVIOUS
<1> PICK values : values = [t \in ApprovalTargets(body) |-> Value(a, t, h, ready)]
  OBVIOUS
<1>1. /\ Document(a, h, ready).approved = a
      /\ Document(a, h, ready).fact = IF body.section /\ body.shown THEN Len(h) ELSE 0
      /\ Document(a, h, ready).values = values
  BY DEF Document
<1>2. /\ v \in ReviewRow /\ row.approvals = Requirements(v)
      /\ row.scope \in SUBSET RefreshField
  BY Types DEF ApprovedOK
<1>3. body \in Body /\ v.fact \in TrustedRow \cup {NoFact}
  BY <1>2, ReviewFields
<1>4. body.section \in BOOLEAN /\ body.shown \in BOOLEAN /\ body.shows \subseteq StatusField
  BY <1>3, Bodies
<1>5. DOMAIN row.approvals = ApprovalTargets(body) /\ DOMAIN values = ApprovalTargets(body)
  BY <1>2 DEF Requirements
<1>6. "demo_readiness" \in DOMAIN values => values["demo_readiness"] = ready
  BY <1>5 DEF Value
<1>7. ASSUME NEW t \in DOMAIN values, t # "demo_readiness"
      PROVE  \/ values[t] = row.approvals[t]
             \/ t \in row.scope
             \/ /\ t = "link"
                /\ "managed_demo_destination" \in row.scope
                /\ values[t].label = row.approvals[t].label
  <2>1. values[t] = Value(a, t, h, ready) /\ t \in ApprovalTargets(body)
    BY <1>5, <1>7
  <2>2. \/ t = "narrative"
        \/ t = "link" /\ body.link # NoLink
        \/ t \in StatusField /\ body.shown /\ body.shows # {}
    BY <2>1, <1>4 DEF ApprovalTargets
  <2>3. CASE t = "narrative"
    <3>1. Value(a, t, h, ready) = body.text
      BY <2>3 DEF Value
    <3>2. Requirements(v)[t] = body.text
      BY <2>3, <2>1 DEF Requirements
    <3> QED BY <3>1, <3>2, <2>1, <1>2
  <2>4. CASE t = "link" /\ body.link # NoLink
    <3>1. Requirements(v)[t] = body.link
      BY <2>4, <2>1 DEF Requirements
    <3>2. Value(a, t, h, ready) = IF h # <<>> /\ Last(h).stored.link # NoLink
                                  THEN [body.link EXCEPT !.url = Last(h).stored.url]
                                  ELSE body.link
      BY <2>4 DEF Value
    <3>3. CASE h # <<>> /\ Last(h).stored.link # NoLink
      <4>1. StoredOK(row, Last(h).stored)
        BY <3>3, Histories DEF HistoryOK
      <4> PICK stored : stored = Last(h).stored
        OBVIOUS
      <4>2. /\ stored.link = ManagedDemoLink(v)
            /\ "managed_demo_destination" \notin row.scope => stored.url = v.fact.url
        BY <4>1 DEF StoredOK
      <4>3. body.link \in Link /\ body.link.url = v.fact.url
        BY <4>2, <3>3, <1>2, Managed
      <4>4. /\ [body.link EXCEPT !.url = stored.url].label = body.link.label
            /\ stored.url = body.link.url =>
                 [body.link EXCEPT !.url = stored.url] = body.link
        BY <4>3 DEF Link
      <4> PICK refreshed : refreshed = [body.link EXCEPT !.url = stored.url]
        OBVIOUS
      <4>5. values[t] = refreshed /\ row.approvals[t] = body.link
        BY <3>1, <3>2, <3>3, <2>1, <1>2
      <4>6. refreshed.label = body.link.label /\ (stored.url = body.link.url => refreshed = body.link)
        BY <4>4
      <4> QED BY <4>2, <4>3, <4>5, <4>6, <2>4
    <3>4. CASE ~(h # <<>> /\ Last(h).stored.link # NoLink)
      BY <3>1, <3>2, <3>4, <2>1, <1>2
    <3> QED BY <3>3, <3>4
  <2>5. CASE t \in StatusField /\ body.shown /\ body.shows # {}
    <3>1. v.fact # NoFact
      <4>1. UsesDeploymentFacts(body)
        BY <2>5 DEF UsesDeploymentFacts
      <4>2. v.fact \in TrustedRow
        BY <4>1 DEF ReviewOK
      <4> QED BY <4>2, TrustedFields
    <3>2. h # <<>>
      BY <3>1 DEF HistoryOK
    <3>3. StoredOK(row, Last(h).stored)
      BY <3>2, Histories DEF HistoryOK
    <3> PICK stored : stored = Last(h).stored
      OBVIOUS
    <3>4. /\ stored.displayed = v.fact.release
          /\ "deployment_timestamp" \notin row.scope => stored.deployed = v.fact.deployed
      BY <3>3 DEF StoredOK
    <3>5. /\ t = "deployment_timestamp" => /\ Value(a, t, h, ready) = stored.deployed
                                           /\ Requirements(v)[t] = v.fact.deployed
          /\ t = "availability" => /\ Value(a, t, h, ready) = "available"
                                   /\ Requirements(v)[t] = "available"
      BY <2>1 DEF Value, Requirements
    <3>6. /\ t = "release_identifier" => /\ Value(a, t, h, ready) = stored.displayed
                                         /\ Requirements(v)[t] = v.fact.release
          /\ t = "source_commit" => /\ Value(a, t, h, ready) = stored.displayed
                                    /\ Requirements(v)[t] = v.fact.release
      BY <2>1 DEF Value, Requirements
    <3>7. t \in {"deployment_timestamp", "availability", "release_identifier",
                 "source_commit"}
      BY <2>5, <1>7 DEF StatusField
    <3> QED BY <3>4, <3>5, <3>6, <3>7, <2>1, <1>2
  <2> QED BY <2>2, <2>3, <2>4, <2>5
<1>8. ValuesOK(values, row)
  BY <1>5, <1>7 DEF ValuesOK
<1>9. \/ Document(a, h, ready).fact = 0
      \/ /\ Document(a, h, ready).fact = Len(h)
         /\ body.section /\ body.shown
  BY <1>1, <1>4
<1>10. /\ Document(a, h, ready).approved = a
       /\ body.section /\ body.shown => Document(a, h, ready).fact = Len(h)
       /\ ValuesOK(Document(a, h, ready).values, row)
       /\ "demo_readiness" \in DOMAIN Document(a, h, ready).values =>
            Document(a, h, ready).values["demo_readiness"] = ready
  BY <1>1, <1>6, <1>8
<1> PICK p : p = Document(a, h, ready)
  OBVIOUS
<1> QED BY <1>9, <1>10 DEF DocumentFits

-----------------------------------------------------------------------------
(* What a step leaves alone. *)

\* Approvals and their reviews are only added, and histories only grow.
Grows ==
  \A a \in 1..Len(approved) :
    /\ a \in DOMAIN approved' /\ approved'[a] = approved[a]
    /\ Len(facts'[a]) \in Nat /\ Len(facts[a]) <= Len(facts'[a])

\* A document stays what it was when approvals and histories grow.
LEMMA DocumentStays ==
  ASSUME ApprovalsTypeOK, NEW p, DocumentOK(p), Grows
  PROVE  DocumentOK(p)'
<1>1. DOMAIN approved = 1..Len(approved)
  BY Types
<1> PICK a : a = p.approved
  OBVIOUS
<1>2. a \in 1..Len(approved) /\ p.fact \in 0..Len(facts[a])
  BY <1>1 DEF DocumentOK
<1>3. /\ a \in DOMAIN approved' /\ approved'[a] = approved[a]
      /\ Len(facts'[a]) \in Nat /\ Len(facts[a]) <= Len(facts'[a])
  BY <1>2 DEF Grows
<1>4. Len(facts[a]) \in Nat
  BY <1>2, Types, Histories
<1>5. p.fact \in 0..Len(facts'[a])
  BY <1>2, <1>3, <1>4
<1>6. /\ p.fact # 0 => /\ approved[a].review.body.section
                       /\ approved[a].review.body.shown
      /\ ValuesOK(p.values, approved[a])
  BY DEF DocumentOK
<1>7. ValuesOK(p.values, approved[a])' <=> ValuesOK(p.values, approved[a])
  BY <1>3 DEF ValuesOK
<1> QED BY <1>3, <1>5, <1>6, <1>7 DEF DocumentOK

\* The same publications, and another at the end or not.
LEMMA PublicationsStay ==
  ASSUME ApprovalsTypeOK, PublicationsOK, Grows,
         \/ publications' = publications
         \/ \E p : publications' = Append(publications, p) /\ DocumentOK(p)'
  PROVE  PublicationsOK' /\ (publications \in Seq(Range(publications)))'
<1>1. publications \in Seq(Range(publications)) /\ DOMAIN publications = 1..Len(publications)
  BY Types
<1>2. \A i \in 1..Len(publications) : DocumentOK(publications[i])
  BY <1>1 DEF PublicationsOK
<1>3. CASE publications' = publications
  <2>1. SUFFICES ASSUME NEW i \in DOMAIN publications PROVE DocumentOK(publications[i])'
    BY <1>1, <1>3 DEF PublicationsOK
  <2> PICK p : p = publications[i]
    OBVIOUS
  <2>2. DocumentOK(p)
    BY <1>1, <1>2
  <2>3. DocumentOK(p)'
    BY <2>2, DocumentStays
  <2> QED BY <2>3, <1>3 DEF DocumentOK
<1>4. ASSUME NEW q, publications' = Append(publications, q), DocumentOK(q)'
      PROVE  PublicationsOK' /\ (publications \in Seq(Range(publications)))'
  <2>1. /\ publications' \in Seq(Range(publications'))
        /\ Len(publications) \in Nat
        /\ DOMAIN publications' = 1..(Len(publications) + 1)
        /\ \A i \in 1..Len(publications) : publications'[i] = publications[i]
        /\ publications'[Len(publications) + 1] = q
    BY <1>1, <1>4, AppendSeq
  <2>2. SUFFICES ASSUME NEW i \in DOMAIN publications' PROVE DocumentOK(publications[i])'
    BY <2>1 DEF PublicationsOK
  <2>3. CASE i \in 1..Len(publications)
    <3> PICK p : p = publications[i]
      OBVIOUS
    <3>1. DocumentOK(p)
      BY <2>3, <1>2
    <3>2. DocumentOK(p)'
      BY <3>1, DocumentStays
    <3> QED BY <3>2, <2>1, <2>3 DEF DocumentOK
  <2>4. CASE i = Len(publications) + 1
    BY <2>1, <2>4, <1>4 DEF DocumentOK
  <2> QED BY <2>1, <2>2, <2>3, <2>4
<1> QED BY <1>3, <1>4

\* Nothing that is approved, observed or published changes.
LEMMA FactsStay ==
  ASSUME ApprovalsInv,
         UNCHANGED <<approved, facts, route, promoted, publications>>
  PROVE  /\ FactsOK' /\ RouteOK' /\ PublicationsOK'
         /\ FactsFollowRoute' /\ PublicationFollowsRoute'
<1>1. FactsOK'
  BY DEF ApprovalsInv, FactsOK, ReviewOK, HistoryOK, StoredOK
<1>2. RouteOK'
  BY DEF ApprovalsInv, RouteOK
<1>3. PublicationsOK'
  BY DEF ApprovalsInv, PublicationsOK, DocumentOK, ValuesOK
<1>4. FactsFollowRoute'
  BY DEF ApprovalsInv, FactsFollowRoute, LatestApproved, FactHead
<1>5. PublicationFollowsRoute'
  BY DEF ApprovalsInv, PublicationFollowsRoute, LatestApproved
<1> QED BY <1>1, <1>2, <1>3, <1>4, <1>5

-----------------------------------------------------------------------------
(* Drafts and reviews. *)

\* The first state satisfies the invariant.
LEMMA Initially == ApprovalsInit => ApprovalsInv
<1> SUFFICES ASSUME ApprovalsInit PROVE ApprovalsInv
  OBVIOUS
<1>1. ApprovalsTypeOK
  <2>1. /\ drafts \in Seq(DraftRow) /\ Len(drafts) = 0
        /\ approved \in Seq(Range(approved)) /\ Len(approved) = 0
        /\ facts \in Seq(Seq(FactRow)) /\ Len(facts) = 0
        /\ readiness \in Seq(ReadinessRow) /\ Len(readiness) = 0
        /\ publications \in Seq(Range(publications))
    BY EmptySeq DEF ApprovalsInit
  <2>2. DOMAIN approved = {}
    BY DEF ApprovalsInit
  <2>3. /\ route \in RouteRow /\ promoted \in [Release -> 0..MaxActivations]
        /\ clock \in 0..MaxActivations /\ refused \in BOOLEAN
    <3>1. 0 \in 0..MaxActivations
      BY ApprovalsAssumption
    <3>2. route \in RouteRow
      BY <3>1 DEF ApprovalsInit, RouteRow
    <3>3. refused \in BOOLEAN
      BY DEF ApprovalsInit
    <3> QED BY <3>1, <3>2, <3>3 DEF ApprovalsInit
  <2>4. held \in ReviewRow \cup {NoReview}
    BY DEF ApprovalsInit
  <2> QED BY <2>1, <2>2, <2>3, <2>4, ApprovalsAssumption DEF ApprovalsTypeOK
<1>2. FactsOK /\ ReadyOK /\ PublicationsOK
  BY DEF ApprovalsInit, FactsOK, ReadyOK, PublicationsOK
<1>3. HeldOK
  BY DEF ApprovalsInit, HeldOK
<1>4. RouteOK
  BY DEF ApprovalsInit, RouteOK
<1>5. FactsFollowRoute
  BY DEF ApprovalsInit, FactsFollowRoute
<1>6. PublicationFollowsRoute
  BY DEF ApprovalsInit, PublicationFollowsRoute
<1> QED BY <1>1, <1>2, <1>3, <1>4, <1>5, <1>6 DEF ApprovalsInv

\* No table but the drafts changes, and the review may.
LEMMA OwnerStep ==
  ASSUME ApprovalsInv,
         drafts' \in Seq(DraftRow), Len(drafts') <= MaxDrafts,
         held' \in ReviewRow \cup {NoReview}, HeldOK',
         UNCHANGED <<approved, facts, readiness, route, promoted, clock, publications,
                     refused>>
  PROVE  ApprovalsInv'
<1>1. ApprovalsTypeOK'
  BY DEF ApprovalsInv, ApprovalsTypeOK, ApprovedOK
<1>2. ReadyOK'
  BY DEF ApprovalsInv, ReadyOK, Attested
<1> QED BY <1>1, <1>2, FactsStay DEF ApprovalsInv

\* Saving a revision changes the drafts only.
LEMMA SaveStep ==
  ASSUME ApprovalsInv, NEW b \in Body, NEW look \in Look, SaveRevision(b, look)
  PROVE  ApprovalsInv'
<1>1. ApprovalsTypeOK
  BY DEF ApprovalsInv
<1>2. [body |-> b, look |-> look] \in DraftRow
  BY DEF DraftRow
<1>3. /\ drafts' = Append(drafts, [body |-> b, look |-> look])
      /\ Len(drafts) < MaxDrafts
      /\ UNCHANGED <<held, approved, facts, readiness, route, promoted, clock,
                     publications, refused>>
  BY DEF SaveRevision
<1>4. drafts' \in Seq(DraftRow) /\ Len(drafts') = Len(drafts) + 1
  BY <1>1, <1>2, <1>3, Types, AppendProperties
<1>5. Len(drafts') <= MaxDrafts
  BY <1>1, <1>3, <1>4, Types, ApprovalsAssumption
<1>6. HeldOK' /\ held' \in ReviewRow \cup {NoReview}
  BY <1>1, <1>3, Types DEF ApprovalsInv, HeldOK, ReviewOK
<1> QED BY <1>3, <1>4, <1>5, <1>6, OwnerStep

\* create_draft_revision inherits a look there is.
LEMMA DraftStep ==
  ASSUME ApprovalsInv, NEW b \in Body, CreateDraftRevision(b)
  PROVE  ApprovalsInv'
<1>1. ApprovalsTypeOK
  BY DEF ApprovalsInv
<1>2. InheritedLook \in Look
  <2>1. CASE drafts = <<>>
    BY <2>1, ApprovalsAssumption DEF InheritedLook
  <2>2. CASE drafts # <<>>
    <3>1. Len(drafts) \in 1..Len(drafts)
      BY <1>1, <2>2, Types, EmptySeq
    <3>2. drafts[Len(drafts)] \in DraftRow
      BY <3>1, <1>1, Types, ElementOfSeq
    <3>3. drafts[Len(drafts)].look \in Look
      BY <3>2 DEF DraftRow
    <3> QED BY <2>2, <3>3 DEF InheritedLook, Last
  <2> QED BY <2>1, <2>2
<1> QED BY <1>2, SaveStep DEF CreateDraftRevision

\* A review built now has the fact of the routed release when it uses one.
LEMMA ReviewIsRow ==
  ASSUME ApprovalsTypeOK, drafts # <<>>, Reviewable(Len(drafts))
  PROVE  /\ Review(Len(drafts)) \in ReviewRow
         /\ ReviewOK(Review(Len(drafts)))
<1> PICK n : n = Len(drafts)
  OBVIOUS
<1>1. n \in 1..Len(drafts) /\ n \in 1..MaxDrafts
  BY Types, EmptySeq, ApprovalsAssumption
<1>2. drafts[n] \in DraftRow
  BY <1>1, Types, ElementOfSeq
<1>3. drafts[n].body \in Body /\ drafts[n].look \in Look
  BY <1>2 DEF DraftRow
<1> PICK uses : uses = UsesDeploymentFacts(drafts[n].body)
  OBVIOUS
<1>4. uses => TrustedFact \in TrustedRow
  <2>1. SUFFICES ASSUME uses PROVE TrustedFact \in TrustedRow
    OBVIOUS
  <2>2. route.release \in Release /\ route.observed \in 0..MaxActivations
    BY <2>1, Types DEF Reviewable, RouteRow
  <2>3. promoted[route.release] \in 0..MaxActivations
    BY <2>2, Types
  <2>4. DemoUrl[route.release] \in Url
    BY <2>2, ApprovalsAssumption
  <2> QED BY <2>2, <2>3, <2>4 DEF TrustedFact, TrustedRow
<1> PICK fact : fact = IF uses THEN TrustedFact ELSE NoFact
  OBVIOUS
<1>5. Review(n) = [draft |-> n, body |-> drafts[n].body, look |-> drafts[n].look, fact |-> fact]
  BY DEF Review
<1>6. fact \in TrustedRow \cup {NoFact}
  BY <1>4
<1>7. Review(n) \in ReviewRow
  BY <1>1, <1>3, <1>5, <1>6 DEF ReviewRow
<1>8. Review(n).body = drafts[n].body /\ Review(n).fact = fact
  BY <1>5
<1> QED BY <1>4, <1>7, <1>8 DEF ReviewOK

\* build_review.
LEMMA ReviewStep ==
  ASSUME ApprovalsInv, GetPublicationReview
  PROVE  ApprovalsInv'
<1>1. ApprovalsTypeOK
  BY DEF ApprovalsInv
<1>2. /\ drafts # <<>> /\ Reviewable(Len(drafts))
      /\ held' = Review(Len(drafts))
      /\ UNCHANGED <<drafts, approved, facts, readiness, route, promoted, clock,
                     publications, refused>>
  BY DEF GetPublicationReview
<1>3. Review(Len(drafts)) \in ReviewRow /\ ReviewOK(Review(Len(drafts)))
  BY <1>1, <1>2, ReviewIsRow
<1>4. HeldOK' /\ held' \in ReviewRow \cup {NoReview}
  BY <1>2, <1>3 DEF HeldOK, ReviewOK
<1>5. drafts' \in Seq(DraftRow) /\ Len(drafts') <= MaxDrafts
  BY <1>1, <1>2, Types
<1> QED BY <1>2, <1>4, <1>5, OwnerStep

-----------------------------------------------------------------------------
(* Approvals, publications and readiness. *)

\* A new approval was never checked.
LEMMA NewIsReadiness == NeverChecked \in ReadinessRow /\ NeverChecked.state # "ready_to_share"
BY DEF NeverChecked, ReadinessRow

\* The first fact revision stores what was reviewed.
LEMMA FirstFact ==
  ASSUME NEW v \in ReviewRow, v.fact \in TrustedRow
  PROVE  /\ OwnerAuthorized(v) \in FactRow
         /\ OwnerAuthorized(v).release = v.fact.release
         /\ OwnerAuthorized(v).stored.url = v.fact.url
         /\ OwnerAuthorized(v).stored.deployed = v.fact.deployed
         /\ OwnerAuthorized(v).stored.observed = v.fact.observed
         /\ OwnerAuthorized(v).stored.displayed = v.fact.release
         /\ OwnerAuthorized(v).stored.link = ManagedDemoLink(v)
<1> PICK link : link = ManagedDemoLink(v)
  OBVIOUS
<1>1. link \in Link \cup {NoLink}
  BY Managed
<1> PICK f : f = v.fact
  OBVIOUS
<1>2. f.release \in Release /\ f.url \in Url
      /\ f.deployed \in 0..MaxActivations /\ f.observed \in 0..MaxActivations
  BY TrustedFields
<1> PICK stored : stored = [url |-> f.url, deployed |-> f.deployed, observed |-> f.observed,
                            displayed |-> f.release, link |-> link]
  OBVIOUS
<1>3. stored \in StoredRow
  BY <1>1, <1>2 DEF StoredRow
<1>4. OwnerAuthorized(v) = [release |-> f.release, stored |-> stored]
  BY DEF OwnerAuthorized
<1>5. OwnerAuthorized(v) \in FactRow
  BY <1>2, <1>3, <1>4 DEF FactRow
<1> QED BY <1>4, <1>5

\* create_approved_revision.
LEMMA ApprovalStep ==
  ASSUME ApprovalsInv, NEW scope \in SUBSET RefreshField, CreateApprovedRevision(scope)
  PROVE  ApprovalsInv'
<1>1. ApprovalsTypeOK /\ FactsOK /\ HeldOK /\ ReadyOK /\ RouteOK /\ PublicationsOK
  BY DEF ApprovalsInv
<1> PICK row : row = [review |-> held, approvals |-> Requirements(held), scope |-> scope]
  OBVIOUS
<1> PICK history : history = IF held.fact = NoFact THEN <<>> ELSE <<OwnerAuthorized(held)>>
  OBVIOUS
<1> PICK n : n = Len(approved)
  OBVIOUS
<1>2. /\ held # NoReview /\ ReviewHolds(held)
      /\ approved' = Append(approved, row)
      /\ facts' = Append(facts, history)
      /\ readiness' = Append(readiness, NeverChecked)
      /\ held' = NoReview
      /\ UNCHANGED <<drafts, route, promoted, clock, publications, refused>>
  BY DEF CreateApprovedRevision
<1>3. row.review = held /\ row.approvals = Requirements(held) /\ row.scope = scope
  OBVIOUS
<1>4. held \in ReviewRow /\ ReviewOK(held)
  BY <1>1, <1>2, Types DEF HeldOK
<1>5. /\ held.fact # NoFact => held.fact \in TrustedRow
      /\ held.fact \in TrustedRow => held.fact # NoFact
  BY <1>4, ReviewFields, TrustedFields
<1>6. /\ history \in Seq(FactRow)
      /\ HistoryOK(row, history)
      /\ history # <<>> => /\ Last(history) = OwnerAuthorized(held)
                           /\ held.fact \in TrustedRow
  <2>1. CASE held.fact = NoFact
    BY <2>1, <1>3, EmptySeq DEF HistoryOK
  <2>2. CASE held.fact # NoFact
    <3> PICK first : first = OwnerAuthorized(held)
      OBVIOUS
    <3>1. first \in FactRow /\ StoredOK(row, first.stored)
      BY <2>2, <1>3, <1>4, <1>5, FirstFact DEF StoredOK
    <3>2. history = <<first>>
      BY <2>2
    <3>3. /\ history \in Seq(FactRow) /\ history # <<>> /\ Last(history) = first
          /\ DOMAIN history = {1} /\ history[1] = first
      BY <3>1, <3>2 DEF Last
    <3> QED BY <2>2, <3>1, <3>3, <1>3, <1>5 DEF HistoryOK
  <2> QED BY <2>1, <2>2
<1>7. /\ approved' \in Seq(Range(approved')) /\ n \in Nat
      /\ Len(approved') = n + 1 /\ DOMAIN approved' = 1..(n + 1)
      /\ \A a \in 1..n : approved'[a] = approved[a]
      /\ approved'[n + 1] = row
  BY <1>1, <1>2, Types, AppendSeq
<1>8. /\ facts' \in Seq(Seq(FactRow)) /\ Len(facts') = n + 1
      /\ \A a \in 1..n : facts'[a] = facts[a]
      /\ facts'[n + 1] = history
  BY <1>1, <1>2, <1>6, Types, AppendProperties
<1>9. /\ readiness' \in Seq(ReadinessRow) /\ Len(readiness') = n + 1
      /\ \A a \in 1..n : readiness'[a] = readiness[a]
      /\ readiness'[n + 1] = NeverChecked
  BY <1>1, <1>2, Types, AppendProperties, NewIsReadiness
<1>10. ApprovalsTypeOK'
  <2>1. ASSUME NEW a \in DOMAIN approved' PROVE ApprovedOK(approved'[a])
    <3>1. CASE a \in 1..n
      BY <3>1, <1>1, <1>7, Types
    <3>2. CASE a = n + 1
      BY <3>2, <1>3, <1>4, <1>7 DEF ApprovedOK
    <3> QED BY <3>1, <3>2, <1>7
  <2>2. \A a \in DOMAIN approved' : ApprovedOK(approved[a])'
    BY <2>1 DEF ApprovedOK
  <2>3. held' \in ReviewRow \cup {NoReview}
    BY <1>2
  <2>4. /\ (drafts \in Seq(DraftRow) /\ Len(drafts) <= MaxDrafts)'
        /\ (route \in RouteRow)' /\ (promoted \in [Release -> 0..MaxActivations])'
        /\ (clock \in 0..MaxActivations)' /\ (publications \in Seq(Range(publications)))'
        /\ (refused \in BOOLEAN)'
    BY <1>1, <1>2, Types
  <2> QED BY <2>2, <2>3, <2>4, <1>7, <1>8, <1>9 DEF ApprovalsTypeOK
<1>11. FactsOK'
  <2>1. ASSUME NEW a \in DOMAIN approved'
        PROVE  ReviewOK(approved'[a].review) /\ HistoryOK(approved'[a], facts'[a])
    <3>1. CASE a \in 1..n
      BY <3>1, <1>1, <1>7, <1>8, Types DEF FactsOK
    <3>2. CASE a = n + 1
      BY <3>2, <1>3, <1>4, <1>6, <1>7, <1>8
    <3> QED BY <3>1, <3>2, <1>7
  <2> QED BY <2>1 DEF FactsOK, ReviewOK, HistoryOK, StoredOK
<1>12. HeldOK'
  BY <1>2 DEF HeldOK
<1>13. ReadyOK'
  <2>1. ASSUME NEW a \in DOMAIN approved'
        PROVE  Attested(readiness'[a], facts'[a])
    <3>1. CASE a \in 1..n
      BY <3>1, <1>1, <1>8, <1>9, Types DEF ReadyOK
    <3>2. CASE a = n + 1
      BY <3>2, <1>9, NewIsReadiness DEF Attested
    <3> QED BY <3>1, <3>2, <1>7
  <2> QED BY <2>1 DEF ReadyOK, Attested
<1>14. RouteOK'
  BY <1>1, <1>2 DEF RouteOK
<1>15. PublicationsOK'
  <2>1. Grows
    <3>1. SUFFICES ASSUME NEW a \in 1..n
          PROVE  /\ a \in DOMAIN approved' /\ approved'[a] = approved[a]
                 /\ Len(facts'[a]) \in Nat /\ Len(facts[a]) <= Len(facts'[a])
      BY DEF Grows
    <3>2. Len(facts[a]) \in Nat
      BY <1>1, Types, Histories
    <3>3. a \in DOMAIN approved' /\ approved'[a] = approved[a] /\ facts'[a] = facts[a]
      BY <1>7, <1>8
    <3> QED BY <3>2, <3>3
  <2> QED BY <2>1, <1>1, <1>2, PublicationsStay
<1>16. FactsFollowRoute'
  <2>1. SUFFICES ASSUME facts'[n + 1] # <<>>
        PROVE  LET head == Last(facts'[n + 1])
               IN /\ head.release = route.release
                  /\ head.stored.deployed = promoted[route.release]
                  /\ head.stored.observed = route.observed
    BY <1>2, <1>7 DEF FactsFollowRoute, LatestApproved, FactHead
  <2>2. Last(facts'[n + 1]) = OwnerAuthorized(held) /\ held.fact \in TrustedRow
    BY <2>1, <1>6, <1>8
  <2>3. held.fact = TrustedFact
    BY <2>2, <1>2, <1>5 DEF ReviewHolds, Review
  <2>4. /\ held.fact.release = route.release
        /\ held.fact.deployed = promoted[route.release]
        /\ held.fact.observed = route.observed
    BY <2>3 DEF TrustedFact
  <2> QED BY <2>2, <2>4, <1>4, FirstFact
<1>17. PublicationFollowsRoute'
  <2>1. SUFFICES ASSUME publications # <<>>, Last(publications).approved = n + 1
        PROVE  FALSE
    BY <1>2, <1>7 DEF PublicationFollowsRoute, LatestApproved
  <2>2. Len(publications) \in DOMAIN publications
    BY <2>1, <1>1, Types
  <2>3. Last(publications).approved \in 1..n
    BY <2>2, <1>1, Types DEF PublicationsOK, DocumentOK, Last
  <2> QED BY <2>1, <2>3, <1>7
<1> QED BY <1>10, <1>11, <1>12, <1>13, <1>14, <1>15, <1>16, <1>17 DEF ApprovalsInv

\* create_publication.
LEMMA PublicationStep ==
  ASSUME ApprovalsInv, PublishApproved
  PROVE  ApprovalsInv'
<1>1. ApprovalsTypeOK /\ FactsOK /\ HeldOK /\ ReadyOK /\ RouteOK /\ PublicationsOK /\ FactsFollowRoute
  BY DEF ApprovalsInv
<1> PICK a : a = Len(approved)
  OBVIOUS
<1> PICK h : h = facts[a]
  OBVIOUS
<1> PICK ready : ready = readiness[a]
  OBVIOUS
<1> PICK p : p = Document(a, h, ready)
  OBVIOUS
<1>2. /\ approved # <<>> /\ publications' = Append(publications, p)
      /\ UNCHANGED <<drafts, held, approved, facts, readiness, route, promoted, clock,
                     refused>>
  BY DEF PublishApproved, LatestApproved
<1>3. a \in 1..Len(approved) /\ a \in DOMAIN approved /\ h \in Seq(FactRow)
  BY <1>1, <1>2, Types
<1>4. ReviewOK(approved[a].review) /\ HistoryOK(approved[a], h)
  BY <1>1, <1>3 DEF FactsOK
<1>5. /\ p.approved = a
      /\ \/ p.fact = 0
         \/ /\ p.fact = Len(h)
            /\ approved[a].review.body.section /\ approved[a].review.body.shown
      /\ ValuesOK(p.values, approved[a])
      /\ "demo_readiness" \in DOMAIN p.values => p.values["demo_readiness"] = ready
  <2>1. DocumentFits(p, a, h, ready)
    BY <1>1, <1>3, <1>4, DocumentWasApproved
  <2> QED BY <2>1 DEF DocumentFits
<1>6. Len(h) \in Nat /\ (h = <<>> <=> Len(h) = 0)
  BY <1>3, Histories
<1>7. DocumentOK(p)
  BY <1>3, <1>5, <1>6 DEF DocumentOK
<1>8. DocumentOK(p)'
  BY <1>2, <1>7 DEF DocumentOK, ValuesOK
<1>9. Grows
  <2>1. SUFFICES ASSUME NEW c \in 1..Len(approved)
        PROVE  /\ c \in DOMAIN approved' /\ approved'[c] = approved[c]
               /\ Len(facts'[c]) \in Nat /\ Len(facts[c]) <= Len(facts'[c])
    BY DEF Grows
  <2>2. Len(facts[c]) \in Nat
    BY <1>1, Types, Histories
  <2> QED BY <2>2, <1>1, <1>2, Types
<1>10. PublicationsOK' /\ (publications \in Seq(Range(publications)))'
  BY <1>1, <1>2, <1>8, <1>9, PublicationsStay
<1>11. ApprovalsTypeOK'
  BY <1>1, <1>2, <1>10 DEF ApprovalsTypeOK, ApprovedOK
<1>12. FactsOK' /\ HeldOK' /\ ReadyOK' /\ RouteOK'
  <2>1. FactsOK'
    BY <1>1, <1>2 DEF FactsOK, ReviewOK, HistoryOK, StoredOK
  <2>2. HeldOK' /\ RouteOK'
    BY <1>1, <1>2 DEF HeldOK, ReviewOK, RouteOK
  <2>3. ReadyOK'
    BY <1>1, <1>2 DEF ReadyOK, Attested
  <2> QED BY <2>1, <2>2, <2>3
<1>13. FactsFollowRoute'
  BY <1>1, <1>2 DEF FactsFollowRoute, LatestApproved, FactHead
<1>14. PublicationFollowsRoute'
  <2>1. Last(publications') = p
    <3>1. publications' = Append(publications, p) /\ publications \in Seq(Range(publications))
      BY <1>1, <1>2, Types
    <3> QED BY <3>1, AppendSeq DEF Last
  <2>2. SUFFICES ASSUME p.fact # 0
        PROVE  /\ p.fact = Len(h)
               /\ "demo_readiness" \in DOMAIN p.values
                    /\ p.values["demo_readiness"].state = "ready_to_share" =>
                      p.values["demo_readiness"].attested = route.release
    BY <2>1, <1>2 DEF PublicationFollowsRoute, LatestApproved
  <2>3. p.fact = Len(h) /\ h # <<>>
    BY <2>2, <1>5, <1>6
  <2>4. Last(h).release = route.release
    BY <2>3, <1>1, <1>2 DEF FactsFollowRoute, LatestApproved, FactHead
  <2>5. Attested(ready, h)
    BY <1>1, <1>3 DEF ReadyOK
  <2> QED BY <2>3, <2>4, <2>5, <1>5 DEF Attested
<1> QED BY <1>10, <1>11, <1>12, <1>13, <1>14 DEF ApprovalsInv

\* create_readiness_attestation.
LEMMA AttestationStep ==
  ASSUME ApprovalsInv, NEW a \in DOMAIN approved, CreateReadinessAttestation(a)
  PROVE  ApprovalsInv'
<1>1. ApprovalsTypeOK /\ ReadyOK /\ HeldOK
  BY DEF ApprovalsInv
<1> PICK ready : ready = [state |-> "ready_to_share", reason |-> "none",
                          attested |-> Last(facts[a]).release]
  OBVIOUS
<1>2. /\ facts[a] # <<>>
      /\ readiness' = [readiness EXCEPT ![a] = ready]
      /\ UNCHANGED <<drafts, held, approved, facts, route, promoted, clock, publications,
                     refused>>
  BY DEF CreateReadinessAttestation, FactHead
<1>3. a \in 1..Len(approved) /\ facts[a] \in Seq(FactRow)
  BY <1>1, Types
<1>4. Last(facts[a]) \in FactRow
  BY <1>2, <1>3, Histories
<1>5. Last(facts[a]).release \in Release
  BY <1>4, StoredFields
<1>6. ready \in ReadinessRow
  BY <1>5 DEF ReadinessRow
<1>7. /\ readiness' \in Seq(ReadinessRow) /\ Len(readiness') = Len(readiness)
      /\ \A c \in 1..Len(approved) : readiness'[c] = IF c = a THEN ready ELSE readiness[c]
  BY <1>1, <1>2, <1>3, <1>6, Types, ExceptSeq
<1>8. ApprovalsTypeOK'
  BY <1>1, <1>2, <1>7 DEF ApprovalsTypeOK, ApprovedOK
<1>9. ReadyOK'
  <2>1. ASSUME NEW c \in DOMAIN approved' PROVE Attested(readiness'[c], facts'[c])
    <3>1. c \in 1..Len(approved) /\ c \in DOMAIN approved
      BY <1>1, <1>2, Types
    <3>2. CASE c = a
      BY <3>1, <3>2, <1>2, <1>7 DEF Attested
    <3>3. CASE c # a
      BY <3>1, <3>3, <1>1, <1>2, <1>7 DEF ReadyOK
    <3> QED BY <3>2, <3>3
  <2> QED BY <2>1 DEF ReadyOK, Attested
<1>10. HeldOK'
  BY <1>1, <1>2 DEF HeldOK, ReviewOK
<1> QED BY <1>2, <1>8, <1>9, <1>10, FactsStay DEF ApprovalsInv

-----------------------------------------------------------------------------
(* Refreshes and activations. *)

\* The next fact revision is a row, and follows the release where it may.
LEMMA NextFactIsRow ==
  ASSUME ApprovalsTypeOK, NEW r \in Release, NEW now \in 0..MaxActivations,
         approved # <<>>, facts[Len(approved)] # <<>>,
         HistoryOK(approved[Len(approved)], facts[Len(approved)])
  PROVE  /\ NextFact(r, now) \in FactRow
         /\ NextFact(r, now).release = r
         /\ StoredOK(approved[Len(approved)], NextFact(r, now).stored)
         /\ "deployment_timestamp" \in approved[Len(approved)].scope =>
              NextFact(r, now).stored.deployed = now
         /\ "availability" \in approved[Len(approved)].scope =>
              NextFact(r, now).stored.observed = now
<1> PICK a : a = Len(approved)
  OBVIOUS
<1> PICK row : row = approved[a]
  OBVIOUS
<1> PICK old : old = Last(facts[a]).stored
  OBVIOUS
<1>1. a \in 1..Len(approved) /\ facts[a] \in Seq(FactRow)
  BY Types
<1>2. Last(facts[a]) \in FactRow /\ StoredOK(row, old)
  BY <1>1, Histories DEF HistoryOK
<1>3. /\ old \in StoredRow /\ old.url \in Url /\ old.deployed \in 0..MaxActivations
      /\ old.observed \in 0..MaxActivations /\ old.displayed \in Release
      /\ old.link \in Link \cup {NoLink}
  BY <1>2, StoredFields
<1>4. DemoUrl[r] \in Url
  BY ApprovalsAssumption
<1> PICK url : url = IF "managed_demo_destination" \in row.scope /\ LinkUnchanged(old)
                     THEN DemoUrl[r] ELSE old.url
  OBVIOUS
<1> PICK deployed : deployed = IF "deployment_timestamp" \in row.scope THEN now
                               ELSE old.deployed
  OBVIOUS
<1> PICK observed : observed = IF "availability" \in row.scope THEN now ELSE old.observed
  OBVIOUS
<1> PICK new : new = [old EXCEPT !.url = url, !.deployed = deployed, !.observed = observed]
  OBVIOUS
<1>5. url \in Url /\ deployed \in 0..MaxActivations /\ observed \in 0..MaxActivations
  BY <1>3, <1>4
<1>6. /\ new \in StoredRow /\ new.url = url /\ new.deployed = deployed
      /\ new.observed = observed /\ new.displayed = old.displayed /\ new.link = old.link
  BY <1>3, <1>5 DEF StoredRow
<1>7. Refreshed(old, row.scope, r, now) = new
  BY DEF Refreshed
<1>8. NextFact(r, now) = [release |-> r, stored |-> new]
  BY <1>7 DEF NextFact, FactHead, LatestApproved
<1>9. NextFact(r, now) \in FactRow
  BY <1>6, <1>8 DEF FactRow
<1>10. NextFact(r, now).release = r /\ NextFact(r, now).stored = new
  BY <1>8
<1>11. StoredOK(row, new)
  BY <1>2, <1>6 DEF StoredOK
<1> QED BY <1>6, <1>9, <1>10, <1>11

\* Another release withdraws what was said of the previous one.
LEMMA RecheckIsRow ==
  ASSUME ApprovalsTypeOK, NEW a \in 1..Len(approved), NEW r \in Release,
         facts[a] # <<>>, Attested(readiness[a], facts[a])
  PROVE  /\ Recheck(a, r) \in ReadinessRow
         /\ Recheck(a, r).state = "ready_to_share" => Recheck(a, r).attested = r
<1> PICK old : old = readiness[a]
  OBVIOUS
<1>1. old \in ReadinessRow
  BY Types
<1>2. CASE r = FactHead(a).release
  BY <1>1, <1>2 DEF Recheck, Attested, FactHead
<1>3. CASE r # FactHead(a).release
  <2> PICK new : new = [old EXCEPT !.state = "needs_recheck", !.reason = "new_release"]
    OBVIOUS
  <2>1. new \in ReadinessRow /\ new.state = "needs_recheck"
    BY <1>1 DEF ReadinessRow
  <2>2. Recheck(a, r) = new
    BY <1>3 DEF Recheck
  <2> QED BY <2>1, <2>2
<1> QED BY <1>2, <1>3

\* An effective refresh of the facts that the route has come to.
LEMMA RefreshStep ==
  ASSUME ApprovalsInv, NEW r \in Release, NEW now \in 0..MaxActivations,
         Effective(r, now), RefreshInTransaction(r, now),
         route' \in RouteRow, route'.release = r, route'.observed = now,
         promoted' \in [Release -> 0..MaxActivations], promoted'[r] = now,
         clock' \in 0..MaxActivations, refused' \in BOOLEAN,
         UNCHANGED <<drafts, held, approved>>
  PROVE  ApprovalsInv'
<1>1. ApprovalsTypeOK /\ FactsOK /\ HeldOK /\ ReadyOK /\ PublicationsOK /\ PublicationFollowsRoute
  BY DEF ApprovalsInv
<1> PICK a : a = Len(approved)
  OBVIOUS
<1> PICK row : row = approved[a]
  OBVIOUS
<1> PICK h : h = facts[a]
  OBVIOUS
<1> PICK f : f = NextFact(r, now)
  OBVIOUS
<1> PICK history : history = Append(h, f)
  OBVIOUS
<1> PICK ready : ready = Recheck(a, r)
  OBVIOUS
<1> PICK p : p = Document(a, history, ready)
  OBVIOUS
<1>2. approved # <<>> /\ h # <<>>
  BY DEF Effective, LatestApproved
<1>3. a \in 1..Len(approved) /\ a \in DOMAIN approved /\ h \in Seq(FactRow)
  BY <1>1, <1>2, Types
<1>4. /\ facts' = [facts EXCEPT ![a] = history]
      /\ readiness' = [readiness EXCEPT ![a] = ready]
      /\ publications' = Enqueue(a, history, ready)
  BY DEF RefreshInTransaction, LatestApproved
<1>5. ReviewOK(row.review) /\ HistoryOK(row, h) /\ Attested(readiness[a], h)
  BY <1>1, <1>3 DEF FactsOK, ReadyOK
<1>6. /\ f \in FactRow /\ f.release = r /\ StoredOK(row, f.stored)
      /\ "deployment_timestamp" \in row.scope => f.stored.deployed = now
      /\ "availability" \in row.scope => f.stored.observed = now
  BY <1>1, <1>2, <1>5, NextFactIsRow
<1>7. /\ history \in Seq(FactRow) /\ Len(history) = Len(h) + 1
      /\ DOMAIN history = 1..(Len(h) + 1)
      /\ \A k \in 1..Len(h) : history[k] = h[k]
      /\ history[Len(h) + 1] = f /\ history # <<>> /\ Last(history) = f
      /\ Len(h) \in Nat /\ DOMAIN h = 1..Len(h)
  <2>1. h \in Seq(FactRow) /\ f \in FactRow
    BY <1>3, <1>6
  <2>2. Len(h) \in Nat /\ DOMAIN h = 1..Len(h)
    BY <2>1, Histories
  <2>3. /\ Append(h, f) \in Seq(FactRow) /\ Len(Append(h, f)) = Len(h) + 1
        /\ DOMAIN Append(h, f) = 1..(Len(h) + 1)
        /\ \A k \in 1..Len(h) : Append(h, f)[k] = h[k]
        /\ Append(h, f)[Len(h) + 1] = f /\ Append(h, f) # <<>> /\ Last(Append(h, f)) = f
    BY <2>1, AppendHistory, Zenon
  <2> QED BY <2>2, <2>3, Zenon
<1>8. HistoryOK(row, history)
  <2>1. row.review.fact # NoFact
    BY <1>2, <1>5 DEF HistoryOK
  <2>2. ASSUME NEW k \in DOMAIN history PROVE StoredOK(row, history[k].stored)
    <3>1. CASE k \in 1..Len(h)
      BY <3>1, <1>5, <1>7 DEF HistoryOK
    <3>2. CASE k = Len(h) + 1
      BY <3>2, <1>6, <1>7
    <3> QED BY <3>1, <3>2, <1>7
  <2> QED BY <2>1, <2>2, <1>7 DEF HistoryOK
<1>9. ready \in ReadinessRow /\ (ready.state = "ready_to_share" => ready.attested = r)
  BY <1>1, <1>2, <1>3, <1>5, RecheckIsRow
<1>10. /\ facts' \in Seq(Seq(FactRow)) /\ Len(facts') = Len(facts)
       /\ \A c \in 1..Len(approved) : facts'[c] = IF c = a THEN history ELSE facts[c]
  BY <1>1, <1>3, <1>4, <1>7, Types, ExceptSeq
<1>11. /\ readiness' \in Seq(ReadinessRow) /\ Len(readiness') = Len(readiness)
       /\ \A c \in 1..Len(approved) : readiness'[c] = IF c = a THEN ready ELSE readiness[c]
  BY <1>1, <1>3, <1>4, <1>9, Types, ExceptSeq
<1>12. facts'[a] = history /\ readiness'[a] = ready
  BY <1>3, <1>10, <1>11
<1>13. /\ p.approved = a
       /\ \/ p.fact = 0
          \/ /\ p.fact = Len(history)
             /\ row.review.body.section /\ row.review.body.shown
       /\ row.review.body.section /\ row.review.body.shown => p.fact = Len(history)
       /\ ValuesOK(p.values, row)
       /\ "demo_readiness" \in DOMAIN p.values => p.values["demo_readiness"] = ready
  <2>1. ApprovalsTypeOK /\ a \in 1..Len(approved) /\ history \in Seq(FactRow)
    BY <1>1, <1>3, <1>7
  <2>2. ReviewOK(approved[a].review) /\ HistoryOK(approved[a], history)
    BY <1>5, <1>8
  <2>3. DocumentFits(Document(a, history, ready), a, history, ready)
    BY <2>1, <2>2, DocumentWasApproved
  <2>4. DocumentFits(p, a, history, ready)
    BY <2>3
  <2> QED BY <2>4 DEF DocumentFits
<1>14. DocumentOK(p)'
  <2>1. p.fact \in 0..Len(history)
    BY <1>7, <1>13
  <2>2. ValuesOK(p.values, row)'
    BY <1>13 DEF ValuesOK
  <2> QED BY <2>1, <2>2, <1>3, <1>12, <1>13 DEF DocumentOK
<1>15. Grows
  <2>1. SUFFICES ASSUME NEW c \in 1..Len(approved)
        PROVE  /\ c \in DOMAIN approved' /\ approved'[c] = approved[c]
               /\ Len(facts'[c]) \in Nat /\ Len(facts[c]) <= Len(facts'[c])
    BY DEF Grows
  <2>2. Len(facts[c]) \in Nat
    BY <1>1, Types, Histories
  <2>3. Len(facts'[c]) = IF c = a THEN Len(h) + 1 ELSE Len(facts[c])
    BY <1>7, <1>10
  <2>4. c \in DOMAIN approved'
    BY <1>1, Types
  <2> QED BY <2>2, <2>3, <2>4, <1>7
<1>16. publications' = publications \/ publications' = Append(publications, p)
  BY <1>4 DEF Enqueue
<1>17. PublicationsOK' /\ (publications \in Seq(Range(publications)))'
  BY <1>1, <1>14, <1>15, <1>16, PublicationsStay
<1>18. ApprovalsTypeOK'
  BY <1>1, <1>10, <1>11, <1>17 DEF ApprovalsTypeOK, ApprovedOK
<1>19. FactsOK'
  <2>1. ASSUME NEW c \in DOMAIN approved
        PROVE  ReviewOK(approved[c].review) /\ HistoryOK(approved[c], facts'[c])
    <3>1. c \in 1..Len(approved)
      BY <1>1, Types
    <3>2. CASE c = a
      BY <3>2, <1>5, <1>8, <1>12
    <3>3. CASE c # a
      BY <3>1, <3>3, <1>1, <1>10 DEF FactsOK
    <3> QED BY <3>2, <3>3
  <2> QED BY <2>1 DEF FactsOK, ReviewOK, HistoryOK, StoredOK
<1>20. ReadyOK'
  <2>1. ASSUME NEW c \in DOMAIN approved PROVE Attested(readiness'[c], facts'[c])
    <3>1. c \in 1..Len(approved)
      BY <1>1, Types
    <3>2. CASE c = a
      BY <3>2, <1>6, <1>7, <1>9, <1>12 DEF Attested
    <3>3. CASE c # a
      BY <3>1, <3>3, <1>1, <1>10, <1>11 DEF ReadyOK
    <3> QED BY <3>2, <3>3
  <2> QED BY <2>1 DEF ReadyOK, Attested
<1>21. HeldOK' /\ RouteOK'
  BY <1>1 DEF HeldOK, ReviewOK, RouteOK
<1>22. FactsFollowRoute'
  <2>1. Last(facts'[a]) = f
    BY <1>7, <1>12
  <2> QED BY <2>1, <1>6 DEF FactsFollowRoute, LatestApproved, FactHead
<1>23. PublicationFollowsRoute'
  <2>1. SUFFICES ASSUME publications' # <<>>, Last(publications').approved = a,
                        Last(publications').fact # 0
        PROVE  /\ Last(publications').fact = Len(history)
               /\ "demo_readiness" \in DOMAIN Last(publications').values
                    /\ Last(publications').values["demo_readiness"].state = "ready_to_share" =>
                      Last(publications').values["demo_readiness"].attested = r
    BY <1>12 DEF PublicationFollowsRoute, LatestApproved
  <2>2. CASE publications' = publications
    <3>1. Len(publications) \in DOMAIN publications
      BY <2>1, <2>2, <1>1, Types
    <3> PICK q : q = publications[Len(publications)]
      OBVIOUS
    <3>2. q.approved = a /\ q.fact # 0
      BY <2>1, <2>2 DEF Last
    <3>3. DocumentOK(q)
      BY <3>1, <1>1 DEF PublicationsOK
    <3>4. row.review.body.section /\ row.review.body.shown
      BY <3>2, <3>3 DEF DocumentOK
    <3>5. p.fact = Len(h) + 1
      BY <3>4, <1>7, <1>13
    <3>6. p \in Range(publications)
      <4>1. CASE p \notin Range(publications)
        <5>1. publications' = Append(publications, p)
          BY <4>1, <2>1, <2>2, <1>4 DEF Enqueue
        <5>2. Len(publications') = Len(publications) + 1 /\ Len(publications) \in Nat
          BY <5>1, <1>1, Types, AppendSeq
        <5> QED BY <5>2, <2>2
      <4> QED BY <4>1
    <3>7. PICK i \in DOMAIN publications : publications[i] = p
      BY <3>6, InRange
    <3>8. DocumentOK(p)
      BY <3>7, <1>1 DEF PublicationsOK
    <3>9. p.fact \in 0..Len(h)
      BY <3>8, <1>13 DEF DocumentOK
    <3> QED BY <3>5, <3>9, <1>7
  <2>3. CASE publications' = Append(publications, p)
    <3>1. publications \in Seq(Range(publications))
      BY <1>1, Types
    <3>2. Last(publications') = p
      BY <3>1, <2>3, AppendSeq DEF Last
    <3> QED BY <3>2, <2>1, <1>9, <1>13
  <2> QED BY <2>2, <2>3, <1>16
<1> QED BY <1>17, <1>18, <1>19, <1>20, <1>21, <1>22, <1>23 DEF ApprovalsInv

\* An activation that finds no facts to refresh.
LEMMA NoFactsStep ==
  ASSUME ApprovalsInv, NEW r \in Release, NEW now \in 0..MaxActivations,
         approved = <<>> \/ facts[Len(approved)] = <<>>,
         route' \in RouteRow, route'.release = r, route'.observed = now,
         promoted' \in [Release -> 0..MaxActivations], promoted'[r] = now,
         clock' \in 0..MaxActivations,
         UNCHANGED <<drafts, held, approved, facts, readiness, publications, refused>>
  PROVE  ApprovalsInv'
<1>1. ApprovalsTypeOK /\ FactsOK /\ HeldOK /\ ReadyOK /\ PublicationsOK
  BY DEF ApprovalsInv
<1>2. ApprovalsTypeOK'
  BY <1>1 DEF ApprovalsTypeOK, ApprovedOK
<1>3. FactsOK'
  BY <1>1 DEF FactsOK, ReviewOK, HistoryOK, StoredOK
<1>4. HeldOK' /\ RouteOK'
  BY <1>1 DEF HeldOK, ReviewOK, RouteOK
<1>5. ReadyOK'
  BY <1>1 DEF ReadyOK, Attested
<1>6. PublicationsOK'
  BY <1>1 DEF PublicationsOK, DocumentOK, ValuesOK
<1>7. FactsFollowRoute'
  BY DEF FactsFollowRoute, LatestApproved
<1>8. PublicationFollowsRoute'
  <2>1. SUFFICES ASSUME publications # <<>>, Last(publications).approved = Len(approved),
                        Last(publications).fact # 0
        PROVE  FALSE
    BY DEF PublicationFollowsRoute, LatestApproved
  <2>2. Len(publications) \in DOMAIN publications
    BY <2>1, <1>1, Types
  <2> PICK q : q = publications[Len(publications)]
    OBVIOUS
  <2>3. DocumentOK(q) /\ q.approved = Len(approved) /\ q.fact # 0
    BY <2>1, <2>2, <1>1 DEF PublicationsOK, Last
  <2>4. Len(approved) \in DOMAIN approved /\ q.fact \in 0..Len(facts[Len(approved)])
    BY <2>3 DEF DocumentOK
  <2>5. facts[Len(approved)] = <<>>
    BY <2>4, <1>1, Types
  <2>6. Len(facts[Len(approved)]) = 0
    BY <2>5, EmptySeq
  <2> QED BY <2>3, <2>4, <2>6
<1> QED BY <1>2, <1>3, <1>4, <1>5, <1>6, <1>7, <1>8 DEF ApprovalsInv

\* activate_reconciliation.
LEMMA ActivationStep ==
  ASSUME ApprovalsInv, NEW r \in Release, ActivateReconciliation(r)
  PROVE  ApprovalsInv'
<1>1. ApprovalsTypeOK /\ FactsFollowRoute
  BY DEF ApprovalsInv
<1>2. r # route.release /\ clock < MaxActivations /\ UNCHANGED <<drafts, held, approved>>
  BY DEF ActivateReconciliation
<1>3. clock + 1 \in 0..MaxActivations
  BY <1>1, <1>2, Types, ApprovalsAssumption
<1>4. CASE Duplicate(r, clock + 1)
  <2>1. /\ refused' = TRUE
        /\ UNCHANGED <<facts, readiness, publications, route, promoted, clock>>
    BY <1>4 DEF ActivateReconciliation
  <2>2. ApprovalsTypeOK'
    BY <2>1, <1>1, <1>2 DEF ApprovalsTypeOK, ApprovedOK
  <2>3. HeldOK' /\ ReadyOK'
    BY <2>1, <1>2 DEF ApprovalsInv, HeldOK, ReviewOK, ReadyOK, Attested
  <2> QED BY <2>1, <2>2, <2>3, <1>2, FactsStay DEF ApprovalsInv
<1>5. CASE ~Duplicate(r, clock + 1)
  <2> PICK now : now = clock + 1
    OBVIOUS
  <2>1. /\ clock' = now /\ route' = [release |-> r, observed |-> now]
        /\ promoted' = [promoted EXCEPT ![r] = now]
        /\ RefreshInTransaction(r, now)
        /\ UNCHANGED refused
    BY <1>5 DEF ActivateReconciliation
  <2>2. route' \in RouteRow /\ route'.release = r /\ route'.observed = now
    BY <2>1, <1>3 DEF RouteRow
  <2>3. promoted' \in [Release -> 0..MaxActivations] /\ promoted'[r] = now
    BY <2>1, <1>1, <1>3, Types
  <2>4. clock' \in 0..MaxActivations /\ refused' \in BOOLEAN /\ now \in 0..MaxActivations
    BY <2>1, <1>1, <1>3, Types
  <2>5. CASE Effective(r, now)
    BY <2>1, <2>2, <2>3, <2>4, <2>5, <1>2, RefreshStep
  <2>6. CASE ~Effective(r, now)
    <3>1. UNCHANGED <<facts, readiness, publications>>
      BY <2>1, <2>6 DEF RefreshInTransaction
    <3>2. approved = <<>> \/ facts[Len(approved)] = <<>>
      <4>1. SUFFICES ASSUME approved # <<>>, facts[Len(approved)] # <<>> PROVE FALSE
        OBVIOUS
      <4>2. NextFact(r, now) = FactHead(Len(approved))
        BY <4>1, <2>6 DEF Effective, LatestApproved
      <4>3. NextFact(r, now).release = r
        BY DEF NextFact
      <4>4. FactHead(Len(approved)).release = route.release
        BY <4>1, <1>1 DEF FactsFollowRoute, LatestApproved
      <4> QED BY <4>2, <4>3, <4>4, <1>2
    <3> QED BY <3>1, <3>2, <2>1, <2>2, <2>3, <2>4, <1>2, NoFactsStep
  <2> QED BY <2>5, <2>6
<1> QED BY <1>4, <1>5

\* refresh_deployment_facts.
LEMMA WorkerRefreshStep ==
  ASSUME ApprovalsInv, RefreshDeploymentFacts
  PROVE  ApprovalsInv'
<1>1. ApprovalsTypeOK /\ RouteOK
  BY DEF ApprovalsInv
<1> PICK r : r = route.release
  OBVIOUS
<1> PICK now : now = route.observed
  OBVIOUS
<1>2. /\ r # NoRelease /\ Effective(r, now) /\ RefreshInTransaction(r, now)
      /\ UNCHANGED <<drafts, held, approved, route, promoted, clock, refused>>
  BY DEF RefreshDeploymentFacts
<1>3. r \in Release /\ now \in 0..MaxActivations
  BY <1>1, <1>2, Types DEF RouteRow
<1>4. route' \in RouteRow /\ route'.release = r /\ route'.observed = now
  BY <1>1, <1>2, Types
<1>5. promoted' \in [Release -> 0..MaxActivations] /\ promoted'[r] = now
  BY <1>1, <1>2, Types DEF RouteOK
<1>6. clock' \in 0..MaxActivations /\ refused' \in BOOLEAN
  BY <1>1, <1>2, Types
<1> QED BY <1>2, <1>3, <1>4, <1>5, <1>6, RefreshStep

-----------------------------------------------------------------------------
(* The theorems. *)

\* Every step of owner, browser and worker preserves the invariant.
LEMMA Inductive == ApprovalsInv /\ [ApprovalsNext]_approvalsVars => ApprovalsInv'
<1> SUFFICES ASSUME ApprovalsInv, [ApprovalsNext]_approvalsVars PROVE ApprovalsInv'
  OBVIOUS
<1>1. ASSUME NEW b \in Body, CreateDraftRevision(b) PROVE ApprovalsInv'
  BY <1>1, DraftStep
<1>2. ASSUME NEW b \in Body, NEW look \in Look, CreatePreviewRevision(b, look)
      PROVE  ApprovalsInv'
  BY <1>2, SaveStep DEF CreatePreviewRevision
<1>3. CASE GetPublicationReview
  BY <1>3, ReviewStep
<1>4. ASSUME NEW scope \in SUBSET RefreshField, CreateApprovedRevision(scope)
      PROVE  ApprovalsInv'
  BY <1>4, ApprovalStep
<1>5. CASE PublishApproved
  BY <1>5, PublicationStep
<1>6. ASSUME NEW r \in Release, ActivateReconciliation(r) PROVE ApprovalsInv'
  BY <1>6, ActivationStep
<1>7. CASE RefreshDeploymentFacts
  BY <1>7, WorkerRefreshStep
<1>8. ASSUME NEW a \in DOMAIN approved, CreateReadinessAttestation(a) PROVE ApprovalsInv'
  BY <1>8, AttestationStep
<1>9. CASE UNCHANGED approvalsVars
  <2>1. UNCHANGED <<drafts, held, approved, facts, readiness, route, promoted, clock,
                    publications, refused>>
    BY <1>9 DEF approvalsVars
  <2>2. ApprovalsTypeOK /\ HeldOK
    BY DEF ApprovalsInv
  <2>3. drafts' \in Seq(DraftRow) /\ Len(drafts') <= MaxDrafts
        /\ held' \in ReviewRow \cup {NoReview}
    BY <2>1, <2>2, Types
  <2>4. HeldOK'
    BY <2>1, <2>2 DEF HeldOK, ReviewOK
  <2> QED BY <2>1, <2>3, <2>4, OwnerStep
<1> QED BY <1>1, <1>2, <1>3, <1>4, <1>5, <1>6, <1>7, <1>8, <1>9 DEF ApprovalsNext

\* The rows of approvals, histories, readiness and documents agree, for any
\* number of drafts, approvals and activations in any order.
THEOREM ApprovalsInvariantHolds == ApprovalsSpec => []ApprovalsInv
<1>1. ApprovalsInit => ApprovalsInv
  BY Initially
<1>2. ApprovalsInv /\ [ApprovalsNext]_approvalsVars => ApprovalsInv'
  BY Inductive
<1> QED BY <1>1, <1>2, PTL DEF ApprovalsSpec

\* The tables keep their types.
THEOREM ApprovalsTypeCorrect == ApprovalsSpec => []ApprovalsTypeOK
<1>1. ApprovalsInv => ApprovalsTypeOK
  BY DEF ApprovalsInv
<1> QED BY <1>1, ApprovalsInvariantHolds, PTL

\* Nothing is queued for the public that the owner neither approved nor let
\* activations keep fresh: create_publication and every refresh of facts.
THEOREM AlwaysApproved == ApprovalsSpec => []PublishedWasApproved
<1>1. ApprovalsInv => PublishedWasApproved
  BY DEF ApprovalsInv, PublicationsOK, DocumentOK, ValuesOK, PublishedWasApproved
<1> QED BY <1>1, ApprovalsInvariantHolds, PTL

\* The facts of the latest approval are those of the routed release, however
\* reviews, approvals, activations and the worker's refreshes are ordered.
THEOREM AlwaysFactsFollow == ApprovalsSpec => []FactsFollowRoute
<1>1. ApprovalsInv => FactsFollowRoute
  BY DEF ApprovalsInv
<1> QED BY <1>1, ApprovalsInvariantHolds, PTL

\* The newest document names the current facts and calls a demo ready only of
\* the release visitors are routed to.
THEOREM AlwaysPublicationFollows == ApprovalsSpec => []PublicationFollowsRoute
<1>1. ApprovalsInv => PublicationFollowsRoute
  BY DEF ApprovalsInv
<1> QED BY <1>1, ApprovalsInvariantHolds, PTL

-----------------------------------------------------------------------------
(* The histories are only added to, and their facts do not go back. *)

\* A fact revision that follows another: newer or as old in both times.
Follows(f, head) ==
  /\ f.stored.deployed >= head.stored.deployed
  /\ f.stored.observed >= head.stored.observed

\* What a step adds to the facts of an approval, if anything: one revision, of
\* the release routed after the step, not in the history yet, and no older than
\* the head.  Only the latest approval's facts move.
HistoryAdvances(a) ==
  \/ facts'[a] = facts[a]
  \/ /\ a = LatestApproved /\ facts[a] # <<>>
     /\ \E f \in FactRow :
          /\ facts'[a] = Append(facts[a], f)
          /\ f \notin Range(facts[a])
          /\ f.release = route'.release
          /\ Follows(f, FactHead(a))

\* No approval is taken back or changed, and its facts only advance.
FactsAdvance ==
  \A a \in DOMAIN approved :
    a \in DOMAIN approved' /\ approved'[a] = approved[a] /\ HistoryAdvances(a)

\* A document that was queued stays, and none is queued twice.
DocumentsKept ==
  \/ publications' = publications
  \/ \E p : publications' = Append(publications, p) /\ p \notin Range(publications)

RecordsStep == FactsAdvance /\ DocumentsKept

\* Nothing was routed or promoted after the clock.
TimesInv == route.observed <= clock /\ \A r \in Release : promoted[r] <= clock

LEMMA RestingRecords ==
  ASSUME UNCHANGED <<approved, facts, publications>>
  PROVE  RecordsStep
BY DEF RecordsStep, FactsAdvance, HistoryAdvances, DocumentsKept

\* The clock is ahead of every activation it has seen.
LEMMA TimesStep ==
  ASSUME ApprovalsTypeOK, TimesInv, ApprovalsNext
  PROVE  TimesInv'
<1>1. clock \in Nat /\ promoted \in [Release -> 0..MaxActivations] /\ route \in RouteRow
  BY Types, ApprovalsAssumption
<1>2. ASSUME NEW r \in Release, ActivateReconciliation(r)
      PROVE  TimesInv'
  <2>1. CASE Duplicate(r, clock + 1)
    BY <1>2, <2>1 DEF ActivateReconciliation, TimesInv
  <2>2. CASE ~Duplicate(r, clock + 1)
    <3>1. /\ clock' = clock + 1 /\ route' = [release |-> r, observed |-> clock + 1]
          /\ promoted' = [promoted EXCEPT ![r] = clock + 1]
      BY <1>2, <2>2 DEF ActivateReconciliation
    <3>2. \A q \in Release : promoted'[q] <= clock + 1
      BY <3>1, <1>1, ApprovalsAssumption DEF TimesInv
    <3> QED BY <3>1, <3>2, <1>1 DEF TimesInv
  <2> QED BY <2>1, <2>2
<1>3. CASE UNCHANGED <<route, promoted, clock>>
  BY <1>3 DEF TimesInv
<1> QED
  BY <1>2, <1>3 DEF ApprovalsNext, CreateDraftRevision, CreatePreviewRevision, SaveRevision,
     GetPublicationReview, CreateApprovedRevision, PublishApproved, RefreshDeploymentFacts,
     CreateReadinessAttestation

\* refresh_deployment_facts_in_transaction, with the release routed by then and a
\* time that is not before what the facts follow.
LEMMA RefreshRecords ==
  ASSUME ApprovalsInv, NEW r \in Release, NEW now \in 0..MaxActivations,
         Effective(r, now), ~Duplicate(r, now), RefreshInTransaction(r, now),
         route'.release = r, route.observed <= now, UNCHANGED approved
  PROVE  RecordsStep
<1>1. ApprovalsTypeOK /\ FactsOK /\ FactsFollowRoute /\ RouteOK
  BY DEF ApprovalsInv
<1> PICK a : a = Len(approved)
  OBVIOUS
<1> PICK h : h = facts[a]
  OBVIOUS
<1> PICK f : f = NextFact(r, now)
  OBVIOUS
<1> PICK history : history = Append(h, f)
  OBVIOUS
<1>2. approved # <<>> /\ h # <<>> /\ f \notin Range(h)
  BY DEF Effective, Duplicate, LatestApproved
<1>3. a \in 1..Len(approved) /\ a \in DOMAIN approved /\ h \in Seq(FactRow) /\ DOMAIN facts = 1..Len(approved)
  BY <1>1, <1>2, Types
<1>4. /\ facts' = [facts EXCEPT ![a] = history]
      /\ publications' = Enqueue(a, history, Recheck(a, r))
  BY DEF RefreshInTransaction, LatestApproved
<1>5. ReviewOK(approved[a].review) /\ HistoryOK(approved[a], h)
  BY <1>1, <1>3 DEF FactsOK
<1>6. /\ f \in FactRow /\ f.release = r
      /\ "deployment_timestamp" \in approved[a].scope => f.stored.deployed = now
      /\ "availability" \in approved[a].scope => f.stored.observed = now
  BY <1>1, <1>2, <1>5, NextFactIsRow
<1> PICK s : s = Last(h).stored
  OBVIOUS
<1>7. s \in StoredRow /\ Last(h) \in FactRow
  BY <1>2, <1>3, Histories DEF FactRow
<1>8. /\ "deployment_timestamp" \notin approved[a].scope => f.stored.deployed = s.deployed
      /\ "availability" \notin approved[a].scope => f.stored.observed = s.observed
  <2>1. f.stored = Refreshed(s, approved[a].scope, r, now)
    BY DEF NextFact, FactHead, LatestApproved
  <2> QED BY <2>1, <1>7 DEF Refreshed, StoredRow
<1>9. s.deployed \in Nat /\ s.observed \in Nat /\ now \in Nat
  BY <1>7, ApprovalsAssumption DEF StoredRow
<1>10. /\ "deployment_timestamp" \in approved[a].scope => s.deployed <= now
       /\ "availability" \in approved[a].scope => s.observed <= now
  <2>1. /\ Last(h).release = route.release
        /\ "deployment_timestamp" \in approved[a].scope => s.deployed = promoted[route.release]
        /\ "availability" \in approved[a].scope => s.observed = route.observed
    BY <1>1, <1>2 DEF FactsFollowRoute, FactHead, LatestApproved
  <2>2. Last(h).release \in Release
    BY <1>7 DEF FactRow
  <2>3. promoted[route.release] = route.observed
    BY <1>1, <2>1, <2>2, ApprovalsAssumption DEF RouteOK
  <2> QED BY <2>1, <2>3
<1>11. Follows(f, Last(h))
  BY <1>6, <1>8, <1>9, <1>10 DEF Follows
<1>12. facts'[a] = Append(facts[a], f)
  BY <1>3, <1>4
<1>13. ASSUME NEW b \in DOMAIN approved
       PROVE  HistoryAdvances(b)
  <2>1. CASE b = a
    BY <2>1, <1>2, <1>6, <1>11, <1>12 DEF HistoryAdvances, LatestApproved, FactHead
  <2>2. CASE b # a
    <3>1. b \in 1..Len(approved)
      BY <1>1, Types
    <3> QED BY <2>2, <3>1, <1>3, <1>4 DEF HistoryAdvances
  <2> QED BY <2>1, <2>2
<1>14. FactsAdvance
  BY <1>13 DEF FactsAdvance
<1>15. DocumentsKept
  BY <1>4 DEF Enqueue, DocumentsKept
<1> QED BY <1>14, <1>15 DEF RecordsStep

LEMMA ActivationRecords ==
  ASSUME ApprovalsInv, TimesInv, NEW r \in Release, ActivateReconciliation(r)
  PROVE  RecordsStep
<1>1. ApprovalsTypeOK /\ clock < MaxActivations /\ UNCHANGED approved
  BY DEF ApprovalsInv, ActivateReconciliation
<1>2. CASE Duplicate(r, clock + 1)
  BY <1>1, <1>2, RestingRecords DEF ActivateReconciliation
<1>3. CASE ~Duplicate(r, clock + 1)
  <2> PICK now : now = clock + 1
    OBVIOUS
  <2>1. route' = [release |-> r, observed |-> now] /\ RefreshInTransaction(r, now)
    BY <1>3 DEF ActivateReconciliation
  <2>2. now \in 0..MaxActivations /\ route.observed <= now
    BY <1>1, Types, ApprovalsAssumption DEF TimesInv, RouteRow
  <2>3. route'.release = r
    BY <2>1
  <2>4. CASE Effective(r, now)
    BY <1>1, <1>3, <2>1, <2>2, <2>3, <2>4, RefreshRecords
  <2>5. CASE ~Effective(r, now)
    BY <1>1, <2>1, <2>5, RestingRecords DEF RefreshInTransaction
  <2> QED BY <2>4, <2>5
<1> QED BY <1>2, <1>3

LEMMA WorkerRefreshRecords ==
  ASSUME ApprovalsInv, RefreshDeploymentFacts
  PROVE  RecordsStep
<1>1. ApprovalsTypeOK
  BY DEF ApprovalsInv
<1> PICK r : r = route.release
  OBVIOUS
<1> PICK now : now = route.observed
  OBVIOUS
<1>2. /\ r # NoRelease /\ Effective(r, now) /\ ~Duplicate(r, now)
      /\ RefreshInTransaction(r, now) /\ UNCHANGED <<approved, route>>
  BY DEF RefreshDeploymentFacts
<1>3. r \in Release /\ now \in 0..MaxActivations
  BY <1>1, <1>2, Types DEF RouteRow
<1>4. route'.release = r /\ route.observed <= now
  BY <1>2, <1>3, ApprovalsAssumption
<1> QED BY <1>2, <1>3, <1>4, RefreshRecords

LEMMA ApprovalRecords ==
  ASSUME ApprovalsInv, NEW scope, CreateApprovedRevision(scope)
  PROVE  RecordsStep
<1>1. ApprovalsTypeOK
  BY DEF ApprovalsInv
<1> PICK row : approved' = Append(approved, row)
  BY DEF CreateApprovedRevision
<1> PICK history : facts' = Append(facts, history)
  BY DEF CreateApprovedRevision
<1>2. publications' = publications
  BY DEF CreateApprovedRevision
<1>3. /\ DOMAIN approved = 1..Len(approved) /\ DOMAIN approved' = 1..(Len(approved) + 1)
      /\ Len(approved) \in Nat /\ \A a \in 1..Len(approved) : approved'[a] = approved[a]
  BY <1>1, Types, AppendSeq
<1>4. \A a \in 1..Len(approved) : facts'[a] = facts[a]
  <2>1. facts \in Seq(Seq(FactRow)) /\ Len(facts) = Len(approved) /\ DOMAIN facts = 1..Len(approved)
    BY <1>1, Types
  <2>2. facts \in Seq(Range(facts))
    <3>1. facts \in [1..Len(facts) -> Range(facts)]
      BY <2>1, LenProperties DEF Range
    <3>2. Len(facts) \in Nat
      BY <2>1, <1>3
    <3> QED BY <3>1, <3>2, SeqDef
  <2>3. \A a \in 1..Len(facts) : Append(facts, history)[a] = facts[a]
    BY <2>2, AppendSeq
  <2> QED BY <2>1, <2>3
<1>5. FactsAdvance
  <2>1. SUFFICES ASSUME NEW a \in 1..Len(approved)
                 PROVE  /\ a \in 1..(Len(approved) + 1) /\ approved'[a] = approved[a]
                        /\ facts'[a] = facts[a]
    BY <1>3 DEF FactsAdvance, HistoryAdvances
  <2>2. a \in 1..(Len(approved) + 1)
    BY <1>3
  <2> QED BY <2>2, <1>3, <1>4
<1> QED BY <1>2, <1>5 DEF RecordsStep, DocumentsKept

LEMMA PublicationRecords ==
  ASSUME PublishApproved
  PROVE  RecordsStep
<1> PICK p : p = Document(LatestApproved, facts[LatestApproved], readiness[LatestApproved])
  OBVIOUS
<1>1. /\ publications' = Append(publications, p)
      /\ \A i \in DOMAIN publications : publications[i] # p
      /\ UNCHANGED <<approved, facts>>
  BY DEF PublishApproved
<1>2. p \notin Range(publications)
  BY <1>1, InRange
<1>3. DocumentsKept
  BY <1>1, <1>2 DEF DocumentsKept
<1> QED BY <1>1, <1>3 DEF RecordsStep, FactsAdvance, HistoryAdvances

LEMMA StepRecords ==
  ASSUME ApprovalsInv, TimesInv, [ApprovalsNext]_approvalsVars
  PROVE  [RecordsStep]_approvalsVars
<1>1. CASE \E b \in Body, look \in Look : CreatePreviewRevision(b, look)
  BY <1>1, RestingRecords DEF CreatePreviewRevision, SaveRevision
<1>2. CASE GetPublicationReview \/ \E a \in DOMAIN approved : CreateReadinessAttestation(a)
  BY <1>2, RestingRecords DEF GetPublicationReview, CreateReadinessAttestation
<1>3. CASE \E b \in Body : CreateDraftRevision(b)
  BY <1>3, RestingRecords DEF CreateDraftRevision, SaveRevision
<1> QED
  BY <1>1, <1>2, <1>3, ApprovalRecords, PublicationRecords, ActivationRecords,
     WorkerRefreshRecords DEF ApprovalsNext

LEMMA TimesHold == ApprovalsSpec => []TimesInv
<1>1. ApprovalsInit => TimesInv
  BY ApprovalsAssumption DEF ApprovalsInit, TimesInv
<1>2. ApprovalsInv /\ TimesInv /\ [ApprovalsNext]_approvalsVars => TimesInv'
  <2>1. ApprovalsInv /\ TimesInv /\ ApprovalsNext => TimesInv'
    BY TimesStep DEF ApprovalsInv
  <2>2. TimesInv /\ UNCHANGED approvalsVars => TimesInv'
    BY DEF approvalsVars, TimesInv
  <2> QED BY <2>1, <2>2
<1> QED BY <1>1, <1>2, ApprovalsInvariantHolds, PTL DEF ApprovalsSpec

\* An approval is never changed or taken back, and the facts shown for it are
\* only added to: one revision at a time, of the release routed with it, never one
\* it had before, and with times that do not go back, although activations, the
\* worker's own refreshes and new approvals come in any order
\* (refresh_deployment_facts_in_transaction, create_approved_revision).
THEOREM FactsOnlyAdvance == ApprovalsSpec => [][FactsAdvance]_approvalsVars
<1>1. ApprovalsInv /\ TimesInv /\ [ApprovalsNext]_approvalsVars => [FactsAdvance]_approvalsVars
  BY StepRecords DEF RecordsStep
<1> QED BY <1>1, TimesHold, ApprovalsInvariantHolds, PTL DEF ApprovalsSpec

\* A document queued for the public stays queued and is queued once, whether the
\* owner asks for it or a refresh does (create_publication,
\* enqueue_fact_refresh_publication).
THEOREM DocumentsOnce == ApprovalsSpec => [][DocumentsKept]_approvalsVars
<1>1. ApprovalsInv /\ TimesInv /\ [ApprovalsNext]_approvalsVars => [DocumentsKept]_approvalsVars
  BY StepRecords DEF RecordsStep
<1> QED BY <1>1, TimesHold, ApprovalsInvariantHolds, PTL DEF ApprovalsSpec
==============================================================================
