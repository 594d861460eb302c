---------------------------- MODULE Publications ----------------------------
(***************************************************************************)
(* Publication of one account's portfolio site: the control plane's queue  *)
(* and promotion protocol (crates/control/src/portfolio_publish.rs), the   *)
(* publisher worker (crates/publisher/src/worker.rs) and the directory     *)
(* they share, <state>/publisher, which the static server reads.           *)
(*                                                                         *)
(* PostgreSQL and the file system cannot commit together.  A completion is *)
(* a sequence of steps with awaits between them (check, validate, install, *)
(* prepare, switch, finalize) that may stop anywhere, while the reaper     *)
(* (reconcile_pending) performs the last two on its own.                   *)
(*                                                                         *)
(* Accounts share no row and no path of this protocol, so the module has   *)
(* one.  Every change to the approved document gives it another digest     *)
(* (it names its approved revision and fact revisions), and only the       *)
(* latest document is ever queued: a publication is identified by the      *)
(* number of its document, which orders publications as                    *)
(* publication_sequence does, and its artifact by the publication whose id *)
(* the manifest holds.  attempt_count and current_fence advance together   *)
(* and are the attempt's number.                                           *)
(***************************************************************************)
EXTENDS Integers, FiniteSets

CONSTANTS
  MaxDocs,  \* bound: documents approved or refreshed
  Leases    \* bound: attempts of each publication (the code has no limit)

ASSUME BoundsAssumption == MaxDocs \in Nat /\ Leases \in [1..MaxDocs -> Nat]

VARIABLES
  docs,       \* number of the current approved public document
  site,       \* the account's row of portfolio_public_sites
  pubs,       \* the portfolio_publications table
  attempts,   \* the portfolio_publication_attempts table
  leasing,    \* the publication an open lease transaction cleans up for
  staging,    \* staging/<publication>/<attempt>
  artifacts,  \* artifacts/sha256-<digest>
  origin,     \* the attempt whose staging tree an artifact was
  pointer,    \* target of sites/<slug>/current
  worker,     \* what the process that got an attempt is doing
  handler,    \* the completion request of an attempt inside control
  reconciler  \* the reaper's reconcile_pending

vars == <<docs, site, pubs, attempts, leasing, staging, artifacts, origin,
          pointer, worker, handler, reconciler>>

database == <<docs, site, pubs, attempts, leasing>>
files == <<staging, artifacts, origin, pointer>>
actors == <<worker, handler, reconciler>>

-----------------------------------------------------------------------------
(* Rows and trees. *)

Nothing == 0
Pub == 1..MaxDocs
Attempt == UNION {1..Leases[p] : p \in Pub}

PubState == {"absent", "queued", "publishing", "promotion_pending", "published", "failed"}
AttemptState == {"absent", "leased", "succeeded", "failed", "expired", "fenced"}
Tree == {"absent", "whole", "torn"}  \* torn: files missing, no longer its digest
WorkerState == {"none", "rendering", "failing", "reported", "removing", "cleaned", "gone"}
HandlerState == {"none", "checked", "validated", "installed", "tested", "prepared",
                 "switched", "ended"}
PubRow == [state : PubState, attempt : Attempt \union {Nothing},
           lease : {"none", "live", "lapsed"}, generation : Nat]
SiteRow == [exists : BOOLEAN, current : 0..MaxDocs, generation : Nat,
            promotion : 0..MaxDocs, promotionGeneration : Nat]

NoPub == [state |-> "absent", attempt |-> Nothing, lease |-> "none", generation |-> 0]
Queued == [NoPub EXCEPT !.state = "queued"]
Idle == [at |-> "idle", pub |-> Nothing]

Init ==
  /\ docs = 0
  /\ site = [exists |-> FALSE, current |-> Nothing, generation |-> 0,
             promotion |-> Nothing, promotionGeneration |-> 0]
  /\ pubs = [p \in Pub |-> NoPub]
  /\ attempts = [p \in Pub |-> [a \in Attempt |-> "absent"]]
  /\ leasing = Nothing
  /\ staging = [p \in Pub |-> [a \in Attempt |-> "absent"]]
  /\ artifacts = [p \in Pub |-> "absent"]
  /\ origin = [p \in Pub |-> Nothing]
  /\ pointer = Nothing
  /\ worker = [p \in Pub |-> [a \in Attempt |-> "none"]]
  /\ handler = [p \in Pub |-> [a \in Attempt |-> "none"]]
  /\ reconciler = Idle

-----------------------------------------------------------------------------
(* The owner and the approval flow. *)

\* The row test that finish_failed, ensure_active_attempt and
\* prepare_promotion repeat.
ActiveAttempt(p, a) ==
  /\ pubs[p].state = "publishing"
  /\ pubs[p].attempt = a
  /\ pubs[p].lease = "live"
  /\ attempts[p][a] = "leased"

\* Mutant: a pending promotion counts as unstarted.
UnstartedPending ==
  {p \in Pub : pubs[p].state \in {"queued", "publishing", "promotion_pending"}}

Unstarted == {p \in Pub : pubs[p].state \in {"queued", "publishing"}}

FencedAttempts ==
  [p \in Pub |-> [a \in Attempt |->
    IF p \in Unstarted /\ attempts[p][a] = "leased" THEN "fenced" ELSE attempts[p][a]]]

\* supersede_unstarted, then the INSERT of a queued row.  A pending promotion
\* is left alone.
SupersedeUnstarted(new) ==
  /\ attempts' = FencedAttempts
  /\ pubs' = [p \in Pub |->
       CASE p = new -> Queued
         [] p # new /\ p \in Unstarted -> [pubs[p] EXCEPT !.state = "failed"]
         [] OTHER -> pubs[p]]

\* Another approved revision: what create_publication takes its document from.
Approve ==
  /\ docs < MaxDocs
  /\ docs' = docs + 1
  /\ UNCHANGED <<site, pubs, attempts, leasing, files, actors>>

\* create_publication: the site is claimed; a document that already has a
\* publication, whatever became of it, gets no other one.
CreatePublication ==
  /\ docs # Nothing
  /\ leasing = Nothing  \* claim_site locks the site row
  /\ site' = [site EXCEPT !.exists = TRUE]
  /\ IF pubs[docs].state = "absent"
     THEN SupersedeUnstarted(docs)
     ELSE UNCHANGED <<pubs, attempts>>
  /\ UNCHANGED <<docs, leasing, files, actors>>

\* A deployment-fact refresh of the latest approved revision, with
\* enqueue_fact_refresh_publication in its transaction.
RefreshFacts ==
  /\ docs \in 1..(MaxDocs - 1)
  /\ leasing = Nothing
  /\ docs' = docs + 1
  /\ IF site.exists
     THEN SupersedeUnstarted(docs + 1)
     ELSE UNCHANGED <<pubs, attempts>>
  /\ UNCHANGED <<site, leasing, files, actors>>

-----------------------------------------------------------------------------
(* Leasing. *)

Newest(p) == \A q \in Pub : q > p => pubs[q].state = "absent"

Candidate(p) ==
  /\ \/ pubs[p].state = "queued"
     \/ pubs[p].state = "publishing" /\ pubs[p].lease = "lapsed"
  /\ site.promotion = Nothing
  /\ Newest(p)
  /\ pubs[p].attempt < Leases[p]

\* The rows of a granted lease; the answer reaches a worker that renders.
Grant(p) ==
  LET a == pubs[p].attempt + 1
  IN  /\ attempts' = [attempts EXCEPT ![p] = [b \in Attempt |->
           CASE b = a -> "leased"
             [] b # a /\ attempts[p][b] = "leased" -> "expired"
             [] OTHER -> attempts[p][b]]]
      /\ pubs' = [pubs EXCEPT ![p].state = "publishing", ![p].attempt = a,
                              ![p].lease = "live"]
      /\ worker' = [worker EXCEPT ![p][a] = "rendering"]

\* The previous attempt, whose staging tree a lease removes before it commits.
Leftover(p) == pubs[p].attempt # Nothing /\ staging[p][pubs[p].attempt] # "absent"

LeasePublication(p) ==
  /\ leasing = Nothing
  /\ Candidate(p)
  /\ ~Leftover(p)
  /\ Grant(p)
  /\ UNCHANGED <<docs, site, leasing, files, handler, reconciler>>

\* remove_dir_all works on the directory it has opened: a tree that is renamed
\* to artifacts/ meanwhile loses its files there.
Moved(p, a) == artifacts[p] # "absent" /\ origin[p] = a

Tears(p, a) ==
  \/ /\ staging[p][a] = "whole"
     /\ staging' = [staging EXCEPT ![p][a] = "torn"]
     /\ UNCHANGED artifacts
  \/ /\ Moved(p, a) /\ artifacts[p] = "whole"
     /\ artifacts' = [artifacts EXCEPT ![p] = "torn"]
     /\ UNCHANGED staging

Empties(p, a) ==
  /\ staging' = [staging EXCEPT ![p][a] = "absent"]
  /\ artifacts' = IF Moved(p, a) THEN [artifacts EXCEPT ![p] = "torn"] ELSE artifacts

\* cleanup_owned_staging inside the lease transaction has opened the tree.
ReclaimStaging(p) ==
  /\ leasing = Nothing
  /\ Candidate(p)
  /\ Leftover(p)
  /\ leasing' = p
  /\ UNCHANGED <<docs, site, pubs, attempts, files, actors>>

LeaseTears(p) ==
  /\ leasing = p
  /\ Tears(p, pubs[p].attempt)
  /\ UNCHANGED <<database, origin, pointer, actors>>

LeaseCleaned(p) ==
  /\ leasing = p
  /\ Empties(p, pubs[p].attempt)
  /\ leasing' = Nothing
  /\ Grant(p)
  /\ UNCHANGED <<docs, site, origin, pointer, handler, reconciler>>

\* The removal fails, or control stops: the transaction rolls back.
LeaseRolledBack(p) ==
  /\ leasing = p
  /\ leasing' = Nothing
  /\ UNCHANGED <<docs, site, pubs, attempts, files, actors>>

\* The lease runs out.
Lapse(p) ==
  /\ pubs[p].state = "publishing"
  /\ pubs[p].lease = "live"
  /\ pubs' = [pubs EXCEPT ![p].lease = "lapsed"]
  /\ UNCHANGED <<docs, site, attempts, leasing, files, actors>>

-----------------------------------------------------------------------------
(* The worker: one attempt, rendered and completed once. *)

Render(p, a) ==
  /\ worker[p][a] = "rendering"
  /\ staging' = [staging EXCEPT ![p][a] = "whole"]
  /\ worker' = [worker EXCEPT ![p][a] = "reported"]
  /\ UNCHANGED <<database, artifacts, origin, pointer, handler, reconciler>>

\* The render failed and its tree was removed, unless that failed too.
RenderFails(p, a) ==
  /\ worker[p][a] = "rendering"
  /\ worker' = [worker EXCEPT ![p][a] = "failing"]
  /\ UNCHANGED staging \/ staging' = [staging EXCEPT ![p][a] = "torn"]
  /\ UNCHANGED <<database, artifacts, origin, pointer, handler, reconciler>>

\* complete with outcome failed: finish_failed, then the staging cleanup,
\* which control may not live to do.
CompleteFailed(p, a) ==
  /\ worker[p][a] = "failing"
  /\ ActiveAttempt(p, a)
  /\ leasing = Nothing
  /\ pubs' = [pubs EXCEPT ![p].state = "failed", ![p].lease = "none"]
  /\ attempts' = [attempts EXCEPT ![p][a] = "failed"]
  /\ worker' = [worker EXCEPT ![p][a] = "gone"]
  /\ UNCHANGED staging \/ staging' = [staging EXCEPT ![p][a] = "absent"]
  /\ UNCHANGED <<docs, site, leasing, artifacts, origin, pointer, handler, reconciler>>

\* The process is killed and leaves a half-written tree.  One that leaves
\* nothing, or is refused the failure it reports, takes no further step.
WorkerDies(p, a) ==
  /\ worker[p][a] = "rendering"
  /\ worker' = [worker EXCEPT ![p][a] = "gone"]
  /\ staging' = [staging EXCEPT ![p][a] = "torn"]
  /\ UNCHANGED <<database, artifacts, origin, pointer, handler, reconciler>>

\* An error answer, no answer within REQUEST_TIMEOUT or a broken connection:
\* cleanup_owned_staging opens the tree it finds.  It may be slow, or killed,
\* between there and the end.  After a completion that succeeded there is no
\* staging tree any more and the worker is done.
WorkerCleans(p, a) ==
  /\ worker[p][a] = "reported"
  /\ staging[p][a] # "absent"
  /\ worker' = [worker EXCEPT ![p][a] = "removing"]
  /\ UNCHANGED <<database, files, handler, reconciler>>

WorkerTears(p, a) ==
  /\ worker[p][a] = "removing"
  /\ Tears(p, a)
  /\ UNCHANGED <<database, origin, pointer, actors>>

WorkerCleaned(p, a) ==
  /\ worker[p][a] = "removing"
  /\ worker' = [worker EXCEPT ![p][a] = "cleaned"]
  /\ Empties(p, a)
  /\ UNCHANGED <<database, origin, pointer, handler, reconciler>>

-----------------------------------------------------------------------------
(* complete with outcome succeeded, step by step.  It goes on after its    *)
(* worker has given up, unless the server notices the closed connection    *)
(* and drops it at an await (HandlerStops).                                *)

At(p, a, step) == handler[p][a] = step
Goto(p, a, step) == handler' = [handler EXCEPT ![p][a] = step]

\* An error answer.
Refuse(p, a) ==
  /\ Goto(p, a, "ended")
  /\ UNCHANGED <<database, files, worker, reconciler>>

EnsureActive(p, a) ==
  /\ At(p, a, "none") /\ worker[p][a] = "reported"
  /\ IF ActiveAttempt(p, a)
     THEN Goto(p, a, "checked") /\ UNCHANGED <<database, files, worker, reconciler>>
     ELSE Refuse(p, a)

ValidateStaged(p, a) ==
  /\ At(p, a, "checked")
  /\ IF staging[p][a] = "whole"
     THEN Goto(p, a, "validated") /\ UNCHANGED <<database, files, worker, reconciler>>
     ELSE Refuse(p, a)

\* Mutant: an artifact that is already there is not validated.
InstalledUnchecked(p, a) ==
  CASE artifacts[p] = "absent" /\ staging[p][a] # "absent" -> staging[p][a]
    [] artifacts[p] # "absent" /\ staging[p][a] # "absent" -> artifacts[p]
    [] OTHER -> "error"

\* What install_artifact leaves under artifacts/, or "error".
Installed(p, a) ==
  CASE artifacts[p] = "absent" /\ staging[p][a] # "absent" -> staging[p][a]
    [] artifacts[p] = "whole" /\ staging[p][a] # "absent" -> "whole"
    [] OTHER -> "error"

InstallArtifact(p, a) ==
  /\ At(p, a, "validated")
  /\ IF Installed(p, a) = "error"
     THEN Refuse(p, a)
     ELSE /\ artifacts' = [artifacts EXCEPT ![p] = Installed(p, a)]
          /\ origin' = [origin EXCEPT ![p] = IF artifacts[p] = "absent" THEN a ELSE @]
          /\ staging' = [staging EXCEPT ![p][a] = "absent"]
          /\ Goto(p, a, "installed")
          /\ UNCHANGED <<database, pointer, worker, reconciler>>

\* prepare_promotion's SELECT evaluates its WHERE clause before it waits for
\* the two rows' locks ...
PrepareTests(p, a) ==
  /\ At(p, a, "installed")
  /\ IF ActiveAttempt(p, a) /\ site.promotion = Nothing
     THEN Goto(p, a, "tested") /\ UNCHANGED <<database, files, worker, reconciler>>
     ELSE Refuse(p, a)

\* ... and again only if one of them has changed meanwhile: a lease that ran
\* out while it waited is not noticed.
StillThere(p, a) ==
  /\ pubs[p].state = "publishing"
  /\ pubs[p].attempt = a
  /\ site.promotion = Nothing
  /\ Newest(p)

\* Mutant: the generation of the promotion is the site's own.
NextGenerationSame == site.generation

NextGeneration == site.generation + 1

PreparePromotion(p, a) ==
  /\ At(p, a, "tested")
  /\ leasing = Nothing
  /\ IF StillThere(p, a)
     THEN /\ site' = [site EXCEPT !.promotion = p, !.promotionGeneration = NextGeneration]
          /\ pubs' = [pubs EXCEPT ![p].state = "promotion_pending", ![p].lease = "none",
                                  ![p].generation = NextGeneration]
          /\ attempts' = [attempts EXCEPT ![p][a] = "succeeded"]
          /\ Goto(p, a, "prepared")
          /\ UNCHANGED <<docs, leasing, files, worker, reconciler>>
     ELSE Refuse(p, a)

SwitchPointer(p, a) ==
  /\ At(p, a, "prepared")
  /\ pointer' = p
  /\ Goto(p, a, "switched")
  /\ UNCHANGED <<database, staging, artifacts, origin, worker, reconciler>>

\* finalize_promotion's transaction, for the promotion it still finds.
Finalizable(p) == site.promotion = p /\ pointer = p

FinalizePromotion(p) ==
  /\ site' = [site EXCEPT !.current = site.promotion,
                          !.generation = site.promotionGeneration,
                          !.promotion = Nothing, !.promotionGeneration = 0]
  /\ pubs' = [pubs EXCEPT ![p].state = "published"]

CompleteFinalizes(p, a) ==
  /\ At(p, a, "switched")
  /\ \/ /\ Finalizable(p)
        /\ FinalizePromotion(p)
        /\ Goto(p, a, "ended")
        /\ UNCHANGED <<docs, attempts, leasing, files, worker, reconciler>>
     \/ /\ site.promotion # p /\ pubs[p].state = "published"
        /\ Goto(p, a, "ended")
        /\ UNCHANGED <<database, files, worker, reconciler>>
     \/ /\ site.promotion = p /\ pointer # p  \* publisher_pointer_mismatch
        /\ Refuse(p, a)

\* Control stops, the query fails or the connection closes at an await.
HandlerStops(p, a) ==
  /\ handler[p][a] \in {"checked", "validated", "installed", "tested", "prepared", "switched"}
  /\ Goto(p, a, "ended")
  /\ UNCHANGED <<database, files, worker, reconciler>>

-----------------------------------------------------------------------------
(* The reaper: the pending promotion is read without a lock. *)

ReconcileReads ==
  /\ reconciler.at = "idle"
  /\ site.promotion # Nothing
  /\ reconciler' = [at |-> "read", pub |-> site.promotion]
  /\ UNCHANGED <<database, files, worker, handler>>

\* Mutant: the reaper trusts the pointer it finds.
ReconcileSwitchesNot ==
  /\ reconciler.at = "read"
  /\ reconciler' = [reconciler EXCEPT !.at = "switched"]
  /\ UNCHANGED <<database, files, worker, handler>>

ReconcileSwitches ==
  /\ reconciler.at = "read"
  /\ IF artifacts[reconciler.pub] = "whole"
     THEN pointer' = reconciler.pub /\ reconciler' = [reconciler EXCEPT !.at = "switched"]
     ELSE UNCHANGED pointer /\ reconciler' = Idle
  /\ UNCHANGED <<database, staging, artifacts, origin, worker, handler>>

ReconcileFinalizes ==
  /\ reconciler.at = "switched"
  /\ IF Finalizable(reconciler.pub)
     THEN FinalizePromotion(reconciler.pub)
     ELSE UNCHANGED <<site, pubs>>
  /\ reconciler' = Idle
  /\ UNCHANGED <<docs, attempts, leasing, files, worker, handler>>

ReconcilerStops ==
  /\ reconciler # Idle
  /\ reconciler' = Idle
  /\ UNCHANGED <<database, files, worker, handler>>

-----------------------------------------------------------------------------

Complete(p, a) ==
  \/ EnsureActive(p, a)
  \/ ValidateStaged(p, a)
  \/ InstallArtifact(p, a)
  \/ PrepareTests(p, a)
  \/ PreparePromotion(p, a)
  \/ SwitchPointer(p, a)
  \/ CompleteFinalizes(p, a)
  \/ HandlerStops(p, a)

Work(p, a) ==
  \/ Render(p, a)
  \/ RenderFails(p, a)
  \/ CompleteFailed(p, a)
  \/ WorkerDies(p, a)
  \/ WorkerCleans(p, a)
  \/ WorkerTears(p, a)
  \/ WorkerCleaned(p, a)

Lease(p) ==
  \/ LeasePublication(p)
  \/ ReclaimStaging(p)
  \/ LeaseTears(p)
  \/ LeaseCleaned(p)
  \/ LeaseRolledBack(p)
  \/ Lapse(p)

Reconcile ==
  \/ ReconcileReads
  \/ ReconcileSwitches
  \/ ReconcileFinalizes
  \/ ReconcilerStops

Next ==
  \/ Approve
  \/ CreatePublication
  \/ RefreshFacts
  \/ \E p \in Pub : Lease(p)
  \/ \E p \in Pub, a \in Attempt : Complete(p, a) \/ Work(p, a)
  \/ Reconcile

Spec == Init /\ [][Next]_vars

\* The reaper runs every second for as long as control does; one that is
\* stopped over and over still gets to each of its steps again.
Fairness ==
  /\ SF_vars(ReconcileReads)
  /\ SF_vars(ReconcileSwitches)
  /\ SF_vars(ReconcileFinalizes)

LiveSpec == Spec /\ Fairness

-----------------------------------------------------------------------------
(* Properties. *)

TypeOK ==
  /\ docs \in 0..MaxDocs
  /\ site \in SiteRow
  /\ pubs \in [Pub -> PubRow]
  /\ attempts \in [Pub -> [Attempt -> AttemptState]]
  /\ leasing \in 0..MaxDocs
  /\ staging \in [Pub -> [Attempt -> Tree]]
  /\ artifacts \in [Pub -> Tree]
  /\ origin \in [Pub -> Attempt \union {Nothing}]
  /\ pointer \in 0..MaxDocs
  /\ worker \in [Pub -> [Attempt -> WorkerState]]
  /\ handler \in [Pub -> [Attempt -> HandlerState]]
  /\ reconciler \in [at : {"idle", "read", "switched"}, pub : 0..MaxDocs]

\* Only one removal can reach what the static server may serve.  The artifact
\* of a publication that is promoted, live or named by the pointer matches its
\* manifest, although the next lease and every worker delete staging trees while
\* completions move them (install_artifact, cleanup_owned_staging); the
\* exception is a tree whose own worker gave up and opened it for removal before
\* it was moved, which may still lose files there at any later time.
OnlyItsWorkerTears ==
  \A p \in Pub :
    pubs[p].state \in {"promotion_pending", "published"} \/ pointer = p =>
      \/ artifacts[p] = "whole"
      \/ artifacts[p] = "torn" /\ worker[p][origin[p]] \in {"removing", "cleaned"}

\* The site row, the publication rows and the attempt rows, written by the
\* transactions of five different callers, agree: on which promotion is pending,
\* which publication is current and with which generation; and an attempt keeps
\* its claim exactly as long as its publication is being published by it, so
\* leases that lapse, are superseded or fail leave no second claim behind.
RowsAgree ==
  /\ \A p \in Pub : pubs[p].state = "promotion_pending" <=> site.promotion = p
  /\ \A p \in Pub : site.promotion = p => pubs[p].generation = site.promotionGeneration
  /\ \A p \in Pub : site.current = p =>
       pubs[p].state = "published" /\ pubs[p].generation = site.generation
  /\ \A p \in Pub, a \in Attempt :
       attempts[p][a] = "leased" <=> pubs[p].state = "publishing" /\ pubs[p].attempt = a

\* Publications go live in the order they were queued: a newer one has the
\* larger generation, and the newest published one is current
\* (prepare_promotion's sequence test, supersede_unstarted).
LiveInOrder ==
  /\ \A p, q \in Pub :
       p < q /\ pubs[p].state = "published" /\ pubs[q].state \in {"promotion_pending", "published"}
         => pubs[p].generation < pubs[q].generation
  /\ \A p \in Pub : pubs[p].state = "published" => p <= site.current

\* A promotion that was prepared is finished, whatever became of the
\* completion that prepared it; one whose artifact was torn is not, because the
\* reaper validates it first.
PromotionFinishes ==
  \A p \in Pub : (site.promotion = p) ~> (pubs[p].state = "published" \/ artifacts[p] = "torn")

\* "Stale publication and competing workers preserve the last good artifact":
\* with no promotion pending, visitors are served the current publication.
CurrentIsServed == site.promotion = Nothing => pointer = site.current
=============================================================================
