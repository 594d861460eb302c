------------------------------ MODULE Approvals ------------------------------
(***************************************************************************)
(* From a private draft to a public document, for one account: draft and   *)
(* preview revisions (portfolio_drafts.rs, portfolio_preview.rs), the      *)
(* owner's review and approval, the deployment facts that activations      *)
(* refresh, and demo readiness (portfolio_approval.rs), up to the rows the *)
(* publisher takes its documents from (portfolio_publish.rs).              *)
(*                                                                         *)
(* Every transaction here locks the account's row before it reads what it  *)
(* decides on, so each is one action.  What can go wrong is the order of   *)
(* them: a review is held in a browser while drafts are saved and releases *)
(* are activated, a refresh touches the latest approved revision only, and *)
(* the facts' history is append-only under a uniqueness constraint.        *)
(*                                                                         *)
(* The portfolio refers to one hosted project, once: references share no   *)
(* fact or readiness row.  A digest is the value it is taken of.  Nothing  *)
(* in the repository writes availability (always 'available') or           *)
(* demo_access_revision (always 1) but an activation, so only the time of  *)
(* the observation is kept.  A replayed idempotency key changes nothing    *)
(* and has no action.                                                      *)
(***************************************************************************)
EXTENDS Integers, Sequences, SequencesExt

CONSTANTS
  Release,        \* releases of the project, each prepared and validated
  Url,            \* managed demo destinations
  DemoUrl,        \* managed_demo_url of each release
  Body,           \* contents a draft may have
  Look,           \* appearances a preview may choose
  DefaultLook,
  MaxDrafts,      \* bound: draft revisions
  MaxApproved,    \* bound: approved revisions
  MaxActivations, \* bound: activations of a route
  MaxPublications \* bound: publications when the owner asks for another

NoLink == [url |-> "none", label |-> 0]
NoRelease == "no_release"

StatusField == {"deployment_timestamp", "availability", "release_identifier",
                "source_commit", "demo_readiness"}
RefreshField == {"managed_demo_destination", "deployment_timestamp", "availability"}
Link == [url : Url, label : Nat]

ASSUME ApprovalsAssumption ==
  /\ NoRelease \notin Release
  /\ DemoUrl \in [Release -> Url]
  /\ \A b \in Body :
       /\ b.section \in BOOLEAN        \* section_visibility.projects
       /\ b.shown \in BOOLEAN          \* visibility of the project
       /\ b.link \in Link \cup {NoLink}
       /\ b.shows \subseteq StatusField  \* displayed_status
  /\ DefaultLook \in Look
  /\ MaxDrafts \in Nat /\ MaxApproved \in Nat /\ MaxActivations \in Nat
  /\ MaxPublications \in Nat

VARIABLES
  drafts,        \* portfolio_draft_revisions, each with the look it is previewed in
  held,          \* the review open in the owner's browser
  approved,      \* portfolio_approved_revisions, by approval_sequence
  facts,         \* portfolio_deployment_fact_revisions of each of them
  readiness,     \* the latest of portfolio_readiness_events of each of them
  route,         \* project_release_routes: the release and when it was observed
  promoted,      \* promoted_at of each release, 0 for NULL
  clock,         \* activations so far: clock_timestamp()
  publications,  \* documents of portfolio_publications, by publication_sequence
  refused        \* an activation was rolled back by the database

approvalsVars == <<drafts, held, approved, facts, readiness, route, promoted, clock,
                   publications, refused>>

NoReview == [draft |-> 0]
NeverChecked == [state |-> "needs_recheck", reason |-> "never_checked", attested |-> NoRelease]

ApprovalsInit ==
  /\ drafts = <<>>
  /\ held = NoReview
  /\ approved = <<>>
  /\ facts = <<>>
  /\ readiness = <<>>
  /\ route = [release |-> NoRelease, observed |-> 0]
  /\ promoted = [r \in Release |-> 0]
  /\ clock = 0
  /\ publications = <<>>
  /\ refused = FALSE

-----------------------------------------------------------------------------
(* Drafts. *)

\* input_validation_issues for the first endpoint: deployment fields are not
\* displayed without the id of a fact record, and an id is refused too.
M1Valid(b) == b.shows \subseteq {"demo_readiness"}

SaveRevision(b, look) ==
  /\ Len(drafts) < MaxDrafts
  /\ drafts' = Append(drafts, [body |-> b, look |-> look])
  /\ UNCHANGED <<held, approved, facts, readiness, route, promoted, clock,
                 publications, refused>>

\* Appearance follows the latest preview context at or before a draft.
InheritedLook == IF drafts = <<>> THEN DefaultLook ELSE Last(drafts).look

\* create_draft_revision: no preview context of its own.
CreateDraftRevision(b) == M1Valid(b) /\ SaveRevision(b, InheritedLook)

\* create_preview_revision.  A stale If-Match is refused: the one that names
\* the latest revision is what is left.
CreatePreviewRevision(b, look) == SaveRevision(b, look)

-----------------------------------------------------------------------------
(* The review. *)

UsesDeploymentFacts(b) == b.shown /\ b.shows # {}

\* The routed release's row.
TrustedFact ==
  [release |-> route.release, url |-> DemoUrl[route.release],
   deployed |-> promoted[route.release], observed |-> route.observed]

NoFact == [release |-> NoRelease]

Reviewable(n) == UsesDeploymentFacts(drafts[n].body) => route.release # NoRelease

\* build_review; the record is what review_digest is taken of.
Review(n) ==
  [draft |-> n, body |-> drafts[n].body, look |-> drafts[n].look,
   fact |-> IF UsesDeploymentFacts(drafts[n].body) THEN TrustedFact ELSE NoFact]

\* The owner opens a review of the latest draft, which may not stay the
\* latest; one of an older draft is refused whatever it says.
GetPublicationReview ==
  /\ drafts # <<>>
  /\ Reviewable(Len(drafts))
  /\ held' = Review(Len(drafts))
  /\ UNCHANGED <<drafts, approved, facts, readiness, route, promoted, clock,
                 publications, refused>>

\* required_approval_targets: what a hidden section holds is no target.
ApprovalTargets(b) ==
  {"narrative"} \cup (IF b.section /\ b.shown
                      THEN b.shows \cup (IF b.link = NoLink THEN {} ELSE {"link"})
                      ELSE {})

\* approval_value of every target.
Requirements(review) ==
  [t \in ApprovalTargets(review.body) |->
    CASE t = "narrative" -> review.body.text
      [] t = "link" -> review.body.link
      [] t = "deployment_timestamp" -> review.fact.deployed
      [] t = "availability" -> "available"
      [] t = "release_identifier" -> review.fact.release
      [] t = "source_commit" -> review.fact.release
      [] t = "demo_readiness" -> NeverChecked]

-----------------------------------------------------------------------------
(* Approval. *)

\* managed_demo_link: the demo link that is the trusted destination.
ManagedDemoLink(review) ==
  IF review.body.link # NoLink /\ review.body.link.url = review.fact.url
  THEN review.body.link
  ELSE NoLink

\* validate_refresh_authorizations: what the owner may let activations change.
Refreshable(review) ==
  IF review.fact = NoFact THEN {}
  ELSE (review.body.shows \cap RefreshField)
       \cup (IF ManagedDemoLink(review) = NoLink THEN {} ELSE {"managed_demo_destination"})

\* The first fact revision of an approval.
OwnerAuthorized(review) ==
  [release |-> review.fact.release,
   stored |-> [url |-> review.fact.url, deployed |-> review.fact.deployed,
               observed |-> review.fact.observed, displayed |-> review.fact.release,
               link |-> ManagedDemoLink(review)]]

\* Mutant: the digest sent is compared with the review it was sent with.
ReviewHoldsAsSent(review) == review.draft = Len(drafts)

\* The draft is the latest, and the review built now has the digest reviewed.
ReviewHolds(review) ==
  /\ review.draft = Len(drafts)
  /\ Reviewable(review.draft)
  /\ Review(review.draft) = review

\* create_approved_revision; the whole revision or each field is approved, and
\* validate_approval asks the same of both.  A second approval of the same
\* review answers with the first, its refresh scope included, so the review is
\* put away.
CreateApprovedRevision(scope) ==
  /\ held # NoReview
  /\ Len(approved) < MaxApproved
  /\ ReviewHolds(held)
  /\ scope \subseteq Refreshable(held)
  /\ \A i \in DOMAIN approved : approved[i].review # held
  /\ approved' = Append(approved,
       [review |-> held, approvals |-> Requirements(held), scope |-> scope])
  /\ facts' = Append(facts, IF held.fact = NoFact THEN <<>> ELSE <<OwnerAuthorized(held)>>)
  /\ readiness' = Append(readiness, NeverChecked)
  /\ held' = NoReview
  /\ UNCHANGED <<drafts, route, promoted, clock, publications, refused>>

-----------------------------------------------------------------------------
(* The public document. *)

LatestApproved == Len(approved)
FactHead(a) == Last(facts[a])

\* load_public_portfolio_document: the approved snapshot, with the values of
\* the latest fact revision and the latest readiness event.
Value(a, t, history, ready) ==
  LET body == approved[a].review.body
      stored == Last(history).stored
  IN CASE t = "narrative" -> body.text
       [] t = "link" -> IF history # <<>> /\ stored.link # NoLink
                        THEN [body.link EXCEPT !.url = stored.url]
                        ELSE body.link
       [] t = "deployment_timestamp" -> stored.deployed
       [] t = "availability" -> "available"
       [] t = "release_identifier" -> stored.displayed
       [] t = "source_commit" -> stored.displayed
       [] t = "demo_readiness" -> ready

Document(a, history, ready) ==
  LET body == approved[a].review.body
  IN [approved |-> a, look |-> approved[a].review.look,
      fact |-> IF body.section /\ body.shown THEN Len(history) ELSE 0,
      values |-> [t \in ApprovalTargets(body) |-> Value(a, t, history, ready)]]

\* create_publication of the latest approved revision; a document that has a
\* row gets no other.
PublishApproved ==
  LET document == Document(LatestApproved, facts[LatestApproved], readiness[LatestApproved])
  IN /\ approved # <<>>
     /\ Len(publications) < MaxPublications
     /\ \A i \in DOMAIN publications : publications[i] # document
     /\ publications' = Append(publications, document)
     /\ UNCHANGED <<drafts, held, approved, facts, readiness, route, promoted, clock,
                    refused>>

-----------------------------------------------------------------------------
(* Refreshes. *)

\* managed_link_unchanged, of the latest draft.
LinkUnchanged(stored) == stored.link # NoLink /\ Last(drafts).body.link = stored.link

\* Mutant: every fact follows the route.
RefreshedEverything(stored, scope, release, now) ==
  [stored EXCEPT !.url = DemoUrl[release], !.deployed = now, !.observed = now,
                 !.displayed = release]

\* The stored facts after the fields of the scope followed the release routed
\* and observed at now.
Refreshed(stored, scope, release, now) ==
  [stored EXCEPT
    !.url = IF "managed_demo_destination" \in scope /\ LinkUnchanged(stored)
            THEN DemoUrl[release] ELSE @,
    !.deployed = IF "deployment_timestamp" \in scope THEN now ELSE @,
    !.observed = IF "availability" \in scope THEN now ELSE @]

NextFact(release, now) ==
  [release |-> release,
   stored |-> Refreshed(FactHead(LatestApproved).stored, approved[LatestApproved].scope,
                        release, now)]

\* A changed field or another release makes a revision.
Effective(release, now) ==
  /\ approved # <<>>
  /\ facts[LatestApproved] # <<>>
  /\ NextFact(release, now) # FactHead(LatestApproved)

\* UNIQUE (account_id, approved_revision_id, project_reference_id,
\* source_release_id, facts_digest): the history returns to no revision.
Duplicate(release, now) ==
  Effective(release, now) /\ NextFact(release, now) \in Range(facts[LatestApproved])

\* Mutant: what was attested of the previous release still holds.
RecheckNever(a, release) == readiness[a]

\* Another release asks for another check and keeps the old attestation.
Recheck(a, release) ==
  IF release = FactHead(a).release THEN readiness[a]
  ELSE [readiness[a] EXCEPT !.state = "needs_recheck", !.reason = "new_release"]

\* enqueue_fact_refresh_publication: a document once published is not queued
\* again, and without a site nothing is.
Enqueue(a, history, ready) ==
  LET document == Document(a, history, ready)
  IN IF publications = <<>> \/ document \in Range(publications)
     THEN publications
     ELSE Append(publications, document)

\* refresh_deployment_facts_in_transaction.
RefreshInTransaction(release, now) ==
  IF Effective(release, now)
  THEN LET a == LatestApproved
           history == Append(facts[a], NextFact(release, now))
           ready == Recheck(a, release)
       IN /\ facts' = [facts EXCEPT ![a] = history]
          /\ readiness' = [readiness EXCEPT ![a] = ready]
          /\ publications' = Enqueue(a, history, ready)
  ELSE UNCHANGED <<facts, readiness, publications>>

\* activate_reconciliation, of a promotion or of a rollback to a release that
\* was promoted before: the route, the release and the refresh commit together.
ActivateReconciliation(r) ==
  /\ clock < MaxActivations
  /\ r # route.release
  /\ IF Duplicate(r, clock + 1)
     THEN /\ refused' = TRUE
          /\ UNCHANGED <<facts, readiness, publications, route, promoted, clock>>
     ELSE /\ clock' = clock + 1
          /\ route' = [release |-> r, observed |-> clock']
          /\ promoted' = [promoted EXCEPT ![r] = clock']
          /\ RefreshInTransaction(r, clock')
          /\ UNCHANGED refused
  /\ UNCHANGED <<drafts, held, approved>>

\* refresh_deployment_facts: the runtime worker asks for it by itself.
RefreshDeploymentFacts ==
  /\ route.release # NoRelease
  /\ Effective(route.release, route.observed)
  /\ ~Duplicate(route.release, route.observed)
  /\ RefreshInTransaction(route.release, route.observed)
  /\ UNCHANGED <<drafts, held, approved, route, promoted, clock, refused>>

-----------------------------------------------------------------------------
(* Readiness. *)

\* create_readiness_attestation of the current fact revision of any approved
\* revision; the owner has all four checks and the instructions.
CreateReadinessAttestation(a) ==
  /\ facts[a] # <<>>
  /\ readiness' = [readiness EXCEPT ![a] =
       [state |-> "ready_to_share", reason |-> "none", attested |-> FactHead(a).release]]
  /\ UNCHANGED <<drafts, held, approved, facts, route, promoted, clock, publications,
                 refused>>

ApprovalsNext ==
  \/ \E b \in Body : CreateDraftRevision(b)
  \/ \E b \in Body, look \in Look : CreatePreviewRevision(b, look)
  \/ GetPublicationReview
  \/ \E scope \in SUBSET RefreshField : CreateApprovedRevision(scope)
  \/ PublishApproved
  \/ \E r \in Release : ActivateReconciliation(r)
  \/ RefreshDeploymentFacts
  \/ \E a \in DOMAIN approved : CreateReadinessAttestation(a)

ApprovalsSpec == ApprovalsInit /\ [][ApprovalsNext]_approvalsVars

-----------------------------------------------------------------------------
(* Properties. *)

\* What the tables and the browser hold.
DraftRow == [body : Body, look : Look]
TrustedRow == [release : Release, url : Url, deployed : 0..MaxActivations,
               observed : 0..MaxActivations]
ReviewRow == [draft : 1..MaxDrafts, body : Body, look : Look, fact : TrustedRow \cup {NoFact}]
StoredRow == [url : Url, deployed : 0..MaxActivations, observed : 0..MaxActivations,
              displayed : Release, link : Link \cup {NoLink}]
FactRow == [release : Release, stored : StoredRow]
ReadinessRow == [state : {"needs_recheck", "ready_to_share"},
                 reason : {"never_checked", "new_release", "none"},
                 attested : Release \cup {NoRelease}]
RouteRow == [release : Release \cup {NoRelease}, observed : 0..MaxActivations]

ApprovedOK(row) ==
  /\ row.review \in ReviewRow
  /\ row.approvals = Requirements(row.review)
  /\ row.scope \in SUBSET RefreshField

\* Every row is one its table can hold, an approval holds the value of every
\* target of its review, and approvals, their facts and their readiness have
\* the same number of rows.
ApprovalsTypeOK ==
  /\ drafts \in Seq(DraftRow) /\ Len(drafts) <= MaxDrafts
  /\ held \in ReviewRow \cup {NoReview}
  /\ approved \in Seq(Range(approved))
  /\ \A a \in DOMAIN approved : ApprovedOK(approved[a])
  /\ facts \in Seq(Seq(FactRow)) /\ Len(facts) = Len(approved)
  /\ readiness \in Seq(ReadinessRow) /\ Len(readiness) = Len(approved)
  /\ route \in RouteRow
  /\ promoted \in [Release -> 0..MaxActivations]
  /\ clock \in 0..MaxActivations
  /\ publications \in Seq(Range(publications))
  /\ refused \in BOOLEAN

\* Every value of every document a publication was queued for is the one the
\* owner approved, but for readiness and for the fields the owner let
\* activations keep fresh; of a link only the destination changes.
PublishedWasApproved ==
  \A i \in DOMAIN publications :
    LET values == publications[i].values
        row == approved[publications[i].approved]
    IN /\ DOMAIN values = DOMAIN row.approvals
       /\ \A t \in DOMAIN values \ {"demo_readiness"} :
            \/ values[t] = row.approvals[t]
            \/ t \in row.scope
            \/ /\ t = "link"
               /\ "managed_demo_destination" \in row.scope
               /\ values[t].label = row.approvals[t].label

\* The facts of the latest approved revision are those of the release routed
\* now: its release, and the time and observation it is authorized to follow.
\* Approving recomputes the review and an activation refreshes the facts, each
\* under the account's lock, so no order of the two leaves them behind.
FactsFollowRoute ==
  approved # <<>> /\ facts[LatestApproved] # <<>> =>
    LET head == FactHead(LatestApproved)
        scope == approved[LatestApproved].scope
    IN /\ head.release = route.release
       /\ "deployment_timestamp" \in scope => head.stored.deployed = promoted[route.release]
       /\ "availability" \in scope => head.stored.observed = route.observed

\* When the newest publication is of the latest approved revision and shows
\* the project, it names the current fact revision, and it says the demo is
\* ready only of the release visitors are routed to.
PublicationFollowsRoute ==
  LET newest == Last(publications)
  IN publications # <<>> /\ newest.approved = LatestApproved /\ newest.fact # 0 =>
       /\ newest.fact = Len(facts[LatestApproved])
       /\ "demo_readiness" \in DOMAIN newest.values
            /\ newest.values["demo_readiness"].state = "ready_to_share" =>
              newest.values["demo_readiness"].attested = route.release

\* Every activation the gateway has switched to is recorded: the refresh in
\* its transaction never rolls it back.
ActivationCommits == ~refused
==============================================================================
