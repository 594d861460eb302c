------------------------------- MODULE GitHub -------------------------------
(***************************************************************************)
(* A project's GitHub source: the owner's authorization, the App           *)
(* installation, the repository bindings and the webhooks that withdraw    *)
(* them (crates/control/src/github.rs and github_webhooks.rs over          *)
(* migration 0005), with the two readers of admission.rs and               *)
(* compatibility.rs that rely on them.                                     *)
(*                                                                         *)
(* A transaction is a process that goes through its program: locks, the    *)
(* unlocked read of the owner's token ("live") and questions to GitHub     *)
(* ("ask").  It keeps what it locked until it ends.  GitHub is external:   *)
(* what it grants changes at any time and every withdrawal is announced    *)
(* by a notice, delivered late and in any order; a second delivery of a    *)
(* notice finds its github_webhook_deliveries row and changes nothing.     *)
(*                                                                         *)
(* One account, one project and one installation.  The advisory lock and   *)
(* the row of the installation count as one lock, and so do the rows of    *)
(* the bindings; what a transaction reads before its first lock it reads   *)
(* at once, since the locks find it in the same revision.  The revision of *)
(* the project and of a binding only grows, so a transaction keeps whether *)
(* it is still the one that was read.  A token stands for the OAuth        *)
(* attempt it came from, a time is the fact whether it has passed, an      *)
(* If-Match revision that is stale only refuses.  Idempotency records      *)
(* repeat an answer and change nothing.                                    *)
(***************************************************************************)
EXTENDS Naturals, Sequences, FiniteSets

CONSTANTS
  Proc,          \* transactions at a time
  User,          \* GitHub identities the owner may log in with
  Repo,
  Attempt,       \* OAuth attempts the owner starts
  MaxEarly,      \* bound: attempts started before the first connection
  MaxBindings,   \* bound: bindings ever made
  MaxNotices     \* bound: changes of what GitHub grants, and pushes

ASSUME BoundsAssumption == {MaxEarly, MaxBindings, MaxNotices} \subseteq Nat

VARIABLES
  tx,            \* the transactions under way
  auth,          \* the account's row of github_user_authorizations
  attempts,      \* the github_oauth_attempts table; spent: consumed or expired
  installation,  \* the row of github_installations
  bindings,      \* the github_repository_bindings table, in order of selection,
                 \*   with the github_source_revisions of an active one for the
                 \*   project's current configuration: no other is read again
  app, granted, selection, alive,
                 \* at GitHub: the App's installation, its repositories, how
                 \*   they are selected, the tokens that still work
  notices,       \* webhooks sent and not yet committed
  sent           \* how many were sent

vars == <<tx, auth, attempts, installation, bindings, app, granted,
          selection, alive, notices, sent>>

rows == <<auth, attempts, installation, bindings>>
provider == <<app, granted, selection, alive, sent>>

-----------------------------------------------------------------------------
(* Rows. *)

None == [status |-> "none"]
Idle == [kind |-> "idle"]

BindingStatus == {"active", "disabled", "access_removed", "installation_suspended",
                  "installation_deleted", "revalidation_required",
                  "user_revalidation_required"}
\* Resolved by the owner with its tree, or pushed and without one.
Source == {"verified", "candidate"}
Token == [attempt : Attempt, user : User]

Active == {b \in DOMAIN bindings : bindings[b].status = "active"}

Init ==
  /\ tx = [p \in Proc |-> Idle]
  /\ auth = None
  /\ attempts = [a \in Attempt |-> "none"]
  /\ installation = None
  /\ bindings = <<>>
  /\ app = "installed" /\ granted = Repo /\ selection = "all" /\ alive = {}
  /\ notices = {} /\ sent = 0

-----------------------------------------------------------------------------
(* Transactions. *)

X(object) == <<object, "X">>
S(object) == <<object, "S">>
Live == <<"live">>
Ask == <<"ask">>

\* Mutant: the owner's authorization is not looked at again and not locked.
BindTrustsAuthorization == <<X("project"), Live, X("installation"), Ask, X("binding")>>
\* Mutant: GitHub is asked before the installation is locked.
BindAsksFirst == <<X("project"), Live, S("auth"), Ask, X("installation"), X("binding")>>
BindProgram == <<X("project"), Live, S("auth"), X("installation"), Ask, X("binding")>>
ReadProgram == <<S("project"), S("auth"), X("installation"), S("binding")>>
\* Mutant: a build source is taken without the installation's lock.
BuildUnlocked == <<S("project"), S("auth")>>
\* The binding is read again, but not locked.
BuildProgram == <<S("project"), S("auth"), X("installation")>>
ResolveProgram == <<S("auth"), Ask, X("binding")>>
AdmitProgram == <<X("project"), S("auth"), S("installation"), S("binding")>>
DiscoverProgram == <<X("installation")>>
\* Mutant: the installation is locked before the user's authorization.
RevokeInstallationFirst == <<X("installation"), X("auth"), X("binding")>>
RevokeProgram == <<X("auth"), X("installation"), X("binding")>>
WebhookProgram == <<X("installation"), X("binding")>>
\* Its attempt's row is locked from the first step on.
CompleteProgram == <<X("auth")>>

Program == [bind |-> BindProgram, read |-> ReadProgram, build |-> BuildProgram,
            resolve |-> ResolveProgram, admit |-> AdmitProgram, discover |-> DiscoverProgram,
            complete |-> CompleteProgram, first |-> CompleteProgram,
            authorization |-> RevokeProgram, installation |-> WebhookProgram,
            repositories |-> WebhookProgram, push |-> WebhookProgram]

Steps(p) == IF tx[p] = Idle THEN <<>> ELSE Program[tx[p].kind]
At(p, step) == tx[p] # Idle /\ tx[p].pc <= Len(Steps(p)) /\ Steps(p)[tx[p].pc] = step
\* It went through its program and holds all its locks.
Holding(p) == tx[p] # Idle /\ tx[p].pc > Len(Steps(p))
Locked(p) == {Steps(p)[i] : i \in {j \in DOMAIN Steps(p) : j < tx[p].pc}}

\* live_authorization marks a lapsed authorization on another connection
\* while its caller keeps what it locked.
Wants(p) ==
  IF tx[p] = Idle \/ Holding(p) THEN {}
  ELSE IF tx[p].expiring THEN {X("auth")}
  ELSE {Steps(p)[tx[p].pc]} \ {Live, Ask}
Waits(p, q) ==
  LET held == Locked(q)
  IN  \E w \in Wants(p) : \/ w[2] = "X" /\ {X(w[1]), S(w[1])} \cap held # {}
                          \/ w[2] = "S" /\ X(w[1]) \in held
Free(p) == \A q \in Proc \ {p} : ~Waits(p, q)
\* A handler of one step locks the object.
Unlocked(o) == \A q \in Proc : tx[q] # Idle => {X(o), S(o)} \cap Locked(q) = {}

\* Rows whose revision a transaction read.
Project == <<"project">>
Binding(b) == <<"binding", b>>

Go(p, fields) == tx' = [tx EXCEPT ![p] = [fields EXCEPT !.pc = @ + 1]]
Advance(p) == Go(p, tx[p])
End(p) == tx' = [tx EXCEPT ![p] = Idle]
\* These rows get their next revision.
Revised(t, changed) == IF t = Idle THEN Idle ELSE [t EXCEPT !.seen = @ \ changed]
Revise(changed) == tx' = [p \in Proc |-> Revised(tx[p], changed)]
Commit(p, changed) == tx' = [q \in Proc |-> IF q = p THEN Idle ELSE Revised(tx[q], changed)]
\* Go on when the check succeeds, roll back when it does not.
Pass(p, check) == IF check THEN Advance(p) ELSE End(p)

Start(kind, pc, input) ==
  [kind |-> kind, pc |-> pc, input |-> input, expiring |-> FALSE, authorization |-> 0,
   token |-> None, binding |-> 0, seen |-> {}]
Begin(p, start) == tx[p] = Idle /\ tx' = [tx EXCEPT ![p] = start]
\* Bound: once the last binding is made nothing begins but the handling of
\* notices that were sent before.
Over == Len(bindings) = MaxBindings
Request(p, start) == ~Over /\ Begin(p, start)

\* The process dies, the caller goes away or GitHub answers with an error.
Dies(p) ==
  /\ tx[p] # Idle
  /\ End(p)
  /\ UNCHANGED <<rows, provider, notices>>

-----------------------------------------------------------------------------
(* The first step of a transaction. *)

\* How the repositories are selected is GitHub's to say, when it is asked.
StartBind(p, r) ==
  /\ Request(p, Start("bind", 2, [repo |-> r, selection |-> "all"]))
  /\ Unlocked("project")
  /\ UNCHANGED <<rows, provider, notices>>

StartAdmission(p) ==
  /\ Request(p, Start("admit", 2, None))
  /\ bindings # <<>> /\ Unlocked("project")
  /\ UNCHANGED <<rows, provider, notices>>

Resolved(b) == "verified" \in bindings[b].sources
Readable(r) == app = "installed" /\ r \in granted

\* The token of an active authorization opens only for the identity it was
\* encrypted for; it may have lapsed.
Usable == auth.status = "active" /\ auth.token.user = auth.user

\* Before its first lock a transaction reads the active binding and the live
\* authorization; a reader finds a verified source of the current
\* configuration and GitHub lets it read the repository.
StartWithSource(p, kind) ==
  /\ Usable
  /\ \E b \in Active :
       /\ kind # "resolve" => Resolved(b) /\ auth.token \in alive /\ Readable(bindings[b].repo)
       /\ Request(p, [Start(kind, 1, None) EXCEPT
                        !.binding = b,
                        !.seen = IF kind = "resolve" THEN {} ELSE {Project, Binding(b)},
                        !.authorization = auth.revision, !.token = auth.token])
  /\ UNCHANGED <<rows, provider, notices>>

StartDiscovery(p) ==
  /\ Usable /\ auth.token \in alive /\ app # "deleted"
  /\ Request(p, Start("discover", 1, [app |-> app, selection |-> selection]))
  /\ UNCHANGED <<rows, provider, notices>>

\* live_authorization finds that the token of any of these has lapsed.
StartLapsed(p) ==
  /\ auth.status = "active"
  /\ Request(p, [Start("discover", 1, None) EXCEPT !.expiring = TRUE])
  /\ UNCHANGED <<rows, provider, notices>>

Webhook == {"authorization", "installation", "repositories", "push"}
Started == {a \in Attempt : attempts[a] # "none"}

\* The insert of its github_webhook_deliveries row waits for another delivery
\* of the same notice.
NotHandled(n) == \A q \in Proc : tx[q].kind \in Webhook => tx[q].input.notice # n

StartRevocation(p, n) ==
  /\ n.event = "authorization" /\ NotHandled(n)
  /\ Begin(p, Start(n.event, 1, [notice |-> n, before |-> Started]))
  /\ UNCHANGED <<rows, provider, notices>>

\* Events of an unknown installation and changes of a deleted one's
\* repositories are rejected, and recorded as such.
Known(event) ==
  /\ event = "installation" => installation # None
  /\ event = "repositories" => installation.status \notin {"none", "deleted"}

StartWebhook(p, n) ==
  /\ n.event # "authorization" /\ NotHandled(n) /\ Unlocked("installation")
  /\ IF Known(n.event)
     THEN Begin(p, Start(n.event, 2, [notice |-> n])) /\ UNCHANGED notices
     ELSE notices' = notices \ {n} /\ UNCHANGED tx
  /\ UNCHANGED <<rows, provider>>

-----------------------------------------------------------------------------
(* Steps of a transaction before its last one. *)

LiveAuthorization(p) ==
  /\ At(p, Live) /\ ~tx[p].expiring
  /\ Usable
  /\ Go(p, [tx[p] EXCEPT !.authorization = auth.revision, !.token = auth.token])
  /\ UNCHANGED <<rows, provider, notices>>

FindsLapsed(p) ==
  /\ At(p, Live) /\ ~tx[p].expiring /\ auth.status = "active"
  /\ tx' = [tx EXCEPT ![p].expiring = TRUE]
  /\ UNCHANGED <<rows, provider, notices>>

\* The update asks for the status only, not for the revision that was read.
MarkExpired(p) ==
  /\ tx[p] # Idle /\ tx[p].expiring /\ Free(p)
  /\ auth' = IF auth.status = "active"
             THEN [auth EXCEPT !.status = "expired", !.revision = @ + 1] ELSE auth
  /\ End(p)
  /\ UNCHANGED <<attempts, installation, bindings, provider, notices>>

ShareProject(p) ==
  /\ At(p, S("project")) /\ Free(p)
  /\ Pass(p, Project \in tx[p].seen)
  /\ UNCHANGED <<rows, provider, notices>>

\* lock_current_authorization compares the expiry with the start of the
\* transaction, when the token it read later had not lapsed either.
CurrentAuthorization(p) ==
  /\ auth.status = "active"
  /\ tx[p].kind # "admit" => auth.revision = tx[p].authorization

LockAuthorization(p) ==
  /\ At(p, S("auth")) /\ Free(p)
  /\ Pass(p, CurrentAuthorization(p))
  /\ UNCHANGED <<rows, provider, notices>>

\* Asked while the authorization is locked, with the token that was read before.
\* A bind keeps the installation as GitHub described it.
AskGitHub(p) ==
  /\ At(p, Ask)
  /\ LET repo == IF tx[p].kind = "bind" THEN tx[p].input.repo
                 ELSE bindings[tx[p].binding].repo
         answered == IF tx[p].kind = "bind"
                     THEN [tx[p] EXCEPT !.input = [repo |-> repo, selection |-> selection]]
                     ELSE tx[p]
     IN  IF tx[p].token \in alive /\ Readable(repo) THEN Go(p, answered) ELSE End(p)
  /\ UNCHANGED <<rows, provider, notices>>

\* The binding a transaction looked at is active in the same revision.
Unchanged(p) ==
  /\ bindings[tx[p].binding].status = "active"
  /\ Binding(tx[p].binding) \in tx[p].seen

Promotes(status) == status # "deleted"

\* Readers go on with an active installation; a build source looks at its
\* binding once more.  Binding lifts a suspension, never a deletion.
InstallationAllows(p) ==
  CASE tx[p].kind = "read" -> installation.status = "active"
    [] tx[p].kind = "build" -> installation.status = "active" /\ Unchanged(p)
    [] tx[p].kind = "bind" -> Promotes(installation.status)
    [] tx[p].kind = "authorization" -> TRUE

LockInstallation(p) ==
  /\ At(p, X("installation")) /\ Free(p) /\ tx[p].kind # "discover"
  /\ Pass(p, InstallationAllows(p))
  /\ UNCHANGED <<rows, provider, notices>>

\* Admission finds the active binding before it shares the installation's row.
ShareInstallation(p) ==
  /\ At(p, S("installation")) /\ Free(p)
  /\ installation.status = "active"
  /\ \E b \in Active : Go(p, [tx[p] EXCEPT !.binding = b])
  /\ UNCHANGED <<rows, provider, notices>>

ShareBinding(p) ==
  /\ At(p, S("binding")) /\ Free(p)
  /\ Pass(p, IF tx[p].kind = "read" THEN Unchanged(p)
             ELSE bindings[tx[p].binding].status = "active" /\ Resolved(tx[p].binding))
  /\ UNCHANGED <<rows, provider, notices>>

\* A reader commits: a compatibility report, a build source or an admission.
CommitHolder(p) ==
  /\ Holding(p)
  /\ End(p)
  /\ UNCHANGED <<rows, provider, notices>>

-----------------------------------------------------------------------------
(* The owner's connection. *)

\* Bound: the owner begins MaxEarly attempts, and another once the token lapsed
\* or was revoked.  Its id is a new one, whichever.
CreateAttempt(a) ==
  /\ ~Over /\ attempts[a] = "none"
  /\ a = CHOOSE new \in Attempt : attempts[new] = "none"
  /\ IF auth = None THEN Cardinality(Started) < MaxEarly
     ELSE ~(auth.status = "active" /\ auth.token \in alive)
  /\ attempts' = [attempts EXCEPT ![a] = "pending"]
  /\ UNCHANGED <<tx, auth, installation, bindings, provider, notices>>

AttemptFree(a) == \A q \in Proc : tx[q].kind \in {"complete", "first"} => tx[q].input.attempt # a

AttemptExpires(a) ==
  /\ ~Over /\ attempts[a] = "pending" /\ AttemptFree(a)
  /\ attempts' = [attempts EXCEPT ![a] = "spent"]
  /\ UNCHANGED <<tx, auth, installation, bindings, provider, notices>>

\* The attempt is locked and the code exchanged for a token of the user.
ExchangeCode(p, a, u) ==
  /\ attempts[a] = "pending" /\ AttemptFree(a)
  /\ Request(p, Start("complete", 1, [attempt |-> a, user |-> u]))
  /\ alive' = alive \cup {[attempt |-> a, user |-> u]}
  /\ UNCHANGED <<rows, app, granted, selection, sent, notices>>

\* Without a row there is nothing to lock, and the row is written as a first
\* one whatever happens in between.
ReadNoAuthorization(p) ==
  /\ tx[p].kind = "complete" /\ auth = None
  /\ tx' = [tx EXCEPT ![p].kind = "first"]
  /\ UNCHANGED <<rows, provider, notices>>

\* The upsert keeps the github_user_id of a row it finds.
Connected(p, revision) ==
  [status |-> "active", revision |-> revision, before |-> {},
   user |-> IF auth = None THEN tx[p].input.user ELSE auth.user,
   token |-> [attempt |-> tx[p].input.attempt, user |-> tx[p].input.user]]
Consume(p) == attempts' = [attempts EXCEPT ![tx[p].input.attempt] = "spent"]

\* A revocation since the attempt began asks for a new attempt.
MayConnect(p) ==
  /\ auth.user = tx[p].input.user
  /\ ~(auth.status = "revoked" /\ tx[p].input.attempt \in auth.before)

CompleteOauth(p) ==
  /\ tx[p].kind = "complete" /\ auth # None /\ Free(p)
  /\ IF MayConnect(p)
     THEN auth' = Connected(p, auth.revision + 1) /\ Consume(p)
     ELSE UNCHANGED <<auth, attempts>>
  /\ End(p)
  /\ UNCHANGED <<installation, bindings, provider, notices>>

CompleteFirst(p) ==
  /\ tx[p].kind = "first" /\ Free(p)
  /\ auth' = Connected(p, 1) /\ Consume(p)
  /\ End(p)
  /\ UNCHANGED <<installation, bindings, provider, notices>>

-----------------------------------------------------------------------------
(* Bindings. *)

\* upsert_installation: what was denied stays denied.
Denied == {"deleted", "suspended", "revalidation_required"}
Upserted(fact) ==
  [selection |-> fact.selection,
   status |-> IF installation.status \in Denied THEN installation.status
              ELSE IF fact.app = "suspended" THEN "suspended" ELSE "active"]

Discover(p) ==
  /\ tx[p].kind = "discover" /\ ~tx[p].expiring /\ Free(p)
  /\ installation' = Upserted(tx[p].input)
  /\ End(p)
  /\ UNCHANGED <<auth, attempts, bindings, provider, notices>>

\* Only a new binding is active: the sources of this one are not read again.
With(b, status) == [b EXCEPT !.status = status, !.sources = {}]
Having(statuses) == {b \in DOMAIN bindings : bindings[b].status \in statuses}
\* These rows get a new status, and a new revision with it.
Moved(some, status) ==
  [b \in DOMAIN bindings |-> IF b \in some THEN With(bindings[b], status) ELSE bindings[b]]
Revisions(some) == {Binding(b) : b \in some}

CommitBind(p) ==
  /\ tx[p].kind = "bind" /\ At(p, X("binding")) /\ Free(p)
  /\ installation' = [status |-> "active", selection |-> tx[p].input.selection]
  /\ bindings' = Append(Moved(Active, "disabled"),
                        [repo |-> tx[p].input.repo, status |-> "active",
                         sources |-> {"verified"}])
  /\ Commit(p, {Project} \cup Revisions(Active))
  /\ UNCHANGED <<auth, attempts, provider, notices>>

AddSource(b, source) == [bindings[b] EXCEPT !.sources = @ \cup {source}]

\* The If-Match revision was named before the binding was read, and any may
\* have been: it is the locked one's here, and one that is not refuses (Dies).
CommitResolve(p) ==
  /\ tx[p].kind = "resolve" /\ At(p, X("binding")) /\ Free(p)
  /\ LET b == tx[p].binding
     IN  IF bindings[b].status = "active"
         THEN /\ bindings' = [bindings EXCEPT ![b] = AddSource(b, "verified")]
              /\ Commit(p, {Binding(b)})
         ELSE End(p) /\ UNCHANGED bindings
  /\ UNCHANGED <<auth, attempts, installation, provider, notices>>

DeleteSource ==
  /\ ~Over /\ Active # {} /\ Unlocked("binding")
  /\ bindings' = Moved(Active, "disabled")
  /\ Revise(Revisions(Active))
  /\ UNCHANGED <<auth, attempts, installation, provider, notices>>

\* graph.rs: a new configuration revision, which no source was selected for.
EditProject ==
  /\ ~Over /\ Unlocked("project")
  /\ bindings' = [b \in DOMAIN bindings |-> [bindings[b] EXCEPT !.sources = {}]]
  /\ Revise({Project})
  /\ UNCHANGED <<auth, attempts, installation, provider, notices>>

-----------------------------------------------------------------------------
(* Webhooks. *)

Deliver(p, some) ==
  /\ notices' = notices \ {tx[p].input.notice}
  /\ Commit(p, Revisions(some))

Revoked(p) == [auth EXCEPT !.status = "revoked", !.token = None,
                           !.revision = @ + 1, !.before = tx[p].input.before]

\* The UPDATE finds the authorization of the user, or nothing; the installation
\* is the one of the account's bindings, of any status, and without a binding
\* there is nothing more to lock or to change.
LockUser(p) ==
  /\ tx[p].kind = "authorization" /\ At(p, X("auth")) /\ Free(p)
  /\ IF auth = None \/ auth.user # tx[p].input.notice.user
     THEN Deliver(p, {}) /\ UNCHANGED auth
     ELSE IF bindings = <<>>
     THEN Deliver(p, {}) /\ auth' = Revoked(p)
     ELSE Advance(p) /\ UNCHANGED <<auth, notices>>
  /\ UNCHANGED <<attempts, installation, bindings, provider>>

ProcessAuthorization(p) ==
  /\ tx[p].kind = "authorization" /\ At(p, X("binding")) /\ Free(p)
  /\ auth' = Revoked(p)
  /\ LET some == Having({"active", "revalidation_required", "user_revalidation_required"})
     IN  bindings' = Moved(some, "user_revalidation_required") /\ Deliver(p, some)
  /\ UNCHANGED <<attempts, installation, provider>>

InstallationStatus(current, action) ==
  IF current = "deleted" \/ action = "deleted" THEN "deleted"
  ELSE IF action = "suspend" \/ (current = "suspended" /\ action = "new_permissions_accepted")
  THEN "suspended"
  ELSE "revalidation_required"

Revocable == {"active", "installation_suspended", "revalidation_required"}

ProcessInstallation(p) ==
  /\ tx[p].kind = "installation" /\ At(p, X("binding")) /\ Free(p)
  /\ LET action == tx[p].input.notice.action
         next == InstallationStatus(installation.status, action)
         some == Having(IF next = "deleted" THEN BindingStatus
                        ELSE IF action \in {"suspend", "unsuspend"} THEN Revocable
                        ELSE Revocable \ {"installation_suspended"})
     IN  /\ installation' = [installation EXCEPT !.status = next]
         /\ bindings' = Moved(some, IF next = "deleted" THEN "installation_deleted"
                                    ELSE IF action = "suspend" THEN "installation_suspended"
                                    ELSE "revalidation_required")
         /\ Deliver(p, some)
  /\ UNCHANGED <<auth, attempts, provider>>

\* A removal without a list, or a switch from all repositories to selected
\* ones, may have removed any of them.
RevalidatesAll(n) ==
  \/ installation.selection = "all" /\ n.selection = "selected"
  \/ n.action = "removed" /\ n.repos = {}

ProcessInstallationRepositories(p) ==
  /\ tx[p].kind = "repositories" /\ At(p, X("binding")) /\ Free(p)
  /\ LET n == tx[p].input.notice
         removed == {b \in DOMAIN bindings : n.action = "removed" /\ bindings[b].repo \in n.repos
                                             /\ bindings[b].status \in Revocable}
         doubtful == {b \in Active \ removed : RevalidatesAll(n)}
     IN  /\ installation' =
              [selection |-> n.selection,
               status |-> IF RevalidatesAll(n) /\ installation.status = "active"
                          THEN "revalidation_required" ELSE installation.status]
         /\ bindings' = [b \in DOMAIN bindings |->
                           IF b \in removed THEN With(bindings[b], "access_removed")
                           ELSE IF b \in doubtful THEN With(bindings[b], "revalidation_required")
                           ELSE bindings[b]]
         /\ Deliver(p, removed \cup doubtful)
  /\ UNCHANGED <<auth, attempts, provider>>

\* A candidate without a tree for the active binding of the repository.
ProcessPush(p) ==
  /\ tx[p].kind = "push" /\ At(p, X("binding")) /\ Free(p)
  /\ LET bound == {b \in Active : bindings[b].repo \in tx[p].input.notice.repos
                                  /\ installation.status = "active"}
     IN  bindings' = [b \in DOMAIN bindings |->
                        IF b \in bound THEN AddSource(b, "candidate") ELSE bindings[b]]
  /\ Deliver(p, {})
  /\ UNCHANGED <<auth, attempts, installation, provider>>

-----------------------------------------------------------------------------
(* GitHub. *)

\* The id tells a notice from another one under way that says the same.  Bound:
\* GitHub changes once the owner has connected.
Send(event, action, repos, choice, user) ==
  LET notice(id) == [id |-> id, event |-> event, action |-> action, repos |-> repos,
                     selection |-> choice, user |-> user]
  IN  /\ ~Over /\ sent < MaxNotices /\ auth # None
      /\ sent' = sent + 1
      /\ notices' = notices \cup
           {notice(CHOOSE id \in 1..MaxNotices : notice(id) \notin notices)}

SendInstallation(action) == Send("installation", action, {}, "none", None)

Suspends ==
  /\ app = "installed" /\ app' = "suspended"
  /\ SendInstallation("suspend")
  /\ UNCHANGED <<tx, rows, granted, selection, alive>>

Unsuspends ==
  /\ app = "suspended" /\ app' = "installed"
  /\ SendInstallation("unsuspend")
  /\ UNCHANGED <<tx, rows, granted, selection, alive>>

Deletes ==
  /\ app # "deleted" /\ app' = "deleted"
  /\ SendInstallation("deleted")
  /\ UNCHANGED <<tx, rows, granted, selection, alive>>

AcceptsPermissions ==
  /\ app # "deleted"
  /\ SendInstallation("new_permissions_accepted")
  /\ UNCHANGED <<tx, rows, app, granted, selection, alive>>

\* The switch to selected repositories comes as a removal without a list.
Selects(kept) ==
  /\ app # "deleted" /\ selection = "all"
  /\ selection' = "selected" /\ granted' = kept
  /\ Send("repositories", "removed", {}, "selected", None)
  /\ UNCHANGED <<tx, rows, app, alive>>

Removes(r) ==
  /\ app # "deleted" /\ selection = "selected" /\ r \in granted
  /\ granted' = granted \ {r}
  /\ Send("repositories", "removed", {r}, selection, None)
  /\ UNCHANGED <<tx, rows, app, selection, alive>>

Adds(r) ==
  /\ app # "deleted" /\ selection = "selected" /\ r \notin granted
  /\ granted' = granted \cup {r}
  /\ Send("repositories", "added", {r}, selection, None)
  /\ UNCHANGED <<tx, rows, app, selection, alive>>

Revokes(u) ==
  /\ alive' = {t \in alive : t.user # u} /\ alive' # alive
  /\ Send("authorization", "revoked", {}, "none", u)
  /\ UNCHANGED <<tx, rows, app, granted, selection>>

Pushes(r) ==
  /\ Readable(r)
  /\ Send("push", "none", {r}, "none", None)
  /\ UNCHANGED <<tx, rows, app, granted, selection, alive>>

-----------------------------------------------------------------------------

Next ==
  \/ \E p \in Proc :
       \/ \E r \in Repo : StartBind(p, r)
       \/ \E kind \in {"read", "build", "resolve"} : StartWithSource(p, kind)
       \/ StartAdmission(p) \/ StartDiscovery(p) \/ StartLapsed(p)
       \/ \E n \in notices : StartRevocation(p, n) \/ StartWebhook(p, n)
       \/ \E a \in Attempt, u \in User : ExchangeCode(p, a, u)
       \/ LiveAuthorization(p) \/ FindsLapsed(p) \/ MarkExpired(p)
       \/ ShareProject(p) \/ LockAuthorization(p) \/ AskGitHub(p)
       \/ LockInstallation(p) \/ ShareInstallation(p) \/ ShareBinding(p)
       \/ CommitHolder(p) \/ Dies(p)
       \/ ReadNoAuthorization(p) \/ CompleteOauth(p) \/ CompleteFirst(p)
       \/ Discover(p) \/ CommitBind(p) \/ CommitResolve(p)
       \/ LockUser(p) \/ ProcessAuthorization(p) \/ ProcessInstallation(p)
       \/ ProcessInstallationRepositories(p) \/ ProcessPush(p)
  \/ \E a \in Attempt : CreateAttempt(a) \/ AttemptExpires(a)
  \/ DeleteSource \/ EditProject
  \/ Suspends \/ Unsuspends \/ Deletes \/ AcceptsPermissions
  \/ \E kept \in SUBSET Repo : Selects(kept)
  \/ \E r \in Repo : Removes(r) \/ Adds(r) \/ Pushes(r)
  \/ \E u \in User : Revokes(u)

Spec == Init /\ [][Next]_vars

-----------------------------------------------------------------------------
(* Properties. *)

\* What the tables, a transaction and a notice hold.
Revision == {Project} \cup {Binding(b) : b \in 1..MaxBindings}
Choice == {"all", "selected"}
AuthRow == [status : {"active", "expired", "revoked"}, revision : Nat,
            before : SUBSET Attempt, user : User, token : Token \cup {None}]
InstallationRow == [status : {"active", "suspended", "deleted", "revalidation_required"},
                    selection : Choice]
BindingRow == [repo : Repo, status : BindingStatus, sources : SUBSET Source]
\* The input, and what it is for, depend on the kind.
TxRow(input) == [kind : DOMAIN Program, pc : 1..7, input : {input}, expiring : BOOLEAN,
                 authorization : Nat, token : Token \cup {None}, binding : 0..MaxBindings,
                 seen : SUBSET Revision]

NoticeOK(n) ==
  /\ n.event \in Webhook /\ n.repos \subseteq Repo
  /\ n.event = "repositories" => n.selection \in Choice
  /\ n.event = "installation" =>
       n.action \in {"suspend", "unsuspend", "deleted", "new_permissions_accepted"}

InputOK(t) ==
  /\ t.kind = "bind" => t.input.repo \in Repo /\ t.input.selection \in Choice
  /\ t.kind = "discover" /\ ~t.expiring => t.input.selection \in Choice
  /\ t.kind \in {"complete", "first"} => t.input.attempt \in Attempt /\ t.input.user \in User
  /\ t.kind \in Webhook => NoticeOK(t.input.notice) /\ t.input.notice.event = t.kind
  /\ t.kind = "authorization" => t.input.before \subseteq Attempt

\* Every row is one its table can hold; what a transaction read is a revision.
TypeOK ==
  /\ DOMAIN tx = Proc
  /\ \A p \in Proc : tx[p] # Idle =>
       /\ tx[p] \in TxRow(tx[p].input) /\ InputOK(tx[p])
       /\ tx[p].pc <= Len(Steps(p)) + 1
  /\ auth \in AuthRow \cup {None}
  /\ attempts \in [Attempt -> {"none", "pending", "spent"}]
  /\ installation \in InstallationRow \cup {None}
  /\ bindings \in Seq(BindingRow) /\ Len(bindings) <= MaxBindings
  /\ app \in {"installed", "suspended", "deleted"} /\ selection \in Choice
  /\ granted \subseteq Repo /\ alive \subseteq Token
  /\ \A n \in notices : NoticeOK(n)
  /\ sent \in 0..MaxNotices

Pending(event, action) == \E n \in notices : n.event = event /\ n.action = action

\* A binding that is active although GitHub has withdrawn the installation, the
\* repository or every token of the owner has the notice of it still to come: once the
\* notice is handled (process_installation, process_installation_repositories,
\* process_authorization) no bind_source that asked GitHub before brings an
\* active binding back, in whatever order the notices came.
DenialHeard ==
  \A b \in Active :
    /\ app = "suspended" => Pending("installation", "suspend")
    /\ app = "deleted" => Pending("installation", "deleted")
    /\ bindings[b].repo \notin granted => Pending("repositories", "removed")
    /\ (\A t \in alive : t.user # auth.user) => Pending("authorization", "revoked")

\* An active binding has an owner whose authorization was not revoked and an
\* installation that is neither deleted nor waiting for revalidation, and the
\* project has one at most.
ActiveIsAuthorized ==
  /\ Cardinality(Active) <= 1
  /\ Active # {} => auth.status \in {"active", "expired"}
                    /\ installation.status \in {"active", "suspended"}

\* While a reader holds its locks (a compatibility report, a build source, an
\* admission) what it checked stays so: authorization, installation, project,
\* and the binding, which an owner may disable or resolve again only under a
\* build source.
ReadHolds ==
  \A p \in Proc :
    Holding(p) =>
      /\ auth.status = "active" /\ installation.status = "active"
      /\ tx[p].kind # "admit" => auth.revision = tx[p].authorization
                                 /\ Project \in tx[p].seen
      /\ bindings[tx[p].binding].status \in
           {"active"} \cup (IF tx[p].kind = "build" THEN {"disabled"} ELSE {})
      /\ tx[p].kind = "read" => Binding(tx[p].binding) \in tx[p].seen

\* Owners, readers, admission and webhooks lock in one order (project, user,
\* installation, binding), so that no set of transactions waits in a circle.
NoDeadlock ==
  \A P \in (SUBSET Proc) \ {{}} : \E p \in P : \A q \in P \ {p} : ~Waits(p, q)
=============================================================================
