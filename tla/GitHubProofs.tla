---------------------------- MODULE GitHubProofs ----------------------------
(***************************************************************************)
(* What GitHub promises, for any number of transactions, users, attempts,  *)
(* repositories, bindings and notices: no circle of waiting transactions,  *)
(* no reader whose grounds change while it holds its locks, and no active  *)
(* binding that a handled notice has denied.                               *)
(***************************************************************************)
EXTENDS GitHub, FiniteSetTheorems, SequenceTheorems, TLAPS

-----------------------------------------------------------------------------
(* The locks a transaction holds, by its kind and how far it is. *)

Object == {"project", "auth", "installation", "binding"}
Hooks == {"installation", "repositories", "push"}

HasX(t, o) ==
  \/ o = "project" /\ t.kind \in {"bind", "admit"}
  \/ o = "auth" /\ t.kind = "authorization" /\ t.pc >= 2
  \/ o = "installation" /\ \/ t.kind = "bind" /\ t.pc >= 5
                           \/ t.kind \in {"read", "build"} /\ t.pc >= 4
                           \/ t.kind = "authorization" /\ t.pc >= 3
                           \/ t.kind \in Hooks

HasS(t, o) ==
  \/ o = "project" /\ t.kind \in {"read", "build"} /\ t.pc >= 2
  \/ o = "auth" /\ \/ t.kind = "bind" /\ t.pc >= 4
                   \/ t.kind \in {"read", "build", "admit"} /\ t.pc >= 3
                   \/ t.kind = "resolve" /\ t.pc >= 2
  \/ o = "installation" /\ t.kind = "admit" /\ t.pc >= 4
  \/ o = "binding" /\ t.kind \in {"read", "admit"} /\ t.pc >= 5

Has(t, o) == HasX(t, o) \/ HasS(t, o)

\* Where in its program a transaction is between two steps.
PcOK(t) ==
  /\ t.kind = "bind" => t.pc \in 2..6
  /\ t.kind = "read" => t.pc \in 1..5
  /\ t.kind = "build" => t.pc \in 1..4
  /\ t.kind = "resolve" => t.pc \in 1..3
  /\ t.kind = "admit" => t.pc \in 2..5
  /\ t.kind \in {"discover", "complete", "first"} => t.pc = 1
  /\ t.kind = "authorization" => t.pc \in 1..3
  /\ t.kind \in Hooks => t.pc = 2
  /\ t.expiring => t.kind = "discover" \/ (t.kind = "bind" /\ t.pc = 2)

\* No two transactions hold what excludes the other.
Compatible(t, u) == \A o \in Object : ~(HasX(t, o) /\ Has(u, o)) /\ ~(HasX(u, o) /\ Has(t, o))

-----------------------------------------------------------------------------
(* The inductive invariant. *)

\* GitHub's withdrawals that concern a repository and are still to be handled.
Heard(repo) ==
  /\ app = "suspended" => Pending("installation", "suspend")
  /\ app = "deleted" => Pending("installation", "deleted")
  /\ repo \notin granted =>
       \E n \in notices : /\ n.event = "repositories" /\ n.action = "removed"
                          /\ n.repos = {} \/ repo \in n.repos
  /\ (\A t \in alive : t.user # auth.user) =>
       \E n \in notices : /\ n.event = "authorization" /\ n.action = "revoked"
                          /\ n.user = auth.user

\* What a reader found stays so from the lock on.
ReaderInv(t) ==
  /\ t.binding \in DOMAIN bindings
  /\ t.pc >= 2 => Project \in t.seen
  /\ t.pc >= 3 => auth.status = "active" /\ auth.revision = t.authorization
  /\ t.pc >= 4 => installation.status = "active"
  /\ t.kind = "build" /\ t.pc >= 4 => bindings[t.binding].status \in {"active", "disabled"}
  /\ t.pc >= 5 => bindings[t.binding].status = "active" /\ Binding(t.binding) \in t.seen

AdmitInv(t) ==
  /\ t.pc >= 3 => auth.status = "active"
  /\ t.pc >= 4 => installation.status = "active" /\ t.binding \in DOMAIN bindings
  /\ t.pc >= 5 => bindings[t.binding].status = "active"

\* What a bind asked GitHub was granted, or its withdrawal is still to come.
BindInv(t) ==
  /\ Len(bindings) < MaxBindings
  /\ t.pc >= 3 => auth # None /\ t.token.user = auth.user
  /\ t.pc >= 4 => auth.status = "active"
  /\ t.pc >= 6 => Heard(t.input.repo)

TxInv(t) ==
  /\ t.kind \in {"read", "build"} => ReaderInv(t)
  /\ t.kind = "resolve" => t.binding \in DOMAIN bindings
  /\ t.kind = "admit" => AdmitInv(t)
  /\ t.kind = "bind" => BindInv(t)
  /\ t.kind = "authorization" /\ t.pc >= 2 => auth # None
  /\ t.kind \in {"installation", "repositories"} => installation # None

TxsOK == \A p \in Proc : tx[p] # Idle => PcOK(tx[p]) /\ TxInv(tx[p])
LocksOK ==
  \A p, q \in Proc : p # q /\ tx[p] # Idle /\ tx[q] # Idle => Compatible(tx[p], tx[q])

ActiveOK ==
  /\ \A b, c \in Active : b = c
  /\ Active # {} => /\ auth.status \in {"active", "expired"}
                    /\ installation.status \in {"active", "suspended"}
HeardOK == \A b \in Active : Heard(bindings[b].repo)

GitHubInv == TypeOK /\ TxsOK /\ LocksOK /\ ActiveOK /\ HeardOK

-----------------------------------------------------------------------------
(* Steps and locks. *)

\* Locks on different objects and of different modes differ.
LEMMA Distinct ==
  /\ \A o : X(o)[1] = o /\ X(o)[2] = "X" /\ S(o)[1] = o /\ S(o)[2] = "S"
  /\ \A o, u : (X(o) = X(u) <=> o = u) /\ (S(o) = S(u) <=> o = u) /\ X(o) # S(u)
  /\ \A o : X(o) # Live /\ X(o) # Ask /\ S(o) # Live /\ S(o) # Ask
  /\ Live # Ask
<1>1. \A o : X(o)[1] = o /\ X(o)[2] = "X" /\ S(o)[1] = o /\ S(o)[2] = "S"
  BY DEF X, S
<1>2. \A o, u : (X(o) = X(u) <=> o = u) /\ (S(o) = S(u) <=> o = u) /\ X(o) # S(u)
  BY DEF X, S
<1>3. \A o : X(o) # Live /\ X(o) # Ask /\ S(o) # Live /\ S(o) # Ask
  BY DEF X, S, Live, Ask
<1>4. Live # Ask
  BY DEF Live, Ask
<1> QED BY <1>1, <1>2, <1>3, <1>4

\* The programs, by kind.
LEMMA Programs ==
  /\ DOMAIN Program = {"bind", "read", "build", "resolve", "admit", "discover", "complete",
                       "first", "authorization", "installation", "repositories", "push"}
  /\ Program["bind"] = BindProgram /\ Program["read"] = ReadProgram
  /\ Program["build"] = BuildProgram /\ Program["resolve"] = ResolveProgram
  /\ Program["admit"] = AdmitProgram /\ Program["discover"] = DiscoverProgram
  /\ Program["complete"] = CompleteProgram /\ Program["first"] = CompleteProgram
  /\ Program["authorization"] = RevokeProgram /\ Program["installation"] = WebhookProgram
  /\ Program["repositories"] = WebhookProgram /\ Program["push"] = WebhookProgram
BY DEF Program

\* What the type invariant says of a transaction under way.
LEMMA TxFields ==
  ASSUME TypeOK, NEW p \in Proc, tx[p] # Idle
  PROVE  /\ tx[p] \in TxRow(tx[p].input) /\ InputOK(tx[p])
         /\ tx[p].kind \in DOMAIN Program /\ tx[p].pc \in 1..7
         /\ tx[p].expiring \in BOOLEAN /\ tx[p].authorization \in Nat
         /\ tx[p].token \in Token \cup {None} /\ tx[p].binding \in 0..MaxBindings
         /\ tx[p].seen \in SUBSET Revision
<1>1. tx[p] \in TxRow(tx[p].input) /\ InputOK(tx[p])
  BY DEF TypeOK
<1> QED BY <1>1 DEF TxRow

\* The locks a transaction holds are those of the table above.
LEMMA LockedMeans ==
  ASSUME TypeOK, NEW p \in Proc, tx[p] # Idle, PcOK(tx[p])
  PROVE  \A o \in Object : /\ X(o) \in Locked(p) <=> HasX(tx[p], o)
                           /\ S(o) \in Locked(p) <=> HasS(tx[p], o)
<1> PICK t : t = tx[p]
  OBVIOUS
<1>1. t.kind \in DOMAIN Program /\ t.pc \in 1..7 /\ Steps(p) = Program[t.kind]
  BY TxFields DEF Steps
<1>2. Locked(p) = {Steps(p)[i] : i \in {j \in DOMAIN Steps(p) : j < t.pc}}
  BY DEF Locked
<1>3. ASSUME NEW o \in Object
      PROVE  /\ X(o) \in Locked(p) <=> HasX(t, o)
             /\ S(o) \in Locked(p) <=> HasS(t, o)
  <2>1. CASE t.kind = "bind"
    <3>1. Steps(p) = <<X("project"), Live, S("auth"), X("installation"), Ask, X("binding")>>
      BY <2>1, <1>1, Programs DEF BindProgram
    <3>2. t.pc \in 2..6
      BY <2>1 DEF PcOK
    <3> QED BY <2>1, <3>1, <3>2, <1>2, <1>3, Distinct DEF HasX, HasS, Hooks, Object
  <2>2. CASE t.kind = "read"
    <3>1. Steps(p) = <<S("project"), S("auth"), X("installation"), S("binding")>>
      BY <2>2, <1>1, Programs DEF ReadProgram
    <3>2. t.pc \in 1..5
      BY <2>2 DEF PcOK
    <3> QED BY <2>2, <3>1, <3>2, <1>2, <1>3, Distinct DEF HasX, HasS, Hooks, Object
  <2>3. CASE t.kind = "build"
    <3>1. Steps(p) = <<S("project"), S("auth"), X("installation")>>
      BY <2>3, <1>1, Programs DEF BuildProgram
    <3>2. t.pc \in 1..4
      BY <2>3 DEF PcOK
    <3> QED BY <2>3, <3>1, <3>2, <1>2, <1>3, Distinct DEF HasX, HasS, Hooks, Object
  <2>4. CASE t.kind = "resolve"
    <3>1. Steps(p) = <<S("auth"), Ask, X("binding")>>
      BY <2>4, <1>1, Programs DEF ResolveProgram
    <3>2. t.pc \in 1..3
      BY <2>4 DEF PcOK
    <3> QED BY <2>4, <3>1, <3>2, <1>2, <1>3, Distinct DEF HasX, HasS, Hooks, Object
  <2>5. CASE t.kind = "admit"
    <3>1. Steps(p) = <<X("project"), S("auth"), S("installation"), S("binding")>>
      BY <2>5, <1>1, Programs DEF AdmitProgram
    <3>2. t.pc \in 2..5
      BY <2>5 DEF PcOK
    <3> QED BY <2>5, <3>1, <3>2, <1>2, <1>3, Distinct DEF HasX, HasS, Hooks, Object
  <2>6. CASE t.kind = "discover"
    <3>1. Steps(p) = <<X("installation")>>
      BY <2>6, <1>1, Programs DEF DiscoverProgram
    <3>2. t.pc = 1
      BY <2>6 DEF PcOK
    <3> QED BY <2>6, <3>1, <3>2, <1>2, <1>3, Distinct DEF HasX, HasS, Hooks, Object
  <2>7. CASE t.kind = "authorization"
    <3>1. Steps(p) = <<X("auth"), X("installation"), X("binding")>>
      BY <2>7, <1>1, Programs DEF RevokeProgram
    <3>2. t.pc \in 1..3
      BY <2>7 DEF PcOK
    <3> QED BY <2>7, <3>1, <3>2, <1>2, <1>3, Distinct DEF HasX, HasS, Hooks, Object
  <2>8. CASE t.kind \in {"complete", "first"}
    <3>1. Steps(p) = <<X("auth")>>
      BY <2>8, <1>1, Programs DEF CompleteProgram, Hooks
    <3>2. t.pc = 1
      BY <2>8 DEF PcOK
    <3> QED BY <2>8, <3>1, <3>2, <1>2, <1>3, Distinct DEF HasX, HasS, Hooks, Object
  <2>9. CASE t.kind \in Hooks
    <3>1. Steps(p) = <<X("installation"), X("binding")>>
      BY <2>9, <1>1, Programs DEF WebhookProgram, Hooks
    <3>2. t.pc = 2
      BY <2>9 DEF PcOK
    <3> QED BY <2>9, <3>1, <3>2, <1>2, <1>3, Distinct DEF HasX, HasS, Hooks, Object
  <2> QED BY <2>1, <2>2, <2>3, <2>4, <2>5, <2>6, <2>7, <2>8, <2>9, <1>1, Programs DEF Hooks
<1> QED BY <1>3

\* The step a transaction is at tells its kind and how far it is.
AtMeans(t, w) ==
  /\ w = Live => t.kind = "bind" /\ t.pc = 2
  /\ w = Ask => (t.kind = "bind" /\ t.pc = 5) \/ (t.kind = "resolve" /\ t.pc = 2)
  /\ w = S("project") => t.kind \in {"read", "build"} /\ t.pc = 1
  /\ w # X("project")
  /\ w = S("auth") => \/ t.kind = "bind" /\ t.pc = 3
                      \/ t.kind \in {"read", "build", "admit"} /\ t.pc = 2
                      \/ t.kind = "resolve" /\ t.pc = 1
  /\ w = X("auth") => t.kind \in {"authorization", "complete", "first"} /\ t.pc = 1
  /\ w = S("installation") => t.kind = "admit" /\ t.pc = 3
  /\ w = X("installation") => \/ t.kind = "bind" /\ t.pc = 4
                              \/ t.kind \in {"read", "build"} /\ t.pc = 3
                              \/ t.kind = "discover" /\ t.pc = 1
                              \/ t.kind = "authorization" /\ t.pc = 2
  /\ w = S("binding") => t.kind \in {"read", "admit"} /\ t.pc = 4
  /\ w = X("binding") => \/ t.kind = "bind" /\ t.pc = 6
                         \/ t.kind \in {"resolve", "authorization"} /\ t.pc = 3
                         \/ t.kind \in Hooks /\ t.pc = 2

\* Where a transaction is in its program, from its kind and its counter.
LEMMA StepMeans ==
  ASSUME TypeOK, NEW p \in Proc, tx[p] # Idle, PcOK(tx[p])
  PROVE  /\ Holding(p) => \/ tx[p].kind \in {"read", "admit"} /\ tx[p].pc = 5
                          \/ tx[p].kind = "build" /\ tx[p].pc = 4
         /\ ~Holding(p) => /\ AtMeans(tx[p], Steps(p)[tx[p].pc])
                           /\ Steps(p)[tx[p].pc] \in
                                {Live, Ask} \cup {X(o) : o \in Object} \cup {S(o) : o \in Object}
         /\ tx[p].pc <= Len(Steps(p)) + 1
<1> PICK t : t = tx[p]
  OBVIOUS
<1>1. t.kind \in DOMAIN Program /\ t.pc \in 1..7 /\ Steps(p) = Program[t.kind]
  BY TxFields DEF Steps
<1>2. Holding(p) <=> t.pc > Len(Steps(p))
  BY DEF Holding
<1>3. ASSUME NEW w, w = Steps(p)[t.pc]
      PROVE  /\ Holding(p) => \/ t.kind \in {"read", "admit"} /\ t.pc = 5
                              \/ t.kind = "build" /\ t.pc = 4
             /\ ~Holding(p) => /\ AtMeans(t, w)
                               /\ w \in {Live, Ask} \cup {X(o) : o \in Object}
                                          \cup {S(o) : o \in Object}
             /\ t.pc <= Len(Steps(p)) + 1
  <2>1. CASE t.kind = "bind"
    <3>1. Steps(p) = <<X("project"), Live, S("auth"), X("installation"), Ask, X("binding")>>
      BY <2>1, <1>1, Programs DEF BindProgram
    <3>2. t.pc \in 2..6
      BY <2>1 DEF PcOK
    <3> QED BY <2>1, <3>1, <3>2, <1>2, <1>3, Distinct DEF AtMeans, Hooks, Object
  <2>2. CASE t.kind = "read"
    <3>1. Steps(p) = <<S("project"), S("auth"), X("installation"), S("binding")>>
      BY <2>2, <1>1, Programs DEF ReadProgram
    <3>2. t.pc \in 1..5
      BY <2>2 DEF PcOK
    <3> QED BY <2>2, <3>1, <3>2, <1>2, <1>3, Distinct DEF AtMeans, Hooks, Object
  <2>3. CASE t.kind = "build"
    <3>1. Steps(p) = <<S("project"), S("auth"), X("installation")>>
      BY <2>3, <1>1, Programs DEF BuildProgram
    <3>2. t.pc \in 1..4
      BY <2>3 DEF PcOK
    <3> QED BY <2>3, <3>1, <3>2, <1>2, <1>3, Distinct DEF AtMeans, Hooks, Object
  <2>4. CASE t.kind = "resolve"
    <3>1. Steps(p) = <<S("auth"), Ask, X("binding")>>
      BY <2>4, <1>1, Programs DEF ResolveProgram
    <3>2. t.pc \in 1..3
      BY <2>4 DEF PcOK
    <3> QED BY <2>4, <3>1, <3>2, <1>2, <1>3, Distinct DEF AtMeans, Hooks, Object
  <2>5. CASE t.kind = "admit"
    <3>1. Steps(p) = <<X("project"), S("auth"), S("installation"), S("binding")>>
      BY <2>5, <1>1, Programs DEF AdmitProgram
    <3>2. t.pc \in 2..5
      BY <2>5 DEF PcOK
    <3> QED BY <2>5, <3>1, <3>2, <1>2, <1>3, Distinct DEF AtMeans, Hooks, Object
  <2>6. CASE t.kind = "discover"
    <3>1. Steps(p) = <<X("installation")>>
      BY <2>6, <1>1, Programs DEF DiscoverProgram
    <3>2. t.pc = 1
      BY <2>6 DEF PcOK
    <3> QED BY <2>6, <3>1, <3>2, <1>2, <1>3, Distinct DEF AtMeans, Hooks, Object
  <2>7. CASE t.kind = "authorization"
    <3>1. Steps(p) = <<X("auth"), X("installation"), X("binding")>>
      BY <2>7, <1>1, Programs DEF RevokeProgram
    <3>2. t.pc \in 1..3
      BY <2>7 DEF PcOK
    <3> QED BY <2>7, <3>1, <3>2, <1>2, <1>3, Distinct DEF AtMeans, Hooks, Object
  <2>8. CASE t.kind \in {"complete", "first"}
    <3>1. Steps(p) = <<X("auth")>>
      BY <2>8, <1>1, Programs DEF CompleteProgram, Hooks
    <3>2. t.pc = 1
      BY <2>8 DEF PcOK
    <3> QED BY <2>8, <3>1, <3>2, <1>2, <1>3, Distinct DEF AtMeans, Hooks, Object
  <2>9. CASE t.kind \in Hooks
    <3>1. Steps(p) = <<X("installation"), X("binding")>>
      BY <2>9, <1>1, Programs DEF WebhookProgram, Hooks
    <3>2. t.pc = 2
      BY <2>9 DEF PcOK
    <3> QED BY <2>9, <3>1, <3>2, <1>2, <1>3, Distinct DEF AtMeans, Hooks, Object
  <2> QED BY <2>1, <2>2, <2>3, <2>4, <2>5, <2>6, <2>7, <2>8, <2>9, <1>1, Programs DEF Hooks
<1> QED BY <1>3

\* An At guard, unfolded.
LEMMA AtStep ==
  ASSUME TypeOK, TxsOK, NEW p \in Proc, NEW w, At(p, w)
  PROVE  /\ tx[p] # Idle /\ PcOK(tx[p]) /\ TxInv(tx[p])
         /\ ~Holding(p) /\ Steps(p)[tx[p].pc] = w /\ AtMeans(tx[p], w)
<1>1. tx[p] # Idle /\ tx[p].pc <= Len(Steps(p)) /\ Steps(p)[tx[p].pc] = w
  BY DEF At
<1>2. PcOK(tx[p]) /\ TxInv(tx[p])
  BY <1>1 DEF TxsOK
<1>3. ~Holding(p)
  <2>1. tx[p].pc \in Nat
    BY <1>1, TxFields
  <2>2. tx[p].pc <= Len(Steps(p)) + 1 /\ Len(Steps(p)) \in Nat
    <3>1. Steps(p) = Program[tx[p].kind] /\ tx[p].kind \in DOMAIN Program
      BY <1>1, TxFields DEF Steps
    <3>2. Len(Steps(p)) \in Nat
      BY <3>1, Programs DEF BindProgram, ReadProgram, BuildProgram, ResolveProgram,
         AdmitProgram, DiscoverProgram, CompleteProgram, RevokeProgram, WebhookProgram
    <3> QED BY <3>2, <1>1, <1>2, StepMeans
  <2> QED BY <1>1, <2>1, <2>2 DEF Holding
<1> QED BY <1>1, <1>2, <1>3, StepMeans

\* A transaction that is free to take a lock finds no other that excludes it.
LEMMA FreeMeans ==
  ASSUME TypeOK, TxsOK, NEW p \in Proc, tx[p] # Idle, Free(p), NEW o \in Object,
         NEW q \in Proc, q # p, tx[q] # Idle
  PROVE  /\ X(o) \in Wants(p) => ~Has(tx[q], o)
         /\ S(o) \in Wants(p) => ~HasX(tx[q], o)
<1>1. ~Waits(p, q)
  BY DEF Free
<1>2. PcOK(tx[q])
  BY DEF TxsOK
<1>3. /\ X(o) \in Locked(q) <=> HasX(tx[q], o)
      /\ S(o) \in Locked(q) <=> HasS(tx[q], o)
  BY <1>2, LockedMeans
<1>4. ASSUME X(o) \in Wants(p) PROVE X(o) \notin Locked(q) /\ S(o) \notin Locked(q)
  <2>1. X(o)[1] = o /\ X(o)[2] = "X"
    BY Distinct
  <2>2. ~({X(X(o)[1]), S(X(o)[1])} \cap Locked(q) # {})
    BY <1>1, <1>4, <2>1 DEF Waits
  <2> QED BY <2>1, <2>2
<1>5. ASSUME S(o) \in Wants(p) PROVE X(o) \notin Locked(q)
  <2>1. S(o)[1] = o /\ S(o)[2] = "S"
    BY Distinct
  <2> QED BY <1>1, <1>5, <2>1 DEF Waits
<1> QED BY <1>3, <1>4, <1>5 DEF Has

\* The same for the lock it is at.
LEMMA FreeAt ==
  ASSUME TypeOK, TxsOK, NEW p \in Proc, Free(p), NEW o \in Object,
         ~tx[p].expiring, At(p, X(o)) \/ At(p, S(o)),
         NEW q \in Proc, q # p, tx[q] # Idle
  PROVE  /\ At(p, X(o)) => ~Has(tx[q], o)
         /\ At(p, S(o)) => ~HasX(tx[q], o)
<1>1. tx[p] # Idle /\ ~Holding(p)
  BY AtStep
<1>2. Wants(p) = {Steps(p)[tx[p].pc]} \ {Live, Ask}
  BY <1>1 DEF Wants
<1>3. /\ At(p, X(o)) => X(o) \in Wants(p)
      /\ At(p, S(o)) => S(o) \in Wants(p)
  BY <1>2, AtStep, Distinct
<1> QED BY <1>1, <1>3, FreeMeans

\* A handler that finds an object unlocked finds no holder of it.
LEMMA UnlockedMeans ==
  ASSUME TypeOK, TxsOK, NEW o \in Object, Unlocked(o), NEW q \in Proc, tx[q] # Idle
  PROVE  ~Has(tx[q], o)
<1>1. {X(o), S(o)} \cap Locked(q) = {}
  BY DEF Unlocked
<1>2. PcOK(tx[q])
  BY DEF TxsOK
<1> QED BY <1>1, <1>2, LockedMeans DEF Has

\* The order in which every program locks.
Rank(o) == IF o = "project" THEN 1 ELSE IF o = "auth" THEN 2
           ELSE IF o = "installation" THEN 3 ELSE 4
WantsOn(p, o) == Wants(p) # {} /\ Wants(p) \subseteq {X(o), S(o)}

\* A transaction wants an object that comes after all it has.
LEMMA LockOrder ==
  ASSUME TypeOK, TxsOK, NEW p \in Proc, Wants(p) # {}
  PROVE  /\ tx[p] # Idle
         /\ \E o \in Object :
              /\ WantsOn(p, o)
              /\ \A u \in Object : Has(tx[p], u) => Rank(u) < Rank(o)
<1>1. tx[p] # Idle /\ ~Holding(p)
  BY DEF Wants
<1>2. PcOK(tx[p])
  BY <1>1 DEF TxsOK
<1> PICK t : t = tx[p]
  OBVIOUS
<1>3. t.kind \in DOMAIN Program /\ t.pc \in 1..7 /\ t.expiring \in BOOLEAN
  BY <1>1, TxFields
<1>4. CASE t.expiring
  <2>1. Wants(p) = {X("auth")}
    BY <1>1, <1>4 DEF Wants
  <2>2. t.kind = "discover" \/ (t.kind = "bind" /\ t.pc = 2)
    BY <1>2, <1>4 DEF PcOK
  <2>3. \A u \in Object : Has(t, u) => Rank(u) < Rank("auth")
    BY <2>2 DEF Has, HasX, HasS, Hooks, Rank, Object
  <2> QED BY <1>1, <2>1, <2>3 DEF WantsOn, Object
<1>5. CASE ~t.expiring
  <2> PICK w : w = Steps(p)[t.pc]
    OBVIOUS
  <2>1. Wants(p) = {w} \ {Live, Ask}
    BY <1>1, <1>5 DEF Wants
  <2>2. AtMeans(t, w) /\ w \in {X(o) : o \in Object} \cup {S(o) : o \in Object}
    BY <1>1, <1>2, <2>1, StepMeans
  <2>3. PICK o \in Object : w = X(o) \/ w = S(o)
    BY <2>2
  <2>4. WantsOn(p, o)
    BY <2>1, <2>3 DEF WantsOn
  <2>5. \A u \in Object : Has(t, u) => Rank(u) < Rank(o)
    <3>1. CASE o = "project"
      BY <3>1, <2>2, <2>3 DEF AtMeans, Has, HasX, HasS, Hooks, Rank, Object
    <3>2. CASE o = "auth"
      BY <3>2, <2>2, <2>3 DEF AtMeans, Has, HasX, HasS, Hooks, Rank, Object
    <3>3. CASE o = "installation"
      BY <3>3, <2>2, <2>3 DEF AtMeans, Has, HasX, HasS, Hooks, Rank, Object
    <3>4. CASE o = "binding"
      BY <3>4, <2>2, <2>3 DEF AtMeans, Has, HasX, HasS, Hooks, Rank, Object
    <3> QED BY <3>1, <3>2, <3>3, <3>4 DEF Object
  <2> QED BY <1>1, <2>4, <2>5
<1> QED BY <1>4, <1>5

\* Who waits waits for a lock that the other has taken.
LEMMA WaitsMeans ==
  ASSUME TypeOK, TxsOK, NEW p \in Proc, NEW q \in Proc, Waits(p, q),
         NEW o \in Object, WantsOn(p, o)
  PROVE  tx[q] # Idle /\ Has(tx[q], o)
<1>1. \E w \in Wants(p) : X(w[1]) \in Locked(q) \/ S(w[1]) \in Locked(q)
  BY DEF Waits
<1>2. X(o) \in Locked(q) \/ S(o) \in Locked(q)
  BY <1>1, Distinct DEF WantsOn
<1>3. tx[q] # Idle
  BY <1>2 DEF Locked, Steps
<1>4. PcOK(tx[q])
  BY <1>3 DEF TxsOK
<1> QED BY <1>2, <1>3, <1>4, LockedMeans DEF Has

\* One that wants the object latest in the order waits for nobody in the set.
LEMMA OrderIsEnough == TypeOK /\ TxsOK => NoDeadlock
<1>1. SUFFICES ASSUME TypeOK, TxsOK, NEW P \in SUBSET Proc, P # {}
               PROVE  \E p \in P : \A q \in P \ {p} : ~Waits(p, q)
  BY DEF NoDeadlock
<1>2. ASSUME NEW p \in P, Wants(p) = {} PROVE \A q \in P \ {p} : ~Waits(p, q)
  BY <1>2 DEF Waits
<1>3. ASSUME NEW p \in P, NEW o \in Object, WantsOn(p, o),
             \A q \in P : \A u \in Object : WantsOn(q, u) => Rank(u) <= Rank(o),
             \A q \in P : Wants(q) # {}
      PROVE  \A q \in P \ {p} : ~Waits(p, q)
  <2>1. SUFFICES ASSUME NEW q \in P, Waits(p, q) PROVE FALSE
    OBVIOUS
  <2>2. Has(tx[q], o)
    BY <1>1, <1>3, <2>1, WaitsMeans
  <2>3. PICK u \in Object : WantsOn(q, u) /\ \A v \in Object : Has(tx[q], v) => Rank(v) < Rank(u)
    BY <1>1, <1>3, LockOrder
  <2>4. Rank(o) < Rank(u) /\ Rank(u) <= Rank(o)
    BY <2>2, <2>3, <1>3
  <2> QED BY <2>4 DEF Rank
<1>4. CASE \A q \in P : Wants(q) # {}
  <2>1. \A q \in P : \E u \in Object : WantsOn(q, u)
    BY <1>1, <1>4, LockOrder
  <2>2. \E p \in P, o \in Object :
          WantsOn(p, o) /\ \A q \in P : \A u \in Object : WantsOn(q, u) => Rank(u) <= Rank(o)
    <3>1. CASE \E p \in P : WantsOn(p, "binding")
      BY <3>1 DEF Rank, Object
    <3>2. CASE /\ ~\E p \in P : WantsOn(p, "binding")
               /\ \E p \in P : WantsOn(p, "installation")
      BY <3>2 DEF Rank, Object
    <3>3. CASE /\ ~\E p \in P : WantsOn(p, "binding")
               /\ ~\E p \in P : WantsOn(p, "installation")
               /\ \E p \in P : WantsOn(p, "auth")
      BY <3>3 DEF Rank, Object
    <3>4. CASE \A p \in P : ~WantsOn(p, "binding") /\ ~WantsOn(p, "installation")
                            /\ ~WantsOn(p, "auth")
      BY <3>4, <2>1, <1>1 DEF Rank, Object
    <3> QED BY <3>1, <3>2, <3>3, <3>4
  <2> QED BY <2>2, <1>3, <1>4
<1> QED BY <1>2, <1>4

-----------------------------------------------------------------------------
(* What a step leaves alone. *)

TxOK(t) == t \in TxRow(t.input) /\ InputOK(t) /\ PcOK(t)
RowsOK ==
  /\ auth \in AuthRow \cup {None}
  /\ attempts \in [Attempt -> {"none", "pending", "spent"}]
  /\ installation \in InstallationRow \cup {None}
  /\ bindings \in Seq(BindingRow) /\ Len(bindings) <= MaxBindings
ProviderOK ==
  /\ app \in {"installed", "suspended", "deleted"} /\ selection \in Choice
  /\ granted \subseteq Repo /\ alive \subseteq Token
  /\ \A n \in notices : NoticeOK(n)
  /\ sent \in 0..MaxNotices

\* The invariant, by transaction and by row.
LEMMA InvParts ==
  ASSUME GitHubInv
  PROVE  /\ TypeOK /\ TxsOK /\ LocksOK /\ ActiveOK /\ HeardOK /\ RowsOK /\ ProviderOK
         /\ DOMAIN tx = Proc
         /\ \A p \in Proc : tx[p] # Idle => TxOK(tx[p]) /\ TxInv(tx[p])
<1>1. TypeOK /\ TxsOK /\ LocksOK /\ ActiveOK /\ HeardOK
  BY DEF GitHubInv
<1>2. RowsOK
  BY <1>1 DEF TypeOK, RowsOK
<1>3. ProviderOK
  BY <1>1 DEF TypeOK, ProviderOK
<1>4. \A p \in Proc : tx[p] # Idle => TxOK(tx[p]) /\ TxInv(tx[p])
  BY <1>1, TxFields DEF TxsOK, TxOK
<1>5. DOMAIN tx = Proc
  BY <1>1 DEF TypeOK
<1> QED BY <1>1, <1>2, <1>3, <1>4, <1>5

\* The fields of a transaction under way.
LEMMA TxOKFields ==
  ASSUME NEW t, TxOK(t)
  PROVE  /\ t.kind \in DOMAIN Program /\ t.pc \in 1..7
         /\ t.expiring \in BOOLEAN /\ t.authorization \in Nat
         /\ t.token \in Token \cup {None} /\ t.binding \in 0..MaxBindings
         /\ t.seen \in SUBSET Revision
         /\ t # Idle
<1>1. /\ t.kind \in DOMAIN Program /\ t.pc \in 1..7
      /\ t.expiring \in BOOLEAN /\ t.authorization \in Nat
      /\ t.token \in Token \cup {None} /\ t.binding \in 0..MaxBindings
      /\ t.seen \in SUBSET Revision
  BY DEF TxOK, TxRow
<1>2. Idle.kind \notin DOMAIN Program
  BY Programs DEF Idle
<1> QED BY <1>1, <1>2

\* The counter stays within the program and one step after it.
LEMMA WithinProgram ==
  ASSUME NEW t, TxOK(t)
  PROVE  t.pc <= Len(Program[t.kind]) + 1
<1>1. t.kind \in DOMAIN Program /\ PcOK(t)
  BY TxOKFields DEF TxOK
<1>2. CASE t.kind = "bind"
  <2>1. Program[t.kind] = BindProgram /\ Len(BindProgram) = 6
    BY <1>2, Programs DEF BindProgram
  <2> QED BY <2>1, <1>1, <1>2 DEF PcOK
<1>3. CASE t.kind = "read"
  <2>1. Program[t.kind] = ReadProgram /\ Len(ReadProgram) = 4
    BY <1>3, Programs DEF ReadProgram
  <2> QED BY <2>1, <1>1, <1>3 DEF PcOK
<1>4. CASE t.kind = "build"
  <2>1. Program[t.kind] = BuildProgram /\ Len(BuildProgram) = 3
    BY <1>4, Programs DEF BuildProgram
  <2> QED BY <2>1, <1>1, <1>4 DEF PcOK
<1>5. CASE t.kind = "resolve"
  <2>1. Program[t.kind] = ResolveProgram /\ Len(ResolveProgram) = 3
    BY <1>5, Programs DEF ResolveProgram
  <2> QED BY <2>1, <1>1, <1>5 DEF PcOK
<1>6. CASE t.kind = "admit"
  <2>1. Program[t.kind] = AdmitProgram /\ Len(AdmitProgram) = 4
    BY <1>6, Programs DEF AdmitProgram
  <2> QED BY <2>1, <1>1, <1>6 DEF PcOK
<1>7. CASE t.kind = "discover"
  <2>1. Program[t.kind] = DiscoverProgram /\ Len(DiscoverProgram) = 1
    BY <1>7, Programs DEF DiscoverProgram
  <2> QED BY <2>1, <1>1, <1>7 DEF PcOK
<1>8. CASE t.kind = "authorization"
  <2>1. Program[t.kind] = RevokeProgram /\ Len(RevokeProgram) = 3
    BY <1>8, Programs DEF RevokeProgram
  <2> QED BY <2>1, <1>1, <1>8 DEF PcOK
<1>9. CASE t.kind \in {"complete", "first"}
  <2>1. Program[t.kind] = CompleteProgram /\ Len(CompleteProgram) = 1
    BY <1>9, Programs DEF CompleteProgram, Hooks
  <2> QED BY <2>1, <1>1, <1>9 DEF PcOK
<1>10. CASE t.kind \in Hooks
  <2>1. Program[t.kind] = WebhookProgram /\ Len(WebhookProgram) = 2
    BY <1>10, Programs DEF WebhookProgram, Hooks
  <2> QED BY <2>1, <1>1, <1>10 DEF PcOK
<1> QED BY <1>1, <1>2, <1>3, <1>4, <1>5, <1>6, <1>7, <1>8, <1>9, <1>10, Programs DEF Hooks

\* The invariant from its parts.
LEMMA InvFromParts ==
  ASSUME RowsOK', ProviderOK', (DOMAIN tx = Proc)',
         \A p \in Proc : tx'[p] # Idle => TxOK(tx'[p]),
         \A p \in Proc : tx'[p] # Idle => TxInv(tx[p])',
         LocksOK', ActiveOK', HeardOK'
  PROVE  GitHubInv'
<1>1. ASSUME NEW p \in Proc, tx'[p] # Idle
      PROVE  /\ tx'[p] \in TxRow(tx'[p].input) /\ InputOK(tx'[p]) /\ PcOK(tx'[p])
             /\ tx'[p].pc <= Len(Steps(p)') + 1
  <2>1. TxOK(tx'[p])
    BY <1>1
  <2>2. tx'[p].pc <= Len(Program[tx'[p].kind]) + 1
    BY <2>1, WithinProgram
  <2> QED BY <2>1, <2>2, <1>1 DEF TxOK, Steps
<1>2. TypeOK'
  BY <1>1 DEF TypeOK, RowsOK, ProviderOK, TxRow, InputOK, NoticeOK
<1>3. TxsOK'
  BY <1>1 DEF TxsOK, PcOK
<1> QED BY <1>2, <1>3 DEF GitHubInv

\* A revision it lost is all that another step takes from a transaction.
LEMMA RevisedFields ==
  ASSUME NEW t, TxOK(t), NEW changed
  PROVE  /\ TxOK(Revised(t, changed))
         /\ Revised(t, changed).kind = t.kind /\ Revised(t, changed).pc = t.pc
         /\ Revised(t, changed).input = t.input
         /\ Revised(t, changed).expiring = t.expiring
         /\ Revised(t, changed).authorization = t.authorization
         /\ Revised(t, changed).token = t.token
         /\ Revised(t, changed).binding = t.binding
         /\ Revised(t, changed).seen = t.seen \ changed
         /\ Revised(t, {}) = t
<1>1. t # Idle /\ t \in TxRow(t.input) /\ t.seen \in SUBSET Revision
  BY TxOKFields DEF TxOK
<1> PICK u : u = [t EXCEPT !.seen = t.seen \ changed]
  OBVIOUS
<1>2. u = Revised(t, changed)
  BY <1>1 DEF Revised
<1>3. t.seen \ changed \in SUBSET Revision
  BY <1>1
<1>4. /\ u \in TxRow(t.input) /\ u.kind = t.kind /\ u.pc = t.pc /\ u.input = t.input
      /\ u.expiring = t.expiring /\ u.authorization = t.authorization
      /\ u.token = t.token /\ u.binding = t.binding /\ u.seen = t.seen \ changed
  BY <1>1, <1>3 DEF TxRow
<1>5. TxOK(u)
  BY <1>4 DEF TxOK, InputOK, PcOK
<1>6. Revised(t, {}) = t
  <2>1. [t EXCEPT !.seen = t.seen] = t
    BY <1>1 DEF TxRow
  <2>2. t.seen \ {} = t.seen
    OBVIOUS
  <2> QED BY <2>1, <2>2, <1>1 DEF Revised
<1> QED BY <1>2, <1>4, <1>5, <1>6

\* What a step must leave to a transaction according to its locks.
Leaves(t, changed) ==
  /\ Has(t, "auth") => auth' = auth
  /\ auth # None => auth' # None /\ auth'.user = auth.user
  /\ Has(t, "installation") =>
       /\ installation' = installation
       /\ \A b \in DOMAIN bindings : bindings[b].status \in {"active", "disabled"} =>
                                       bindings'[b].status \in {"active", "disabled"}
  /\ installation # None => installation' # None
  /\ DOMAIN bindings \subseteq DOMAIN bindings'
  /\ t.kind = "bind" => Len(bindings') < MaxBindings
  /\ Has(t, "binding") =>
       /\ \A b \in DOMAIN bindings : bindings'[b].status = bindings[b].status
       /\ Binding(t.binding) \notin changed
  /\ Has(t, "project") => Project \notin changed

\* A bind that has asked GitHub also needs the notices of what is withdrawn.
Spared(t, changed) ==
  /\ Leaves(t, changed)
  /\ t.kind = "bind" /\ t.pc >= 6 =>
       \A repo : repo = t.input.repo /\ Heard(repo) => Heard(repo)'

\* What a transaction found holds on when its locks are respected.
LEMMA TxStays ==
  ASSUME NEW t, TxOK(t), TxInv(t), NEW changed, Spared(t, changed),
         NEW u, u = Revised(t, changed)
  PROVE  TxInv(u)'
<1>1. /\ u.kind = t.kind /\ u.pc = t.pc /\ u.input = t.input
      /\ u.authorization = t.authorization /\ u.token = t.token
      /\ u.binding = t.binding /\ u.seen = t.seen \ changed
  BY RevisedFields
<1>2. t.kind \in DOMAIN Program /\ t.pc \in 1..7
  BY TxOKFields
<1>3. CASE t.kind \in {"read", "build"}
  <2>1. /\ t.pc >= 2 => Has(t, "project")
        /\ t.pc >= 3 => Has(t, "auth")
        /\ t.pc >= 4 => Has(t, "installation")
        /\ t.pc >= 5 => Has(t, "binding")
    <3>1. t.kind = "build" => t.pc \in 1..4
      BY DEF TxOK, PcOK
    <3> QED BY <1>2, <1>3, <3>1 DEF Has, HasX, HasS
  <2>2. ReaderInv(t)
    BY <1>3 DEF TxInv
  <2>3. t.pc >= 2 => Project \in u.seen
    BY <1>1, <1>2, <2>1, <2>2 DEF ReaderInv, Spared, Leaves
  <2>4. t.pc >= 3 => auth'.status = "active" /\ auth'.revision = t.authorization
    BY <1>2, <2>1, <2>2 DEF ReaderInv, Spared, Leaves
  <2>5. t.pc >= 4 => installation'.status = "active"
    BY <1>2, <2>1, <2>2 DEF ReaderInv, Spared, Leaves
  <2>6. t.binding \in DOMAIN bindings /\ t.binding \in DOMAIN bindings'
    BY <2>2 DEF ReaderInv, Spared, Leaves
  <2>7. t.kind = "build" /\ t.pc >= 4 => bindings'[t.binding].status \in {"active", "disabled"}
    BY <1>2, <2>1, <2>2, <2>6 DEF ReaderInv, Spared, Leaves
  <2>8. t.pc >= 5 => bindings'[t.binding].status = "active" /\ Binding(t.binding) \in u.seen
    BY <1>1, <1>2, <2>1, <2>2, <2>6 DEF ReaderInv, Spared, Leaves
  <2>9. ReaderInv(u)'
    BY <1>1, <2>3, <2>4, <2>5, <2>6, <2>7, <2>8 DEF ReaderInv
  <2> QED BY <2>9, <1>1, <1>3 DEF TxInv
<1>4. CASE t.kind = "resolve"
  BY <1>1, <1>4 DEF TxInv, Spared, Leaves
<1>5. CASE t.kind = "admit"
  <2>1. /\ t.pc >= 3 => Has(t, "auth")
        /\ t.pc >= 4 => Has(t, "installation")
        /\ t.pc >= 5 => Has(t, "binding")
    BY <1>2, <1>5 DEF Has, HasX, HasS
  <2>2. AdmitInv(t)
    BY <1>5 DEF TxInv
  <2>3. t.pc >= 3 => auth'.status = "active"
    BY <1>2, <2>1, <2>2 DEF AdmitInv, Spared, Leaves
  <2>4. t.pc >= 4 => installation'.status = "active" /\ t.binding \in DOMAIN bindings'
    BY <1>2, <2>1, <2>2 DEF AdmitInv, Spared, Leaves
  <2>5. t.pc >= 5 => bindings'[t.binding].status = "active"
    BY <1>2, <2>1, <2>2 DEF AdmitInv, Spared, Leaves
  <2>6. AdmitInv(u)'
    BY <1>1, <2>3, <2>4, <2>5 DEF AdmitInv
  <2> QED BY <2>6, <1>1, <1>5 DEF TxInv
<1>6. CASE t.kind = "bind"
  <2>1. t.pc >= 4 => Has(t, "auth")
    BY <1>2, <1>6 DEF Has, HasX, HasS
  <2>2. BindInv(t)
    BY <1>6 DEF TxInv
  <2>3. Len(bindings') < MaxBindings
    BY <1>6 DEF Spared, Leaves
  <2>4. t.pc >= 3 => auth' # None /\ t.token.user = auth'.user
    BY <2>2 DEF BindInv, Spared, Leaves
  <2>5. t.pc >= 4 => auth'.status = "active"
    BY <1>2, <2>1, <2>2 DEF BindInv, Spared, Leaves
  <2>6. t.pc >= 6 => Heard(t.input.repo)'
    <3> PICK repo : repo = t.input.repo
      OBVIOUS
    <3>1. t.pc >= 6 => Heard(repo)
      BY <2>2 DEF BindInv
    <3>2. t.pc >= 6 => Heard(repo)'
      BY <3>1, <1>6 DEF Spared
    <3> QED BY <3>2
  <2>7. t.pc >= 6 => Heard(u.input.repo)'
    BY <1>1, <2>6
  <2>8. BindInv(u)'
    BY <1>1, <2>3, <2>4, <2>5, <2>7 DEF BindInv
  <2> QED BY <2>8, <1>1, <1>6 DEF TxInv
<1>7. CASE t.kind \notin {"read", "build", "resolve", "admit", "bind"}
  BY <1>1, <1>7 DEF TxInv, Spared, Leaves
<1> QED BY <1>3, <1>4, <1>5, <1>6, <1>7

\* A step that changes rows: every other transaction goes on, with fewer
\* revisions that are still the ones it read.
Goes(changed) ==
  /\ DOMAIN tx' = Proc
  /\ \A q \in Proc : tx'[q] # Idle =>
       tx[q] # Idle /\ tx'[q] = Revised(tx[q], changed) /\ Spared(tx[q], changed)

\* The invariant holds on when every other transaction goes on.
LEMMA RowStep ==
  ASSUME GitHubInv, NEW changed, Goes(changed), RowsOK', ProviderOK', ActiveOK', HeardOK'
  PROVE  GitHubInv'
<1>1. \A p \in Proc : tx[p] # Idle => TxOK(tx[p]) /\ TxInv(tx[p])
  BY InvParts
<1>2. ASSUME NEW p \in Proc, tx'[p] # Idle
      PROVE  /\ TxOK(tx'[p]) /\ TxInv(tx[p])' /\ tx[p] # Idle
             /\ tx'[p].kind = tx[p].kind /\ tx'[p].pc = tx[p].pc
  <2> PICK t : t = tx[p]
    OBVIOUS
  <2> PICK u : u = tx'[p]
    OBVIOUS
  <2>1. TxOK(t) /\ TxInv(t) /\ u = Revised(t, changed) /\ Spared(t, changed)
    BY <1>1, <1>2 DEF Goes
  <2>2. TxOK(u) /\ u.kind = t.kind /\ u.pc = t.pc
    BY <2>1, RevisedFields
  <2>3. TxInv(u)'
    BY <2>1, TxStays
  <2>4. TxInv(tx[p])'
    BY <2>3 DEF TxInv, ReaderInv, AdmitInv, BindInv, Heard, Pending
  <2> QED BY <2>2, <2>4, <1>2 DEF Goes
<1>3. LocksOK'
  <2>1. SUFFICES ASSUME NEW p \in Proc, NEW q \in Proc, p # q, tx'[p] # Idle, tx'[q] # Idle
                 PROVE  Compatible(tx'[p], tx'[q])
    BY DEF LocksOK, Compatible, Has, HasX, HasS
  <2>2. Compatible(tx[p], tx[q])
    BY <1>2, <2>1 DEF GitHubInv, LocksOK
  <2>3. /\ tx'[p].kind = tx[p].kind /\ tx'[p].pc = tx[p].pc
        /\ tx'[q].kind = tx[q].kind /\ tx'[q].pc = tx[q].pc
    BY <1>2, <2>1
  <2> QED BY <2>2, <2>3 DEF Compatible, Has, HasX, HasS
<1>4. DOMAIN tx' = Proc
  BY DEF Goes
<1>5. \A p \in Proc : tx'[p] # Idle => TxOK(tx'[p])
  BY <1>2
<1>6. \A p \in Proc : tx'[p] # Idle => TxInv(tx[p])'
  BY <1>2
<1> QED BY <1>3, <1>4, <1>5, <1>6, InvFromParts

\* A step of one transaction that changes no row; GitHub may give a token.
LEMMA QuietStep ==
  ASSUME GitHubInv, NEW p \in Proc, NEW t,
         tx' = [tx EXCEPT ![p] = t],
         UNCHANGED <<auth, installation, bindings, app, granted, selection, sent, notices>>,
         attempts' = attempts, alive \subseteq alive', alive' \subseteq Token,
         \/ t = Idle
         \/ /\ TxOK(t) /\ TxInv(t)
            /\ \A q \in Proc : q # p /\ tx[q] # Idle => Compatible(t, tx[q])
  PROVE  GitHubInv'
<1>1. /\ TypeOK /\ LocksOK /\ ActiveOK /\ HeardOK /\ RowsOK /\ ProviderOK /\ DOMAIN tx = Proc
      /\ \A q \in Proc : tx[q] # Idle => TxOK(tx[q]) /\ TxInv(tx[q])
  BY InvParts
<1>2. /\ DOMAIN tx' = Proc /\ tx'[p] = t
      /\ \A q \in Proc : q # p => tx'[q] = tx[q]
  BY <1>1
<1>3. RowsOK' /\ ProviderOK'
  BY <1>1 DEF RowsOK, ProviderOK
<1>4. ASSUME NEW repo, Heard(repo) PROVE Heard(repo)'
  BY <1>4 DEF Heard, Pending
<1>5. ASSUME NEW u, TxInv(u) PROVE TxInv(u)'
  <2>1. /\ ReaderInv(u) => ReaderInv(u)'
        /\ AdmitInv(u) => AdmitInv(u)'
    BY DEF ReaderInv, AdmitInv
  <2>2. BindInv(u) => BindInv(u)'
    BY <1>4 DEF BindInv
  <2> QED BY <2>1, <2>2, <1>5 DEF TxInv
<1>6. ASSUME NEW q \in Proc, tx'[q] # Idle
      PROVE  TxOK(tx'[q]) /\ TxInv(tx[q])'
  <2> PICK u : u = tx'[q]
    OBVIOUS
  <2>1. TxOK(u) /\ TxInv(u)
    BY <1>1, <1>2, <1>6
  <2>2. TxInv(u)'
    BY <2>1, <1>5
  <2>3. TxInv(tx[q])'
    BY <2>2 DEF TxInv, ReaderInv, AdmitInv, BindInv, Heard, Pending
  <2> QED BY <2>1, <2>3
<1>7. LocksOK'
  <2>1. SUFFICES ASSUME NEW r \in Proc, NEW q \in Proc, r # q, tx'[r] # Idle, tx'[q] # Idle
                 PROVE  Compatible(tx'[r], tx'[q])
    BY DEF LocksOK, Compatible, Has, HasX, HasS
  <2>2. CASE r # p /\ q # p
    BY <2>1, <2>2, <1>1, <1>2 DEF LocksOK
  <2>3. CASE r = p
    BY <2>1, <2>3, <1>2
  <2>4. CASE q = p
    <3>1. Compatible(t, tx[r])
      BY <2>1, <2>4, <1>2
    <3>2. Compatible(tx[r], t)
      BY <3>1 DEF Compatible
    <3> QED BY <3>2, <2>1, <2>4, <1>2
  <2> QED BY <2>2, <2>3, <2>4
<1>8. ActiveOK'
  BY <1>1 DEF ActiveOK, Active
<1>9. HeardOK'
  <2>1. SUFFICES ASSUME NEW b \in Active PROVE Heard(bindings[b].repo)'
    BY DEF HeardOK, Active
  <2> PICK repo : repo = bindings[b].repo
    OBVIOUS
  <2>2. Heard(repo)'
    BY <1>1, <1>4 DEF HeardOK
  <2> QED BY <2>2 DEF Heard, Pending
<1> QED BY <1>2, <1>3, <1>6, <1>7, <1>8, <1>9, InvFromParts

\* The end of a transaction, and a step that is none of a transaction.
LEMMA GoesOn ==
  ASSUME GitHubInv, NEW changed,
         \/ changed = {} /\ (tx' = tx \/ \E p \in Proc : End(p))
         \/ \E p \in Proc : Commit(p, changed)
         \/ Revise(changed),
         \A q \in Proc : tx[q] # Idle /\ tx'[q] # Idle => Spared(tx[q], changed)
  PROVE  Goes(changed)
<1>1. DOMAIN tx = Proc /\ \A q \in Proc : tx[q] # Idle => TxOK(tx[q])
  BY InvParts
<1>2. DOMAIN tx' = Proc
  BY <1>1 DEF End, Commit, Revise
<1>3. ASSUME NEW q \in Proc, tx'[q] # Idle
      PROVE  tx[q] # Idle /\ tx'[q] = Revised(tx[q], changed)
  <2>1. CASE changed = {} /\ (tx' = tx \/ \E p \in Proc : End(p))
    <3>1. tx'[q] = tx[q]
      BY <2>1, <1>1, <1>3 DEF End
    <3> QED BY <3>1, <2>1, <1>1, <1>3, RevisedFields
  <2>2. CASE \E p \in Proc : Commit(p, changed)
    BY <2>2, <1>3 DEF Commit, Revised
  <2>3. CASE Revise(changed)
    BY <2>3, <1>3 DEF Revise, Revised
  <2> QED BY <2>1, <2>2, <2>3
<1> QED BY <1>2, <1>3 DEF Goes

-----------------------------------------------------------------------------
(* Steps of one transaction. *)

\* A lock that is free is compatible with every other transaction.
LEMMA TakesLock ==
  ASSUME NEW t, NEW u, NEW other, Compatible(t, other),
         \A o \in Object : HasX(u, o) => HasX(t, o) \/ ~Has(other, o),
         \A o \in Object : HasS(u, o) => HasS(t, o) \/ ~HasX(other, o)
  PROVE  Compatible(u, other)
BY DEF Compatible, Has

NewTx(t, kind, pc, input) ==
  /\ t \in TxRow(input) /\ t.kind = kind /\ t.pc = pc /\ t.input = input
  /\ t.expiring = FALSE /\ t.authorization = 0 /\ t.token = None /\ t.binding = 0
  /\ t.seen = {}

\* A new transaction has the fields it is started with.
LEMMA StartFields ==
  ASSUME NEW kind, NEW pc, NEW input, kind \in DOMAIN Program, pc \in 1..7,
         NEW t, t = Start(kind, pc, input)
  PROVE  NewTx(t, kind, pc, input)
<1>1. /\ t.kind = kind /\ t.pc = pc /\ t.input = input
      /\ t.expiring = FALSE /\ t.authorization = 0 /\ t.token = None /\ t.binding = 0
      /\ t.seen = {}
  BY DEF Start
<1>2. 0 \in 0..MaxBindings
  BY BoundsAssumption
<1>3. t \in TxRow(input)
  BY <1>2 DEF Start, TxRow
<1> QED BY <1>1, <1>3 DEF NewTx

\* It starts where nothing it holds is held by another.
LEMMA StartStep ==
  ASSUME GitHubInv, NEW p \in Proc, NEW t, Begin(p, t),
         UNCHANGED <<auth, attempts, installation, bindings, app, granted, selection, sent,
                     notices>>,
         alive \subseteq alive', alive' \subseteq Token,
         TxOK(t), TxInv(t),
         \A o \in Object : Has(t, o) => Unlocked(o)
  PROVE  GitHubInv'
<1>1. TypeOK /\ TxsOK /\ tx' = [tx EXCEPT ![p] = t]
  BY InvParts DEF Begin
<1>2. ASSUME NEW q \in Proc, q # p, tx[q] # Idle PROVE Compatible(t, tx[q])
  <2>1. \A o \in Object : Has(t, o) => ~Has(tx[q], o)
    BY <1>1, <1>2, UnlockedMeans
  <2> QED BY <2>1 DEF Compatible, Has
<1> QED BY <1>1, <1>2, QuietStep

\* A transaction that ends without a change.
LEMMA EndStep ==
  ASSUME GitHubInv, NEW p \in Proc, End(p), UNCHANGED <<rows, provider, notices>>
  PROVE  GitHubInv'
<1>1. alive' \subseteq Token
  BY InvParts DEF ProviderOK, provider
<1> QED BY <1>1, QuietStep DEF End, rows, provider

\* The transaction after a step of its program.
Follows(t, u) ==
  /\ u \in TxRow(u.input) /\ InputOK(u) /\ u.kind = t.kind /\ u.pc = t.pc + 1
  /\ u.expiring = t.expiring

\* The counter moves and nothing else.
LEMMA Advanced ==
  ASSUME NEW t, TxOK(t), t.pc <= 6, NEW u, u = [t EXCEPT !.pc = @ + 1]
  PROVE  /\ Follows(t, u) /\ u.input = t.input
         /\ u.authorization = t.authorization /\ u.token = t.token
         /\ u.binding = t.binding /\ u.seen = t.seen
<1>1. t \in TxRow(t.input) /\ t.pc \in 1..7
  BY TxOKFields DEF TxOK
<1>2. t.pc + 1 \in 1..7
  BY <1>1
<1>3. /\ u \in TxRow(t.input) /\ u.input = t.input /\ u.kind = t.kind /\ u.pc = t.pc + 1
      /\ u.expiring = t.expiring /\ u.authorization = t.authorization /\ u.token = t.token
      /\ u.binding = t.binding /\ u.seen = t.seen
  BY <1>1, <1>2 DEF TxRow
<1>4. InputOK(u)
  BY <1>3 DEF TxOK, InputOK
<1> QED BY <1>3, <1>4 DEF Follows

\* A step of a program takes the lock it is at and changes no row.
LEMMA PassStep ==
  ASSUME GitHubInv, NEW p \in Proc, NEW w, At(p, w),
         NEW o \in Object, w \in {Live, Ask} \/ (w \in {X(o), S(o)} /\ Free(p)),
         w # X("binding"), tx[p].kind \notin {"discover", "complete", "first"},
         w = Live => ~tx[p].expiring,
         NEW u, Follows(tx[p], u), TxInv(u), tx' = [tx EXCEPT ![p] = u],
         UNCHANGED <<rows, provider, notices>>
  PROVE  GitHubInv'
<1>1. TypeOK /\ TxsOK /\ LocksOK /\ alive \subseteq Token
  BY InvParts DEF ProviderOK
<1>2. /\ tx[p] # Idle /\ PcOK(tx[p]) /\ AtMeans(tx[p], w) /\ ~Holding(p)
      /\ Steps(p)[tx[p].pc] = w
  BY <1>1, AtStep
<1> PICK t : t = tx[p]
  OBVIOUS
<1>3. /\ TxOK(t) /\ t.kind \in DOMAIN Program /\ t.pc \in 1..7 /\ t.expiring \in BOOLEAN
  BY <1>2, InvParts, TxOKFields
<1>4. w \in {Live, Ask} \cup {X(v) : v \in Object} \cup {S(v) : v \in Object}
  OBVIOUS
<1>5. ~t.expiring
  <2>1. CASE w = Live
    BY <2>1
  <2>2. CASE w # Live
    <3>1. CASE t.kind = "bind"
      <4>1. t.pc # 2
        BY <2>2, <3>1, <1>1, <1>2, Programs, Distinct DEF Steps, BindProgram
      <4> QED BY <4>1, <3>1, <1>2 DEF PcOK
    <3> QED BY <3>1, <1>2 DEF PcOK
  <2> QED BY <2>1, <2>2
<1>6. /\ PcOK(u)
      /\ \A v \in Object : HasX(u, v) => HasX(t, v) \/ w = X(v)
      /\ \A v \in Object : HasS(u, v) => HasS(t, v) \/ w = S(v)
  <2>1. u.kind = t.kind /\ u.pc = t.pc + 1 /\ u.expiring = t.expiring
    BY DEF Follows
  <2> USE DEF AtMeans, PcOK, HasX, HasS, Hooks, Object
  <2>2. CASE w = Live
    BY <2>1, <2>2, <1>2, <1>3, <1>5
  <2>3. CASE w = Ask
    BY <2>1, <2>3, <1>2, <1>3, <1>5
  <2>4. CASE w = S("project")
    BY <2>1, <2>4, <1>2, <1>3, <1>5
  <2>5. CASE w = S("auth")
    BY <2>1, <2>5, <1>2, <1>3, <1>5
  <2>6. CASE w = X("auth")
    BY <2>1, <2>6, <1>2, <1>3, <1>5
  <2>7. CASE w = S("installation")
    BY <2>1, <2>7, <1>2, <1>3, <1>5
  <2>8. CASE w = X("installation")
    BY <2>1, <2>8, <1>2, <1>3, <1>5
  <2>9. CASE w = S("binding")
    BY <2>1, <2>9, <1>2, <1>3, <1>5
  <2> QED BY <2>2, <2>3, <2>4, <2>5, <2>6, <2>7, <2>8, <2>9, <1>2, <1>4
<1>7. TxOK(u)
  BY <1>6 DEF TxOK, Follows
<1>8. ASSUME NEW q \in Proc, q # p, tx[q] # Idle PROVE Compatible(u, tx[q])
  <2>1. Compatible(t, tx[q])
    BY <1>1, <1>2, <1>8 DEF LocksOK
  <2>2. ASSUME NEW v \in Object PROVE /\ w = X(v) => ~Has(tx[q], v)
                                      /\ w = S(v) => ~HasX(tx[q], v)
    <3>1. w = X(v) \/ w = S(v) => Free(p)
      BY Distinct
    <3> QED BY <3>1, <1>1, <1>5, <1>8, FreeAt
  <2> QED BY <2>1, <2>2, <1>6, TakesLock
<1>9. UNCHANGED <<auth, attempts, installation, bindings, app, granted, selection, sent,
                  notices, alive>>
  BY DEF rows, provider
<1> QED BY <1>1, <1>7, <1>8, <1>9, QuietStep

-----------------------------------------------------------------------------
(* The actions that change no row. *)

\* Nothing is connected at first.
LEMMA Initially == Init => GitHubInv
<1> SUFFICES ASSUME Init PROVE GitHubInv
  OBVIOUS
<1>1. \A p \in Proc : tx[p] = Idle
  BY DEF Init
<1>2. bindings = <<>> /\ Len(bindings) = 0 /\ DOMAIN bindings = {}
  BY DEF Init
<1>3. Active = {}
  BY <1>2 DEF Active
<1>4. TypeOK
  <2>1. bindings \in Seq(BindingRow) /\ Len(bindings) <= MaxBindings
    BY <1>2, BoundsAssumption
  <2>2. DOMAIN tx = Proc /\ attempts \in [Attempt -> {"none", "pending", "spent"}]
    BY DEF Init
  <2>3. auth \in AuthRow \cup {None} /\ installation \in InstallationRow \cup {None}
    BY DEF Init
  <2>4. /\ app \in {"installed", "suspended", "deleted"} /\ selection \in Choice
        /\ granted \subseteq Repo /\ alive \subseteq Token
        /\ \A n \in notices : NoticeOK(n)
    BY DEF Init, Choice
  <2>5. sent \in 0..MaxNotices
    BY BoundsAssumption DEF Init
  <2> QED BY <1>1, <2>1, <2>2, <2>3, <2>4, <2>5 DEF TypeOK
<1> QED BY <1>1, <1>3, <1>4 DEF GitHubInv, TxsOK, LocksOK, ActiveOK, HeardOK

\* What the rows and what GitHub sends can hold.
LEMMA AuthFields ==
  ASSUME GitHubInv, auth # None
  PROVE  /\ auth \in AuthRow /\ auth.status \in {"active", "expired", "revoked"}
         /\ auth.revision \in Nat /\ auth.before \subseteq Attempt /\ auth.user \in User
         /\ auth.token \in Token \cup {None}
<1>1. auth \in AuthRow
  BY InvParts DEF RowsOK
<1> QED BY <1>1 DEF AuthRow

\* A row of the bindings.
LEMMA BindingFields ==
  ASSUME GitHubInv, NEW b \in DOMAIN bindings
  PROVE  /\ b \in 1..MaxBindings /\ b \in 0..MaxBindings /\ Binding(b) \in Revision
         /\ bindings[b] \in BindingRow /\ bindings[b].repo \in Repo
         /\ bindings[b].status \in BindingStatus /\ bindings[b].sources \subseteq Source
<1>1. bindings \in Seq(BindingRow) /\ Len(bindings) <= MaxBindings /\ Len(bindings) \in Nat
  BY InvParts DEF RowsOK
<1>2. b \in 1..Len(bindings)
  BY <1>1
<1>3. b \in 1..MaxBindings /\ b \in 0..MaxBindings
  BY <1>1, <1>2, BoundsAssumption
<1>4. bindings[b] \in BindingRow
  BY <1>1, <1>2
<1> QED BY <1>3, <1>4 DEF BindingRow, Revision

\* bind_source locks the project first.
LEMMA StartBindStep ==
  ASSUME GitHubInv, NEW p \in Proc, NEW r \in Repo, StartBind(p, r) PROVE GitHubInv'
<1> PICK input : input = [repo |-> r, selection |-> "all"]
  OBVIOUS
<1> PICK t : t = Start("bind", 2, input)
  OBVIOUS
<1>1. /\ t \in TxRow(input) /\ t.kind = "bind" /\ t.pc = 2 /\ t.input = input
      /\ t.expiring = FALSE
  <2>1. "bind" \in DOMAIN Program /\ 2 \in 1..7
    BY Programs
  <2>2. NewTx(t, "bind", 2, input)
    BY <2>1, StartFields, Zenon
  <2> QED BY <2>2 DEF NewTx
<1>2. TxOK(t)
  <2>1. t.input.repo \in Repo /\ t.input.selection \in Choice
    BY <1>1 DEF Choice
  <2> QED BY <1>1, <2>1 DEF TxOK, InputOK, PcOK, Webhook, Hooks
<1>3. TxInv(t)
  <2>1. Len(bindings) < MaxBindings
    BY InvParts, BoundsAssumption DEF StartBind, Request, Over, RowsOK
  <2> QED BY <1>1, <2>1 DEF TxInv, BindInv
<1>4. \A o \in Object : Has(t, o) => Unlocked(o)
  BY <1>1 DEF StartBind, Has, HasX, HasS, Object, Hooks
<1>5. Begin(p, t) /\ UNCHANGED <<rows, provider, notices>>
  BY DEF StartBind, Request
<1>6. alive' \subseteq Token
  BY <1>5, InvParts DEF provider, ProviderOK
<1> QED BY <1>2, <1>3, <1>4, <1>5, <1>6, StartStep DEF rows, provider

\* Admission locks the project first.
LEMMA StartAdmissionStep ==
  ASSUME GitHubInv, NEW p \in Proc, StartAdmission(p) PROVE GitHubInv'
<1> PICK t : t = Start("admit", 2, None)
  OBVIOUS
<1>1. /\ t \in TxRow(None) /\ t.kind = "admit" /\ t.pc = 2 /\ t.input = None
      /\ t.expiring = FALSE
  <2>1. "admit" \in DOMAIN Program /\ 2 \in 1..7
    BY Programs
  <2>2. NewTx(t, "admit", 2, None)
    BY <2>1, StartFields, Zenon
  <2> QED BY <2>2 DEF NewTx
<1>2. TxOK(t)
  BY <1>1 DEF TxOK, InputOK, PcOK, Webhook, Hooks
<1>3. TxInv(t)
  BY <1>1 DEF TxInv, AdmitInv
<1>4. \A o \in Object : Has(t, o) => Unlocked(o)
  BY <1>1 DEF StartAdmission, Has, HasX, HasS, Object, Hooks
<1>5. Begin(p, t) /\ UNCHANGED <<rows, provider, notices>>
  BY DEF StartAdmission, Request
<1>6. alive' \subseteq Token
  BY <1>5, InvParts DEF provider, ProviderOK
<1> QED BY <1>2, <1>3, <1>4, <1>5, <1>6, StartStep DEF rows, provider

\* The readers and resolve_source read before they lock.
LEMMA StartWithSourceStep ==
  ASSUME GitHubInv, NEW p \in Proc, NEW kind \in {"read", "build", "resolve"},
         StartWithSource(p, kind)
  PROVE  GitHubInv'
<1> PICK s : s = Start(kind, 1, None)
  OBVIOUS
<1>1. PICK b \in Active :
        Begin(p, [s EXCEPT !.binding = b,
                           !.seen = IF kind = "resolve" THEN {} ELSE {Project, Binding(b)},
                           !.authorization = auth.revision, !.token = auth.token])
  BY DEF StartWithSource, Request
<1> PICK seen : seen = IF kind = "resolve" THEN {} ELSE {Project, Binding(b)}
  OBVIOUS
<1> PICK t : t = [s EXCEPT !.binding = b, !.seen = seen,
                           !.authorization = auth.revision, !.token = auth.token]
  OBVIOUS
<1>2. /\ s \in TxRow(None) /\ s.kind = kind /\ s.pc = 1 /\ s.input = None
      /\ s.expiring = FALSE
  <2>1. kind \in DOMAIN Program /\ 1 \in 1..7
    BY Programs
  <2>2. NewTx(s, kind, 1, None)
    BY <2>1, StartFields, Zenon
  <2> QED BY <2>2 DEF NewTx
<1>3. auth # None
  BY DEF StartWithSource, Usable, None
<1>4. b \in 0..MaxBindings /\ seen \in SUBSET Revision /\ b \in DOMAIN bindings
  BY BindingFields DEF Active, Revision
<1>5. auth.revision \in Nat /\ auth.token \in Token \cup {None}
  BY <1>3, AuthFields
<1>6. /\ t \in TxRow(None) /\ t.kind = kind /\ t.pc = 1 /\ t.input = None
      /\ t.expiring = FALSE /\ t.binding = b
  BY <1>2, <1>4, <1>5 DEF TxRow
<1>7. TxOK(t)
  BY <1>6 DEF TxOK, InputOK, PcOK, Webhook, Hooks
<1>8. TxInv(t)
  BY <1>4, <1>6 DEF TxInv, ReaderInv
<1>9. \A o \in Object : Has(t, o) => Unlocked(o)
  BY <1>6 DEF Has, HasX, HasS, Object, Hooks
<1>10. Begin(p, t) /\ UNCHANGED <<rows, provider, notices>>
  BY <1>1 DEF StartWithSource, Request
<1>11. alive' \subseteq Token
  BY <1>10, InvParts DEF provider, ProviderOK
<1> QED BY <1>7, <1>8, <1>9, <1>10, <1>11, StartStep DEF rows, provider

\* list_installations asks GitHub before it locks.
LEMMA StartDiscoveryStep ==
  ASSUME GitHubInv, NEW p \in Proc, StartDiscovery(p) PROVE GitHubInv'
<1> PICK input : input = [app |-> app, selection |-> selection]
  OBVIOUS
<1> PICK t : t = Start("discover", 1, input)
  OBVIOUS
<1>1. /\ t \in TxRow(input) /\ t.kind = "discover" /\ t.pc = 1 /\ t.input = input
      /\ t.expiring = FALSE
  <2>1. "discover" \in DOMAIN Program /\ 1 \in 1..7
    BY Programs
  <2>2. NewTx(t, "discover", 1, input)
    BY <2>1, StartFields, Zenon
  <2> QED BY <2>2 DEF NewTx
<1>2. input.selection \in Choice
  BY InvParts DEF ProviderOK
<1>3. TxOK(t)
  BY <1>1, <1>2 DEF TxOK, InputOK, PcOK, Webhook, Hooks
<1>4. TxInv(t)
  BY <1>1 DEF TxInv
<1>5. \A o \in Object : Has(t, o) => Unlocked(o)
  BY <1>1 DEF Has, HasX, HasS, Object, Hooks
<1>6. Begin(p, t) /\ UNCHANGED <<rows, provider, notices>>
  BY DEF StartDiscovery, Request
<1>7. alive' \subseteq Token
  BY <1>6, InvParts DEF provider, ProviderOK
<1> QED BY <1>3, <1>4, <1>5, <1>6, <1>7, StartStep DEF rows, provider

\* A lapsed token is found before anything is locked.
LEMMA StartLapsedStep ==
  ASSUME GitHubInv, NEW p \in Proc, StartLapsed(p) PROVE GitHubInv'
<1> PICK s : s = Start("discover", 1, None)
  OBVIOUS
<1> PICK t : t = [s EXCEPT !.expiring = TRUE]
  OBVIOUS
<1>1. s \in TxRow(None) /\ s.kind = "discover" /\ s.pc = 1 /\ s.input = None
  <2>1. "discover" \in DOMAIN Program /\ 1 \in 1..7
    BY Programs
  <2>2. NewTx(s, "discover", 1, None)
    BY <2>1, StartFields, Zenon
  <2> QED BY <2>2 DEF NewTx
<1>2. /\ t \in TxRow(None) /\ t.kind = "discover" /\ t.pc = 1 /\ t.input = None
      /\ t.expiring = TRUE
  BY <1>1 DEF TxRow
<1>3. TxOK(t)
  BY <1>2 DEF TxOK, InputOK, PcOK, Webhook, Hooks
<1>4. TxInv(t)
  BY <1>2 DEF TxInv
<1>5. \A o \in Object : Has(t, o) => Unlocked(o)
  BY <1>2 DEF Has, HasX, HasS, Object, Hooks
<1>6. Begin(p, t) /\ UNCHANGED <<rows, provider, notices>>
  BY DEF StartLapsed, Request
<1>7. alive' \subseteq Token
  BY <1>6, InvParts DEF provider, ProviderOK
<1> QED BY <1>3, <1>4, <1>5, <1>6, <1>7, StartStep DEF rows, provider

\* The webhook of a revoked authorization starts without a lock.
LEMMA StartRevocationStep ==
  ASSUME GitHubInv, NEW p \in Proc, NEW n \in notices, StartRevocation(p, n) PROVE GitHubInv'
<1> PICK input : input = [notice |-> n, before |-> Started]
  OBVIOUS
<1> PICK t : t = Start("authorization", 1, input)
  OBVIOUS
<1>1. /\ t \in TxRow(input) /\ t.kind = "authorization" /\ t.pc = 1 /\ t.input = input
      /\ t.expiring = FALSE
  <2>1. "authorization" \in DOMAIN Program /\ 1 \in 1..7
    BY Programs
  <2>2. NewTx(t, "authorization", 1, input)
    BY <2>1, StartFields, Zenon
  <2> QED BY <2>2 DEF NewTx
<1>2. NoticeOK(n) /\ n.event = "authorization" /\ Started \subseteq Attempt
  BY InvParts DEF ProviderOK, StartRevocation, Started
<1>3. TxOK(t)
  BY <1>1, <1>2 DEF TxOK, InputOK, PcOK, Hooks
<1>4. TxInv(t)
  BY <1>1 DEF TxInv
<1>5. \A o \in Object : Has(t, o) => Unlocked(o)
  BY <1>1 DEF Has, HasX, HasS, Object, Hooks
<1>6. Begin(p, t) /\ UNCHANGED <<rows, provider, notices>>
  BY <1>2 DEF StartRevocation
<1>7. alive' \subseteq Token
  BY <1>6, InvParts DEF provider, ProviderOK
<1> QED BY <1>3, <1>4, <1>5, <1>6, <1>7, StartStep DEF rows, provider

\* complete_oauth gets a token, which GitHub knows from then on.
LEMMA ExchangeCodeStep ==
  ASSUME GitHubInv, NEW p \in Proc, NEW a \in Attempt, NEW u \in User, ExchangeCode(p, a, u)
  PROVE  GitHubInv'
<1> PICK input : input = [attempt |-> a, user |-> u]
  OBVIOUS
<1> PICK t : t = Start("complete", 1, input)
  OBVIOUS
<1>1. /\ t \in TxRow(input) /\ t.kind = "complete" /\ t.pc = 1 /\ t.input = input
      /\ t.expiring = FALSE
  <2>1. "complete" \in DOMAIN Program /\ 1 \in 1..7
    BY Programs
  <2>2. NewTx(t, "complete", 1, input)
    BY <2>1, StartFields, Zenon
  <2> QED BY <2>2 DEF NewTx
<1>2. TxOK(t)
  BY <1>1 DEF TxOK, InputOK, PcOK, Webhook, Hooks
<1>3. TxInv(t)
  BY <1>1 DEF TxInv
<1>4. \A o \in Object : Has(t, o) => Unlocked(o)
  BY <1>1 DEF Has, HasX, HasS, Object, Hooks
<1>5. Begin(p, t) /\ alive' = alive \cup {input}
  BY DEF ExchangeCode, Request
<1>6. alive \subseteq Token /\ input \in Token
  BY InvParts DEF ProviderOK, Token
<1>7. alive \subseteq alive' /\ alive' \subseteq Token
  BY <1>5, <1>6
<1>8. UNCHANGED <<auth, attempts, installation, bindings, app, granted, selection, sent, notices>>
  BY DEF ExchangeCode, rows
<1> QED BY <1>2, <1>3, <1>4, <1>5, <1>7, <1>8, StartStep

\* live_authorization goes to its other connection.
LEMMA FindsLapsedStep ==
  ASSUME GitHubInv, NEW p \in Proc, FindsLapsed(p) PROVE GitHubInv'
<1> PICK t : t = tx[p]
  OBVIOUS
<1> PICK u : u = [t EXCEPT !.expiring = TRUE]
  OBVIOUS
<1>1. TypeOK /\ TxsOK /\ LocksOK /\ alive \subseteq Token
  BY InvParts DEF ProviderOK
<1>2. tx[p] # Idle /\ AtMeans(t, Live)
  BY <1>1, AtStep DEF FindsLapsed
<1>3. t.kind = "bind" /\ t.pc = 2 /\ TxOK(t) /\ TxInv(t)
  BY <1>2, InvParts DEF AtMeans
<1>4. u \in TxRow(t.input) /\ u.kind = t.kind /\ u.pc = t.pc /\ u.input = t.input
      /\ u.token = t.token
  BY <1>3 DEF TxOK, TxRow
<1>5. TxOK(u)
  BY <1>3, <1>4 DEF TxOK, InputOK, PcOK, Webhook, Hooks
<1>6. TxInv(u)
  BY <1>3, <1>4 DEF TxInv, BindInv
<1>7. ASSUME NEW q \in Proc, q # p, tx[q] # Idle PROVE Compatible(u, tx[q])
  <2>1. Compatible(t, tx[q])
    BY <1>1, <1>2, <1>7 DEF LocksOK
  <2> QED BY <2>1, <1>4 DEF Compatible, Has, HasX, HasS
<1>8. /\ tx' = [tx EXCEPT ![p] = u]
      /\ UNCHANGED <<auth, attempts, installation, bindings, app, granted, selection, sent,
                     notices, alive>>
  BY DEF FindsLapsed, rows, provider
<1> QED BY <1>1, <1>5, <1>6, <1>7, <1>8, QuietStep

\* complete_oauth finds no row and holds nothing on the table.
LEMMA ReadNoAuthorizationStep ==
  ASSUME GitHubInv, NEW p \in Proc, ReadNoAuthorization(p) PROVE GitHubInv'
<1> PICK t : t = tx[p]
  OBVIOUS
<1> PICK u : u = [t EXCEPT !.kind = "first"]
  OBVIOUS
<1>1. LocksOK /\ alive \subseteq Token
  BY InvParts DEF ProviderOK
<1>2. t.kind = "complete" /\ t # Idle
  BY DEF ReadNoAuthorization, Idle
<1>3. TxOK(t)
  BY <1>2, InvParts
<1>4. u \in TxRow(t.input) /\ u.kind = "first" /\ u.pc = t.pc /\ u.input = t.input
      /\ u.expiring = t.expiring
  BY <1>3, Programs DEF TxOK, TxRow
<1>5. TxOK(u)
  BY <1>2, <1>3, <1>4 DEF TxOK, InputOK, PcOK, Webhook, Hooks
<1>6. TxInv(u)
  BY <1>4 DEF TxInv
<1>7. ASSUME NEW q \in Proc, q # p, tx[q] # Idle PROVE Compatible(u, tx[q])
  BY <1>4 DEF Compatible, Has, HasX, HasS, Hooks
<1>8. /\ tx' = [tx EXCEPT ![p] = u]
      /\ UNCHANGED <<auth, attempts, installation, bindings, app, granted, selection, sent,
                     notices, alive>>
  BY DEF ReadNoAuthorization, rows, provider
<1> QED BY <1>1, <1>5, <1>6, <1>7, <1>8, QuietStep

\* A reader commits, or a transaction is lost.
LEMMA EndingSteps ==
  ASSUME GitHubInv, NEW p \in Proc, CommitHolder(p) \/ Dies(p) PROVE GitHubInv'
BY EndStep DEF CommitHolder, Dies

\* The next step of the program, with everything else as it was.
Moves(t, u) ==
  /\ Follows(t, u) /\ u.input = t.input
  /\ u.authorization = t.authorization /\ u.token = t.token
  /\ u.binding = t.binding /\ u.seen = t.seen

\* A step that passes its check and keeps what it read.
LEMMA AdvanceStep ==
  ASSUME GitHubInv, NEW p \in Proc, NEW w, At(p, w),
         NEW o \in Object, w = Ask \/ (w \in {X(o), S(o)} /\ Free(p)),
         w # X("binding"), tx[p].kind \notin {"discover", "complete", "first"},
         Advance(p), \A u : Moves(tx[p], u) => TxInv(u),
         UNCHANGED <<rows, provider, notices>>
  PROVE  GitHubInv'
<1> PICK t : t = tx[p]
  OBVIOUS
<1> PICK u : u = [t EXCEPT !.pc = @ + 1]
  OBVIOUS
<1>1. tx[p] # Idle /\ TxOK(t)
  BY InvParts, AtStep
<1>2. t.pc <= 6
  BY <1>1, TxOKFields, Programs DEF TxOK, PcOK, Hooks
<1>3. Follows(t, u) /\ Moves(t, u)
  BY <1>1, <1>2, Advanced DEF Moves
<1>4. tx' = [tx EXCEPT ![p] = u]
  BY DEF Advance, Go
<1>5. w # Live
  BY Distinct
<1>6. TxInv(u)
  BY <1>3
<1> QED BY <1>3, <1>4, <1>5, <1>6, PassStep

\* A reader shares the project in the revision it read.
LEMMA ShareProjectStep ==
  ASSUME GitHubInv, NEW p \in Proc, ShareProject(p) PROVE GitHubInv'
<1> PICK t : t = tx[p]
  OBVIOUS
<1>1. AtMeans(t, S("project")) /\ TxInv(t)
  BY InvParts, AtStep DEF ShareProject
<1>2. t.kind \in {"read", "build"} /\ t.pc = 1 /\ ReaderInv(t)
  BY <1>1 DEF AtMeans, TxInv
<1>3. CASE Project \in t.seen
  <2>1. ASSUME NEW u, Moves(t, u) PROVE TxInv(u)
    <3>1. u.kind = t.kind /\ u.pc = 2 /\ u.binding = t.binding /\ u.seen = t.seen
      BY <2>1, <1>2 DEF Moves, Follows
    <3>2. ReaderInv(u)
      BY <3>1, <1>2, <1>3 DEF ReaderInv
    <3> QED BY <3>1, <3>2, <1>2 DEF TxInv
  <2>2. "project" \in Object /\ S("project") # X("binding")
    BY Distinct DEF Object
  <2>3. Advance(p)
    BY <1>3 DEF ShareProject, Pass
  <2> QED BY <1>2, <2>1, <2>2, <2>3, AdvanceStep DEF ShareProject
<1>4. CASE Project \notin t.seen
  BY <1>4, EndStep DEF ShareProject, Pass
<1> QED BY <1>3, <1>4

\* lock_current_authorization: active, in the revision that was read.
LEMMA LockAuthorizationStep ==
  ASSUME GitHubInv, NEW p \in Proc, LockAuthorization(p) PROVE GitHubInv'
<1> PICK t : t = tx[p]
  OBVIOUS
<1>1. AtMeans(t, S("auth")) /\ TxInv(t)
  BY InvParts, AtStep DEF LockAuthorization
<1>2. \/ t.kind = "bind" /\ t.pc = 3 /\ BindInv(t)
      \/ t.kind \in {"read", "build"} /\ t.pc = 2 /\ ReaderInv(t)
      \/ t.kind = "admit" /\ t.pc = 2
      \/ t.kind = "resolve" /\ t.pc = 1 /\ t.binding \in DOMAIN bindings
  BY <1>1 DEF AtMeans, TxInv
<1>3. CASE CurrentAuthorization(p)
  <2>1. auth.status = "active" /\ (t.kind # "admit" => auth.revision = t.authorization)
    BY <1>3 DEF CurrentAuthorization
  <2>2. ASSUME NEW u, Moves(t, u) PROVE TxInv(u)
    <3>1. /\ u.kind = t.kind /\ u.pc = t.pc + 1 /\ u.binding = t.binding /\ u.seen = t.seen
          /\ u.authorization = t.authorization /\ u.token = t.token
      BY <2>2 DEF Moves, Follows
    <3>2. CASE t.kind = "bind"
      <4>1. BindInv(u)
        BY <3>1, <3>2, <1>2, <2>1 DEF BindInv
      <4> QED BY <3>1, <3>2, <4>1 DEF TxInv
    <3>3. CASE t.kind \in {"read", "build"}
      <4>1. ReaderInv(u)
        BY <3>1, <3>3, <1>2, <2>1 DEF ReaderInv
      <4> QED BY <3>1, <3>3, <4>1 DEF TxInv
    <3>4. CASE t.kind = "admit"
      <4>1. AdmitInv(u)
        BY <3>1, <3>4, <1>2, <2>1 DEF AdmitInv
      <4> QED BY <3>1, <3>4, <4>1 DEF TxInv
    <3>5. CASE t.kind = "resolve"
      BY <3>1, <3>5, <1>2 DEF TxInv
    <3> QED BY <1>2, <3>2, <3>3, <3>4, <3>5
  <2>3. "auth" \in Object /\ S("auth") # X("binding")
    BY Distinct DEF Object
  <2>4. Advance(p)
    BY <1>3 DEF LockAuthorization, Pass
  <2> QED BY <1>2, <2>2, <2>3, <2>4, AdvanceStep DEF LockAuthorization
<1>4. CASE ~CurrentAuthorization(p)
  BY <1>4, EndStep DEF LockAuthorization, Pass
<1> QED BY <1>3, <1>4

\* What GitHub grants when it is asked is not withdrawn yet.
LEMMA GrantIsHeard ==
  ASSUME NEW repo, Readable(repo), \E t \in alive : t.user = auth.user
  PROVE  Heard(repo)
BY DEF Readable, Heard

\* bind_source asks GitHub while it has authorization and installation.
LEMMA AskGitHubStep ==
  ASSUME GitHubInv, NEW p \in Proc, AskGitHub(p) PROVE GitHubInv'
<1> PICK t : t = tx[p]
  OBVIOUS
<1>1. AtMeans(t, Ask) /\ TxInv(t)
  BY InvParts, AtStep DEF AskGitHub
<1>2. \/ t.kind = "bind" /\ t.pc = 5 /\ BindInv(t)
      \/ t.kind = "resolve" /\ t.pc = 2 /\ t.binding \in DOMAIN bindings
  BY <1>1 DEF AtMeans, TxInv
<1>3. CASE t.token \in alive /\ t.kind = "bind" /\ Readable(t.input.repo)
  <2> PICK input : input = [repo |-> t.input.repo, selection |-> selection]
    OBVIOUS
  <2> PICK v : v = [t EXCEPT !.input = input]
    OBVIOUS
  <2> PICK u : u = [v EXCEPT !.pc = @ + 1]
    OBVIOUS
  <2>1. t.pc = 5 /\ BindInv(t) /\ TxOK(t) /\ tx[p] # Idle
    BY <1>2, <1>3, InvParts, AtStep DEF AskGitHub
  <2>2. v \in TxRow(input) /\ v.kind = t.kind /\ v.pc = t.pc /\ v.input = input
        /\ v.expiring = t.expiring /\ v.token = t.token
    BY <2>1 DEF TxOK, TxRow
  <2>3. u \in TxRow(input) /\ u.kind = v.kind /\ u.pc = 6 /\ u.input = v.input
        /\ u.expiring = v.expiring /\ u.token = v.token
    <3>1. v.pc + 1 = 6 /\ v.pc + 1 \in 1..7
      BY <2>1, <2>2
    <3> QED BY <3>1, <2>2 DEF TxRow
  <2>4. input.repo = t.input.repo /\ input.selection \in Choice
    BY InvParts DEF ProviderOK
  <2>5. InputOK(u)
    <3>1. t.input.repo \in Repo
      BY <1>3, <2>1 DEF TxOK, InputOK
    <3> QED BY <1>3, <2>2, <2>3, <2>4, <3>1 DEF InputOK, Webhook
  <2>6. Follows(t, u)
    BY <2>1, <2>2, <2>3, <2>5 DEF Follows
  <2>7. auth # None /\ t.token.user = auth.user /\ auth.status = "active"
    BY <2>1 DEF BindInv
  <2>8. Heard(t.input.repo)
    BY <2>7, <1>3, GrantIsHeard
  <2>9. Heard(u.input.repo)
    BY <2>8, <2>2, <2>3, <2>4
  <2>10. TxInv(u)
    <3>1. BindInv(u)
      BY <2>1, <2>2, <2>3, <2>7, <2>9 DEF BindInv
    <3> QED BY <1>3, <2>2, <2>3, <3>1 DEF TxInv
  <2>11. tx' = [tx EXCEPT ![p] = u] /\ UNCHANGED <<rows, provider, notices>>
    BY <1>3 DEF AskGitHub, Go
  <2>12. "auth" \in Object /\ Ask # X("binding") /\ Ask # Live /\ At(p, Ask)
    BY Distinct DEF Object, AskGitHub
  <2> QED BY <1>3, <2>6, <2>10, <2>11, <2>12, PassStep
<1>4. CASE t.kind = "resolve" /\ Advance(p)
  <2>1. ASSUME NEW u, Moves(t, u) PROVE TxInv(u)
    <3>1. u.kind = t.kind /\ u.binding = t.binding
      BY <2>1 DEF Moves, Follows
    <3> QED BY <3>1, <1>2, <1>4 DEF TxInv
  <2>2. "auth" \in Object /\ Ask # X("binding") /\ At(p, Ask)
    BY Distinct DEF Object, AskGitHub
  <2> QED BY <1>2, <1>4, <2>1, <2>2, AdvanceStep DEF AskGitHub
<1>5. CASE End(p)
  BY <1>5, EndStep DEF AskGitHub
<1>6. \/ t.token \in alive /\ t.kind = "bind" /\ Readable(t.input.repo)
      \/ t.kind = "resolve" /\ Advance(p)
      \/ End(p)
  BY <1>2 DEF AskGitHub, Advance
<1> QED BY <1>3, <1>4, <1>5, <1>6

\* lock_installation, and the status each caller asks for.
LEMMA LockInstallationStep ==
  ASSUME GitHubInv, NEW p \in Proc, LockInstallation(p) PROVE GitHubInv'
<1> PICK t : t = tx[p]
  OBVIOUS
<1>1. AtMeans(t, X("installation")) /\ TxInv(t)
  BY InvParts, AtStep DEF LockInstallation
<1>2. \/ t.kind = "bind" /\ t.pc = 4 /\ BindInv(t)
      \/ t.kind \in {"read", "build"} /\ t.pc = 3 /\ ReaderInv(t)
      \/ t.kind = "authorization" /\ t.pc = 2 /\ auth # None
  BY <1>1 DEF AtMeans, TxInv, LockInstallation
<1>3. CASE InstallationAllows(p)
  <2>1. /\ t.kind \in {"read", "build"} => installation.status = "active"
        /\ t.kind = "build" => bindings[t.binding].status = "active"
    BY <1>2, <1>3 DEF InstallationAllows, Unchanged
  <2>2. ASSUME NEW u, Moves(t, u) PROVE TxInv(u)
    <3>1. /\ u.kind = t.kind /\ u.pc = t.pc + 1 /\ u.binding = t.binding /\ u.seen = t.seen
          /\ u.authorization = t.authorization /\ u.token = t.token
      BY <2>2 DEF Moves, Follows
    <3>2. CASE t.kind = "bind"
      <4>1. BindInv(u)
        BY <3>1, <3>2, <1>2 DEF BindInv
      <4> QED BY <3>1, <3>2, <4>1 DEF TxInv
    <3>3. CASE t.kind \in {"read", "build"}
      <4>1. ReaderInv(u)
        BY <3>1, <3>3, <1>2, <2>1 DEF ReaderInv
      <4> QED BY <3>1, <3>3, <4>1 DEF TxInv
    <3>4. CASE t.kind = "authorization"
      BY <3>1, <3>4, <1>2 DEF TxInv
    <3> QED BY <1>2, <3>2, <3>3, <3>4
  <2>3. "installation" \in Object /\ X("installation") # X("binding")
    BY Distinct DEF Object
  <2>4. Advance(p)
    BY <1>3 DEF LockInstallation, Pass
  <2> QED BY <1>2, <2>2, <2>3, <2>4, AdvanceStep DEF LockInstallation
<1>4. CASE ~InstallationAllows(p)
  BY <1>4, EndStep DEF LockInstallation, Pass
<1> QED BY <1>3, <1>4

\* A reader or an admission shares the binding and finds it active.
LEMMA ShareBindingStep ==
  ASSUME GitHubInv, NEW p \in Proc, ShareBinding(p) PROVE GitHubInv'
<1> PICK t : t = tx[p]
  OBVIOUS
<1>1. AtMeans(t, S("binding")) /\ TxInv(t)
  BY InvParts, AtStep DEF ShareBinding
<1>2. \/ t.kind = "read" /\ t.pc = 4 /\ ReaderInv(t)
      \/ t.kind = "admit" /\ t.pc = 4 /\ AdmitInv(t)
  BY <1>1 DEF AtMeans, TxInv
<1>3. \/ End(p)
      \/ /\ Advance(p) /\ bindings[t.binding].status = "active"
         /\ t.kind = "read" => Binding(t.binding) \in t.seen
  BY <1>2 DEF ShareBinding, Pass, Unchanged
<1>4. CASE /\ Advance(p) /\ bindings[t.binding].status = "active"
           /\ t.kind = "read" => Binding(t.binding) \in t.seen
  <2>1. ASSUME NEW u, Moves(t, u) PROVE TxInv(u)
    <3>1. /\ u.kind = t.kind /\ u.pc = t.pc + 1 /\ u.binding = t.binding /\ u.seen = t.seen
          /\ u.authorization = t.authorization
      BY <2>1 DEF Moves, Follows
    <3>2. CASE t.kind = "read"
      <4>1. ReaderInv(u)
        BY <3>1, <3>2, <1>2, <1>4 DEF ReaderInv
      <4> QED BY <3>1, <3>2, <4>1 DEF TxInv
    <3>3. CASE t.kind = "admit"
      <4>1. AdmitInv(u)
        BY <3>1, <3>3, <1>2, <1>4 DEF AdmitInv
      <4> QED BY <3>1, <3>3, <4>1 DEF TxInv
    <3> QED BY <1>2, <3>2, <3>3
  <2>2. "binding" \in Object /\ S("binding") # X("binding")
    BY Distinct DEF Object
  <2> QED BY <1>2, <1>4, <2>1, <2>2, AdvanceStep DEF ShareBinding
<1>5. CASE End(p)
  BY <1>5, EndStep DEF ShareBinding
<1> QED BY <1>3, <1>4, <1>5

\* Admission finds the active binding and shares the installation.
LEMMA ShareInstallationStep ==
  ASSUME GitHubInv, NEW p \in Proc, ShareInstallation(p) PROVE GitHubInv'
<1> PICK t : t = tx[p]
  OBVIOUS
<1>1. AtMeans(t, S("installation")) /\ TxInv(t) /\ tx[p] # Idle
  BY InvParts, AtStep DEF ShareInstallation
<1>2. t.kind = "admit" /\ t.pc = 3 /\ AdmitInv(t) /\ TxOK(t)
  BY <1>1, InvParts DEF AtMeans, TxInv
<1>3. PICK b \in Active : Go(p, [t EXCEPT !.binding = b])
  BY DEF ShareInstallation
<1>4. b \in DOMAIN bindings /\ b \in 0..MaxBindings
  BY BindingFields DEF Active
<1> PICK v : v = [t EXCEPT !.binding = b]
  OBVIOUS
<1> PICK u : u = [v EXCEPT !.pc = @ + 1]
  OBVIOUS
<1>5. v \in TxRow(t.input) /\ v.kind = t.kind /\ v.pc = t.pc /\ v.input = t.input
      /\ v.expiring = t.expiring /\ v.binding = b
  BY <1>2, <1>4 DEF TxOK, TxRow
<1>6. u \in TxRow(t.input) /\ u.kind = v.kind /\ u.pc = 4 /\ u.input = v.input
      /\ u.expiring = v.expiring /\ u.binding = b
  <2>1. v.pc + 1 = 4 /\ v.pc + 1 \in 1..7
    BY <1>5, <1>2
  <2> QED BY <2>1, <1>5 DEF TxRow
<1>7. Follows(t, u)
  <2>1. InputOK(u)
    BY <1>2, <1>5, <1>6 DEF TxOK, InputOK
  <2> QED BY <2>1, <1>2, <1>5, <1>6 DEF Follows
<1>8. AdmitInv(u)
  BY <1>2, <1>4, <1>6 DEF AdmitInv, ShareInstallation
<1>9. TxInv(u)
  BY <1>2, <1>5, <1>6, <1>8 DEF TxInv
<1>10. tx' = [tx EXCEPT ![p] = u] /\ UNCHANGED <<rows, provider, notices>>
  BY <1>3 DEF Go, ShareInstallation
<1>11. /\ "installation" \in Object /\ S("installation") # X("binding")
       /\ S("installation") # Live
  BY Distinct DEF Object
<1> QED BY <1>2, <1>7, <1>9, <1>10, <1>11, PassStep DEF ShareInstallation

\* The token that is read belongs to the identity of the row.
LEMMA LiveAuthorizationStep ==
  ASSUME GitHubInv, NEW p \in Proc, LiveAuthorization(p) PROVE GitHubInv'
<1> PICK t : t = tx[p]
  OBVIOUS
<1>1. AtMeans(t, Live) /\ TxInv(t) /\ tx[p] # Idle
  BY InvParts, AtStep DEF LiveAuthorization
<1>2. t.kind = "bind" /\ t.pc = 2 /\ BindInv(t) /\ TxOK(t)
  BY <1>1, InvParts DEF AtMeans, TxInv
<1>3. auth # None /\ auth.token.user = auth.user
  BY DEF LiveAuthorization, Usable, None
<1>4. auth.revision \in Nat /\ auth.token \in Token \cup {None}
  BY <1>3, AuthFields
<1> PICK v : v = [t EXCEPT !.authorization = auth.revision, !.token = auth.token]
  OBVIOUS
<1> PICK u : u = [v EXCEPT !.pc = @ + 1]
  OBVIOUS
<1>5. v \in TxRow(t.input) /\ v.kind = t.kind /\ v.pc = t.pc /\ v.input = t.input
      /\ v.expiring = t.expiring /\ v.token = auth.token
  BY <1>2, <1>4 DEF TxOK, TxRow
<1>6. u \in TxRow(t.input) /\ u.kind = v.kind /\ u.pc = 3 /\ u.input = v.input
      /\ u.expiring = v.expiring /\ u.token = v.token
  <2>1. v.pc + 1 = 3 /\ v.pc + 1 \in 1..7
    BY <1>5, <1>2
  <2> QED BY <2>1, <1>5 DEF TxRow
<1>7. Follows(t, u)
  <2>1. InputOK(u)
    BY <1>2, <1>5, <1>6 DEF TxOK, InputOK
  <2> QED BY <2>1, <1>2, <1>5, <1>6 DEF Follows
<1>8. BindInv(u)
  BY <1>2, <1>3, <1>5, <1>6 DEF BindInv
<1>9. TxInv(u)
  BY <1>2, <1>5, <1>6, <1>8 DEF TxInv
<1>10. tx' = [tx EXCEPT ![p] = u] /\ UNCHANGED <<rows, provider, notices>>
  BY DEF Go, LiveAuthorization
<1>11. "auth" \in Object /\ Live # X("binding")
  BY Distinct DEF Object
<1> QED BY <1>2, <1>7, <1>9, <1>10, <1>11, PassStep DEF LiveAuthorization

-----------------------------------------------------------------------------
(* The actions that change rows. *)

\* What is withdrawn stays announced when the notices of it stay.
LEMMA HeardStays ==
  ASSUME NEW repo, Heard(repo), UNCHANGED <<app, granted>>, alive \subseteq alive',
         auth'.user = auth.user,
         \A n \in notices :
           \/ n.event \in {"installation", "repositories"}
           \/ n.event = "authorization" /\ n.user = auth.user
           => n \in notices'
  PROVE  Heard(repo)'
<1>1. /\ app' = "suspended" => Pending("installation", "suspend")'
      /\ app' = "deleted" => Pending("installation", "deleted")'
  BY DEF Heard, Pending
<1>2. repo \notin granted' =>
        \E n \in notices' : /\ n.event = "repositories" /\ n.action = "removed"
                            /\ n.repos = {} \/ repo \in n.repos
  BY DEF Heard
<1>3. (\A t \in alive' : t.user # auth'.user) =>
        \E n \in notices' : /\ n.event = "authorization" /\ n.action = "revoked"
                            /\ n.user = auth'.user
  BY DEF Heard
<1> QED BY <1>1, <1>2, <1>3 DEF Heard

\* How the transactions change when rows do.
Ends(changed) ==
  \/ changed = {} /\ (tx' = tx \/ \E p \in Proc : End(p))
  \/ \E p \in Proc : Commit(p, changed)
  \/ Revise(changed)

\* A step of the service: GitHub's grants do not change, and a notice goes
\* only when nothing depends on it.
LEMMA ServiceStep ==
  ASSUME GitHubInv, NEW changed, Ends(changed),
         \A q \in Proc : tx[q] # Idle /\ tx'[q] # Idle => Leaves(tx[q], changed),
         UNCHANGED provider, notices' \subseteq notices,
         \A n \in notices :
           \/ n.event \in {"installation", "repositories"}
           \/ n.event = "authorization" /\ n.user = auth.user
           => \/ n \in notices'
              \/ \A q \in Proc : tx[q].kind = "bind" /\ tx'[q] # Idle => tx[q].pc < 6,
         RowsOK', ActiveOK', HeardOK'
  PROVE  GitHubInv'
<1>1. ProviderOK' /\ \A q \in Proc : tx[q] # Idle => TxOK(tx[q]) /\ TxInv(tx[q])
  BY InvParts DEF ProviderOK, provider
<1>2. ASSUME NEW q \in Proc, tx[q] # Idle, tx'[q] # Idle PROVE Spared(tx[q], changed)
  <2> PICK t : t = tx[q]
    OBVIOUS
  <2>1. Leaves(t, changed) /\ TxOK(t) /\ TxInv(t)
    BY <1>1, <1>2
  <2>2. ASSUME t.kind = "bind", t.pc >= 6, NEW repo, Heard(repo)
        PROVE  Heard(repo)'
    <3>1. auth # None
      BY <2>1, <2>2, TxOKFields DEF TxInv, BindInv
    <3>2. auth'.user = auth.user
      BY <2>1, <3>1 DEF Leaves
    <3>3. ~(t.pc < 6)
      BY <2>1, <2>2, TxOKFields
    <3>4. \A n \in notices :
            \/ n.event \in {"installation", "repositories"}
            \/ n.event = "authorization" /\ n.user = auth.user
            => n \in notices'
      BY <1>2, <2>2, <3>3
    <3> QED BY <2>2, <3>2, <3>4, HeardStays DEF provider
  <2> QED BY <2>1, <2>2 DEF Spared
<1>3. Goes(changed)
  BY <1>2, GoesOn DEF Ends
<1> QED BY <1>1, <1>3, RowStep

\* The same when the notices stay and the bindings that are active were so,
\* or have just been granted.
LEMMA OwnStep ==
  ASSUME GitHubInv, NEW changed, Ends(changed),
         \A q \in Proc : tx[q] # Idle /\ tx'[q] # Idle => Leaves(tx[q], changed),
         UNCHANGED <<provider, notices>>,
         auth # None => auth'.user = auth.user,
         \A b \in Active' : auth # None /\ Heard(bindings'[b].repo),
         RowsOK', ActiveOK'
  PROVE  GitHubInv'
<1>1. HeardOK'
  <2>1. SUFFICES ASSUME NEW b \in Active' PROVE Heard(bindings[b].repo)'
    BY DEF HeardOK
  <2> PICK repo : repo = bindings'[b].repo
    OBVIOUS
  <2>2. Heard(repo) /\ auth'.user = auth.user
    OBVIOUS
  <2>3. Heard(repo)'
    BY <2>2, HeardStays DEF provider
  <2> QED BY <2>3 DEF Heard, Pending
<1> QED BY <1>1, ServiceStep

\* A transaction with one step only is at it.
LEMMA OnlyStep ==
  ASSUME GitHubInv, NEW p \in Proc, tx[p].kind \in {"discover", "complete", "first"}
  PROVE  /\ tx[p] # Idle /\ TxOK(tx[p])
         /\ tx[p].kind = "discover" => At(p, X("installation"))
         /\ tx[p].kind \in {"complete", "first"} => At(p, X("auth")) /\ ~tx[p].expiring
<1>1. tx[p] # Idle
  BY DEF Idle
<1>2. TxOK(tx[p]) /\ tx[p].pc = 1
  BY <1>1, InvParts DEF TxOK, PcOK
<1>3. Steps(p) = Program[tx[p].kind]
  BY <1>1 DEF Steps
<1>4. tx[p].kind = "discover" => At(p, X("installation"))
  BY <1>1, <1>2, <1>3, Programs DEF At, DiscoverProgram
<1>5. tx[p].kind \in {"complete", "first"} => At(p, X("auth")) /\ ~tx[p].expiring
  <2>1. tx[p].kind \in {"complete", "first"} => At(p, X("auth"))
    BY <1>1, <1>2, <1>3, Programs DEF At, CompleteProgram
  <2> QED BY <2>1, <1>2 DEF TxOK, PcOK
<1> QED BY <1>1, <1>2, <1>4, <1>5

\* An active binding has an authorization behind it.
LEMMA ActiveMeans ==
  ASSUME GitHubInv, Active # {}
  PROVE  auth # None /\ installation # None
BY InvParts DEF ActiveOK, None

\* What is withdrawn from an active binding is announced.
LEMMA ActiveHeard ==
  ASSUME GitHubInv, NEW b \in Active
  PROVE  auth # None /\ Heard(bindings[b].repo)
<1>1. Heard(bindings[b].repo)
  BY InvParts DEF HeardOK
<1>2. Active # {}
  OBVIOUS
<1> QED BY <1>1, <1>2, ActiveMeans

\* A bind has room for its binding.
LEMMA BindHasRoom ==
  ASSUME GitHubInv, NEW q \in Proc, tx[q] # Idle
  PROVE  tx[q].kind = "bind" => Len(bindings) < MaxBindings
BY InvParts DEF TxInv, BindInv

\* A step that touches the authorization or the attempts only.
LEMMA AuthorizationStep ==
  ASSUME GitHubInv, tx' = tx \/ \E p \in Proc : End(p),
         UNCHANGED <<installation, bindings, provider, notices>>,
         auth' \in AuthRow \cup {None},
         attempts' \in [Attempt -> {"none", "pending", "spent"}],
         \/ auth' = auth
         \/ \A q \in Proc : tx[q] # Idle /\ tx'[q] # Idle => ~Has(tx[q], "auth"),
         auth # None => auth' # None /\ auth'.user = auth.user,
         auth.status \in {"active", "expired"} => auth'.status \in {"active", "expired"}
  PROVE  GitHubInv'
<1>1. RowsOK'
  BY InvParts DEF RowsOK
<1>2. Active' = Active
  BY DEF Active
<1>3. ActiveOK'
  BY <1>2, InvParts DEF ActiveOK
<1>4. ASSUME NEW q \in Proc, tx[q] # Idle, tx'[q] # Idle PROVE Leaves(tx[q], {})
  <2>1. tx[q].kind = "bind" => Len(bindings) < MaxBindings
    BY <1>4, BindHasRoom
  <2>2. Has(tx[q], "auth") => auth' = auth
    BY <1>4
  <2> QED BY <2>1, <2>2 DEF Leaves
<1>5. \A b \in Active' : auth # None /\ Heard(bindings'[b].repo)
  BY <1>2, ActiveHeard
<1>6. Ends({})
  BY DEF Ends
<1> QED BY <1>1, <1>3, <1>4, <1>5, <1>6, OwnStep

\* The other connection waits for every holder of the authorization.
LEMMA MarkExpiredStep ==
  ASSUME GitHubInv, NEW p \in Proc, MarkExpired(p) PROVE GitHubInv'
<1>1. TypeOK /\ TxsOK /\ RowsOK /\ tx[p] # Idle /\ tx[p].expiring /\ Free(p)
  BY InvParts DEF MarkExpired
<1>2. PcOK(tx[p])
  BY <1>1 DEF TxsOK
<1>3. ~Holding(p)
  <2>1. tx[p].kind \in {"discover", "bind"}
    BY <1>1, <1>2 DEF PcOK
  <2> QED BY <1>1, <1>2, <2>1, StepMeans
<1>4. X("auth") \in Wants(p)
  BY <1>1, <1>3 DEF Wants
<1>5. ASSUME NEW q \in Proc, tx[q] # Idle, tx'[q] # Idle PROVE ~Has(tx[q], "auth")
  <2>1. q # p
    BY <1>5, <1>1, InvParts DEF MarkExpired, End
  <2> QED BY <1>1, <1>4, <1>5, <2>1, FreeMeans DEF Object
<1>6. CASE auth.status = "active"
  <2>1. auth # None
    BY <1>6 DEF None
  <2>2. auth \in AuthRow /\ auth.revision + 1 \in Nat
    BY <2>1, AuthFields
  <2> PICK row : row = [auth EXCEPT !.status = "expired", !.revision = @ + 1]
    OBVIOUS
  <2>3. row \in AuthRow /\ row.status = "expired" /\ row.user = auth.user
    BY <2>2 DEF AuthRow
  <2>4. row # None
    BY <2>3 DEF None
  <2>5. auth' = row
    BY <1>6 DEF MarkExpired
  <2> QED BY <1>1, <1>5, <2>3, <2>4, <2>5, AuthorizationStep DEF MarkExpired, RowsOK
<1>7. CASE auth.status # "active"
  <2>1. auth' = auth
    BY <1>7 DEF MarkExpired
  <2> QED BY <1>1, <2>1, AuthorizationStep DEF MarkExpired, RowsOK
<1> QED BY <1>6, <1>7

\* An OAuth attempt is created or expires.
LEMMA AttemptSteps ==
  ASSUME GitHubInv, NEW a \in Attempt, CreateAttempt(a) \/ AttemptExpires(a) PROVE GitHubInv'
<1>1. RowsOK /\ auth' = auth /\ tx' = tx /\ UNCHANGED <<installation, bindings, provider, notices>>
  BY InvParts DEF CreateAttempt, AttemptExpires
<1>2. attempts' \in [Attempt -> {"none", "pending", "spent"}]
  BY <1>1 DEF CreateAttempt, AttemptExpires, RowsOK
<1> QED BY <1>1, <1>2, AuthorizationStep DEF RowsOK

\* The row that an OAuth attempt writes.
LEMMA ConnectedRow ==
  ASSUME GitHubInv, NEW p \in Proc, tx[p].kind \in {"complete", "first"},
         NEW revision \in Nat, NEW row, row = Connected(p, revision)
  PROVE  /\ row \in AuthRow /\ row # None /\ row.status = "active"
         /\ auth # None => row.user = auth.user
<1>1. tx[p] # Idle /\ TxOK(tx[p])
  BY OnlyStep
<1>2. tx[p].input.attempt \in Attempt /\ tx[p].input.user \in User
  BY <1>1 DEF TxOK, InputOK
<1> PICK user : user = IF auth = None THEN tx[p].input.user ELSE auth.user
  OBVIOUS
<1> PICK token : token = [attempt |-> tx[p].input.attempt, user |-> tx[p].input.user]
  OBVIOUS
<1>3. user \in User /\ token \in Token
  BY <1>2, AuthFields DEF Token
<1>4. row = [status |-> "active", revision |-> revision, before |-> {}, user |-> user,
             token |-> token]
  BY DEF Connected
<1>5. row \in AuthRow /\ row.status = "active" /\ row.user = user
  BY <1>3, <1>4 DEF AuthRow
<1> QED BY <1>5 DEF None

\* complete_oauth writes the row while nobody holds it and keeps its user.
LEMMA CompleteSteps ==
  ASSUME GitHubInv, NEW p \in Proc, CompleteOauth(p) \/ CompleteFirst(p) PROVE GitHubInv'
<1>1. /\ tx[p].kind \in {"complete", "first"} /\ Free(p) /\ End(p)
      /\ UNCHANGED <<installation, bindings, provider, notices>>
  BY DEF CompleteOauth, CompleteFirst
<1>2. /\ TypeOK /\ TxsOK /\ RowsOK /\ tx[p] # Idle /\ TxOK(tx[p]) /\ At(p, X("auth"))
      /\ ~tx[p].expiring
  BY <1>1, InvParts, OnlyStep
<1>3. ASSUME NEW q \in Proc, tx[q] # Idle, tx'[q] # Idle PROVE ~Has(tx[q], "auth")
  <2>1. q # p
    BY <1>3, <1>1, InvParts DEF End
  <2> QED BY <1>1, <1>2, <1>3, <2>1, FreeAt DEF Object
<1>4. ASSUME NEW revision \in Nat, auth' = Connected(p, revision), Consume(p)
      PROVE  GitHubInv'
  <2> PICK row : row = Connected(p, revision)
    OBVIOUS
  <2>1. /\ row \in AuthRow /\ row # None /\ row.status = "active"
        /\ auth # None => row.user = auth.user
    BY <1>1, ConnectedRow
  <2>2. attempts' \in [Attempt -> {"none", "pending", "spent"}]
    BY <1>2, <1>4 DEF Consume, RowsOK
  <2>3. auth' = row
    BY <1>4
  <2> QED BY <1>1, <1>3, <2>1, <2>2, <2>3, AuthorizationStep
<1>5. CASE CompleteOauth(p)
  <2>1. CASE MayConnect(p)
    <3>1. auth # None /\ auth' = Connected(p, auth.revision + 1) /\ Consume(p)
      BY <1>5, <2>1 DEF CompleteOauth
    <3>2. auth.revision + 1 \in Nat
      BY <3>1, AuthFields
    <3> QED BY <3>1, <3>2, <1>4
  <2>2. CASE ~MayConnect(p)
    <3>1. auth' = auth /\ attempts' = attempts
      BY <1>5, <2>2 DEF CompleteOauth
    <3> QED BY <3>1, <1>1, <1>2, AuthorizationStep DEF RowsOK
  <2> QED BY <2>1, <2>2
<1>6. CASE CompleteFirst(p)
  <2>1. auth' = Connected(p, 1) /\ Consume(p)
    BY <1>6 DEF CompleteFirst
  <2>2. 1 \in Nat
    OBVIOUS
  <2> QED BY <2>1, <2>2, <1>4
<1> QED BY <1>5, <1>6

\* upsert_installation leaves a denied installation denied.
LEMMA DiscoverStep ==
  ASSUME GitHubInv, NEW p \in Proc, Discover(p) PROVE GitHubInv'
<1>1. /\ tx[p].kind = "discover" /\ ~tx[p].expiring /\ Free(p) /\ End(p)
      /\ UNCHANGED <<auth, attempts, bindings, provider, notices>>
  BY DEF Discover
<1>2. TypeOK /\ TxsOK /\ RowsOK /\ tx[p] # Idle /\ TxOK(tx[p]) /\ At(p, X("installation"))
  BY <1>1, InvParts, OnlyStep
<1>3. ASSUME NEW q \in Proc, tx[q] # Idle, tx'[q] # Idle PROVE ~Has(tx[q], "installation")
  <2>1. q # p
    BY <1>3, <1>1, InvParts DEF End
  <2> QED BY <1>1, <1>2, <1>3, <2>1, FreeAt DEF Object
<1> PICK status : status = IF installation.status \in Denied THEN installation.status
                           ELSE IF tx[p].input.app = "suspended" THEN "suspended" ELSE "active"
  OBVIOUS
<1> PICK choice : choice = tx[p].input.selection
  OBVIOUS
<1>4. choice \in Choice /\ status \in {"active", "suspended", "deleted", "revalidation_required"}
  BY <1>1, <1>2 DEF TxOK, InputOK, Denied
<1>5. installation' = [selection |-> choice, status |-> status]
  BY DEF Discover, Upserted
<1>6. installation' \in InstallationRow /\ installation'.status = status
  BY <1>4, <1>5 DEF InstallationRow
<1>7. installation' # None
  BY <1>4, <1>6 DEF None
<1>8. RowsOK'
  BY <1>1, <1>2, <1>6 DEF RowsOK
<1>9. Active' = Active
  BY <1>1 DEF Active
<1>10. ActiveOK'
  <2>1. Active # {} => status \in {"active", "suspended"}
    BY InvParts DEF ActiveOK, Denied
  <2> QED BY <2>1, <1>1, <1>6, <1>9, InvParts DEF ActiveOK
<1>11. ASSUME NEW q \in Proc, tx[q] # Idle, tx'[q] # Idle PROVE Leaves(tx[q], {})
  <2>1. tx[q].kind = "bind" => Len(bindings) < MaxBindings
    BY <1>11, BindHasRoom
  <2> QED BY <2>1, <1>1, <1>3, <1>7, <1>11 DEF Leaves
<1>12. \A b \in Active' : auth # None /\ Heard(bindings'[b].repo)
  BY <1>1, <1>9, ActiveHeard
<1>13. Ends({})
  BY <1>1 DEF Ends
<1> QED BY <1>1, <1>8, <1>10, <1>11, <1>12, <1>13, OwnStep

-----------------------------------------------------------------------------
(* The actions that change bindings. *)

\* A table with a row for each row of the bindings.
LEMMA SameLength ==
  ASSUME GitHubInv, NEW f, DOMAIN f = DOMAIN bindings, f = [b \in DOMAIN bindings |-> f[b]],
         \A b \in DOMAIN bindings : f[b] \in BindingRow
  PROVE  f \in Seq(BindingRow) /\ Len(f) = Len(bindings)
<1>1. bindings \in Seq(BindingRow)
  BY InvParts DEF RowsOK
<1>2. DOMAIN bindings = 1..Len(bindings) /\ Len(bindings) \in Nat
  BY <1>1
<1>3. f \in [1..Len(bindings) -> BindingRow]
  BY <1>2
<1> QED BY <1>2, <1>3

\* The rows that move get the status and the others keep theirs.
MovedTo(f, some, status) ==
  /\ f \in Seq(BindingRow) /\ Len(f) = Len(bindings) /\ DOMAIN f = DOMAIN bindings
  /\ \A b \in DOMAIN bindings :
       f[b].status = IF b \in some THEN status ELSE bindings[b].status

\* Moved does so.
LEMMA MovedRows ==
  ASSUME GitHubInv, NEW some, NEW status \in BindingStatus, NEW f, f = Moved(some, status)
  PROVE  MovedTo(f, some, status)
<1>1. ASSUME NEW b \in DOMAIN bindings
      PROVE  /\ With(bindings[b], status) \in BindingRow
             /\ With(bindings[b], status).repo = bindings[b].repo
             /\ With(bindings[b], status).status = status
  BY BindingFields DEF With, BindingRow
<1>2. ASSUME NEW b \in DOMAIN bindings
      PROVE  /\ f[b] \in BindingRow /\ f[b].repo = bindings[b].repo
             /\ f[b].status = IF b \in some THEN status ELSE bindings[b].status
  <2>1. f[b] = IF b \in some THEN With(bindings[b], status) ELSE bindings[b]
    BY DEF Moved
  <2> QED BY <1>1, <2>1, BindingFields
<1>3. DOMAIN f = DOMAIN bindings /\ f = [b \in DOMAIN bindings |-> f[b]]
  BY DEF Moved
<1>4. f \in Seq(BindingRow) /\ Len(f) = Len(bindings)
  BY <1>2, <1>3, SameLength
<1> QED BY <1>2, <1>3, <1>4 DEF MovedTo

\* Nobody but the one that commits has what it locked.
LEMMA Excluded ==
  ASSUME GitHubInv, NEW p \in Proc, tx[p] # Idle, NEW o \in Object, HasX(tx[p], o),
         NEW q \in Proc, q # p, tx[q] # Idle
  PROVE  ~Has(tx[q], o)
<1>1. Compatible(tx[p], tx[q])
  BY InvParts DEF LocksOK
<1> QED BY <1>1 DEF Compatible

\* After a commit the transaction is gone.
LEMMA Gone ==
  ASSUME GitHubInv, NEW p \in Proc, NEW changed, Commit(p, changed) \/ End(p),
         NEW q \in Proc, tx'[q] # Idle
  PROVE  q # p
BY InvParts DEF Commit, End

\* delete_source disables the binding under its own lock only.
LEMMA DeleteSourceStep ==
  ASSUME GitHubInv, DeleteSource PROVE GitHubInv'
<1>1. /\ Unlocked("binding") /\ Revise(Revisions(Active))
      /\ UNCHANGED <<auth, attempts, installation, provider, notices>>
  BY DEF DeleteSource
<1>2. TypeOK /\ TxsOK /\ RowsOK
  BY InvParts
<1> PICK f : f = Moved(Active, "disabled")
  OBVIOUS
<1>3. /\ f \in Seq(BindingRow) /\ Len(f) = Len(bindings) /\ DOMAIN f = DOMAIN bindings
      /\ \A b \in DOMAIN bindings :
           f[b].status = IF b \in Active THEN "disabled" ELSE bindings[b].status
  <2>1. "disabled" \in BindingStatus
    BY DEF BindingStatus
  <2>2. MovedTo(f, Active, "disabled")
    BY <2>1, MovedRows, Zenon
  <2> QED BY <2>2 DEF MovedTo
<1>4. bindings' = f
  BY DEF DeleteSource
<1>5. RowsOK'
  BY <1>1, <1>2, <1>3, <1>4 DEF RowsOK
<1>6. Active' = {}
  BY <1>3, <1>4 DEF Active
<1>7. ASSUME NEW q \in Proc, tx[q] # Idle PROVE Leaves(tx[q], Revisions(Active))
  <2>1. tx[q].kind = "bind" => Len(bindings) < MaxBindings
    BY <1>7, BindHasRoom
  <2>2. ~Has(tx[q], "binding")
    BY <1>1, <1>2, <1>7, UnlockedMeans DEF Object
  <2>3. Project \notin Revisions(Active)
    BY DEF Project, Revisions, Binding
  <2> QED BY <2>1, <2>2, <2>3, <1>1, <1>3, <1>4 DEF Leaves
<1>8. ActiveOK'
  BY <1>6 DEF ActiveOK
<1>9. Ends(Revisions(Active))
  BY <1>1 DEF Ends
<1> PICK changed : changed = Revisions(Active)
  OBVIOUS
<1>10. Ends(changed) /\ \A q \in Proc : tx[q] # Idle => Leaves(tx[q], changed)
  BY <1>7, <1>9
<1> QED BY <1>1, <1>5, <1>6, <1>8, <1>10, OwnStep

\* A new configuration forgets the sources, not the bindings.
LEMMA EditProjectStep ==
  ASSUME GitHubInv, EditProject PROVE GitHubInv'
<1>1. /\ Unlocked("project") /\ Revise({Project})
      /\ UNCHANGED <<auth, attempts, installation, provider, notices>>
  BY DEF EditProject
<1>2. TypeOK /\ TxsOK /\ RowsOK
  BY InvParts
<1> PICK f : f = [b \in DOMAIN bindings |-> [bindings[b] EXCEPT !.sources = {}]]
  OBVIOUS
<1>3. ASSUME NEW b \in DOMAIN bindings
      PROVE  /\ f[b] \in BindingRow /\ f[b].repo = bindings[b].repo
             /\ f[b].status = bindings[b].status
  BY BindingFields DEF BindingRow
<1>4. f \in Seq(BindingRow) /\ Len(f) = Len(bindings) /\ DOMAIN f = DOMAIN bindings
  BY <1>3, SameLength
<1>5. bindings' = f
  BY DEF EditProject
<1>6. RowsOK'
  BY <1>1, <1>2, <1>4, <1>5 DEF RowsOK
<1>7. Active' = Active
  BY <1>3, <1>4, <1>5 DEF Active
<1>8. ASSUME NEW q \in Proc, tx[q] # Idle PROVE Leaves(tx[q], {Project})
  <2>1. tx[q].kind = "bind" => Len(bindings) < MaxBindings
    BY <1>8, BindHasRoom
  <2>2. ~Has(tx[q], "project")
    BY <1>1, <1>2, <1>8, UnlockedMeans DEF Object
  <2>3. Binding(tx[q].binding) \notin {Project}
    BY DEF Project, Binding
  <2> QED BY <2>1, <2>2, <2>3, <1>1, <1>3, <1>4, <1>5 DEF Leaves
<1>9. ActiveOK'
  BY <1>1, <1>7, InvParts DEF ActiveOK
<1>10. Ends({Project})
  BY <1>1 DEF Ends
<1>11. \A b \in Active' : auth # None /\ Heard(bindings'[b].repo)
  <2>1. \A b \in Active : bindings'[b].repo = bindings[b].repo
    BY <1>3, <1>5 DEF Active
  <2> QED BY <2>1, <1>7, ActiveHeard
<1> QED BY <1>1, <1>6, <1>8, <1>9, <1>10, <1>11, OwnStep

\* resolve_source adds a source to the binding it read.
LEMMA CommitResolveStep ==
  ASSUME GitHubInv, NEW p \in Proc, CommitResolve(p) PROVE GitHubInv'
<1> PICK t : t = tx[p]
  OBVIOUS
<1>1. /\ t.kind = "resolve" /\ At(p, X("binding")) /\ Free(p)
      /\ UNCHANGED <<auth, attempts, installation, provider, notices>>
  BY DEF CommitResolve
<1>2. TypeOK /\ TxsOK /\ RowsOK /\ tx[p] # Idle /\ TxOK(t) /\ TxInv(t)
  BY <1>1, InvParts, AtStep
<1>3. t.binding \in DOMAIN bindings /\ ~t.expiring
  BY <1>1, <1>2 DEF TxInv, TxOK, PcOK
<1>4. CASE bindings[t.binding].status = "active"
  <2> PICK i : i = t.binding
    OBVIOUS
  <2> PICK row : row = AddSource(i, "verified")
    OBVIOUS
  <2>1. row \in BindingRow /\ row.repo = bindings[i].repo /\ row.status = bindings[i].status
    <3>1. bindings[i] \in BindingRow /\ bindings[i].sources \subseteq Source
      BY <1>3, BindingFields
    <3>2. bindings[i].sources \cup {"verified"} \in SUBSET Source
      BY <3>1 DEF Source
    <3> QED BY <3>1, <3>2 DEF AddSource, BindingRow
  <2>2. bindings[i].status = "active"
    BY <1>4
  <2> PICK f : f = [bindings EXCEPT ![i] = row]
    OBVIOUS
  <2>3. bindings' = f /\ Commit(p, {Binding(i)})
    BY <1>4 DEF CommitResolve
  <2>4. f \in Seq(BindingRow) /\ Len(f) = Len(bindings) /\ DOMAIN f = DOMAIN bindings
    BY <1>2, <1>3, <2>1 DEF RowsOK
  <2>5. ASSUME NEW b \in DOMAIN bindings
        PROVE  f[b].status = bindings[b].status /\ f[b].repo = bindings[b].repo
    BY <2>1, <2>2
  <2>6. RowsOK'
    BY <1>1, <1>2, <2>3, <2>4 DEF RowsOK
  <2>7. Active' = Active
    BY <2>3, <2>4, <2>5 DEF Active
  <2>8. ASSUME NEW q \in Proc, tx[q] # Idle, tx'[q] # Idle PROVE Leaves(tx[q], {Binding(i)})
    <3>1. q # p
      BY <2>3, <2>8, Gone
    <3>2. ~Has(tx[q], "binding")
      BY <1>1, <1>2, <1>3, <2>8, <3>1, FreeAt DEF Object
    <3>3. tx[q].kind = "bind" => Len(bindings) < MaxBindings
      BY <2>8, BindHasRoom
    <3>4. Project \notin {Binding(i)}
      BY DEF Project, Binding
    <3> QED BY <3>2, <3>3, <3>4, <1>1, <2>3, <2>4, <2>5 DEF Leaves
  <2>9. ActiveOK'
    BY <1>1, <2>7, InvParts DEF ActiveOK
  <2>10. Ends({Binding(i)})
    BY <2>3 DEF Ends
  <2>11. \A b \in Active' : auth # None /\ Heard(bindings'[b].repo)
    <3>1. \A b \in Active : bindings'[b].repo = bindings[b].repo
      BY <2>3, <2>5 DEF Active
    <3> QED BY <3>1, <2>7, ActiveHeard
  <2> QED BY <1>1, <2>6, <2>8, <2>9, <2>10, <2>11, OwnStep
<1>5. CASE bindings[t.binding].status # "active"
  BY <1>5, <1>1, EndStep DEF CommitResolve, rows
<1> QED BY <1>4, <1>5

\* bind_source disables the active binding and adds one that is granted.
LEMMA CommitBindStep ==
  ASSUME GitHubInv, NEW p \in Proc, CommitBind(p) PROVE GitHubInv'
<1> PICK t : t = tx[p]
  OBVIOUS
<1>1. /\ t.kind = "bind" /\ At(p, X("binding")) /\ Free(p)
      /\ UNCHANGED <<auth, attempts, provider, notices>>
  BY DEF CommitBind
<1>2. /\ TypeOK /\ TxsOK /\ RowsOK /\ ProviderOK /\ tx[p] # Idle /\ TxOK(t) /\ TxInv(t)
      /\ AtMeans(t, X("binding"))
  BY <1>1, InvParts, AtStep
<1>3. t.pc = 6 /\ ~t.expiring /\ t.input.repo \in Repo
  BY <1>1, <1>2 DEF AtMeans, TxOK, PcOK, InputOK, Hooks
<1>4. BindInv(t)
  BY <1>1, <1>2 DEF TxInv
<1>5. /\ Len(bindings) < MaxBindings /\ auth # None /\ auth.status = "active"
      /\ Heard(t.input.repo)
  BY <1>3, <1>4 DEF BindInv
<1> PICK f : f = Moved(Active, "disabled")
  OBVIOUS
<1> PICK row : row = [repo |-> t.input.repo, status |-> "active", sources |-> {"verified"}]
  OBVIOUS
<1> PICK n : n = Len(bindings)
  OBVIOUS
<1>6. /\ f \in Seq(BindingRow) /\ Len(f) = n /\ DOMAIN f = DOMAIN bindings
      /\ \A b \in DOMAIN bindings :
           f[b].status = IF b \in Active THEN "disabled" ELSE bindings[b].status
  <2>1. "disabled" \in BindingStatus
    BY DEF BindingStatus
  <2>2. MovedTo(f, Active, "disabled")
    BY <2>1, MovedRows, Zenon
  <2> QED BY <2>2 DEF MovedTo
<1>7. row \in BindingRow
  BY <1>3 DEF BindingRow, BindingStatus, Source
<1>8. bindings' = Append(f, row)
  BY DEF CommitBind
<1>9. n \in Nat /\ DOMAIN bindings = 1..n
  BY <1>2 DEF RowsOK
<1>10. /\ bindings' \in Seq(BindingRow) /\ Len(bindings') = n + 1 /\ bindings'[n + 1] = row
       /\ DOMAIN bindings' = 1..(n + 1)
       /\ \A b \in DOMAIN bindings : bindings'[b] = f[b]
  BY <1>6, <1>7, <1>8, <1>9
<1>11. /\ installation' \in InstallationRow /\ installation'.status = "active"
       /\ installation' # None
  <2> PICK choice : choice = t.input.selection
    OBVIOUS
  <2>1. choice \in Choice /\ installation' = [status |-> "active", selection |-> choice]
    BY <1>1, <1>2 DEF CommitBind, TxOK, InputOK
  <2> QED BY <2>1 DEF InstallationRow, None
<1>12. RowsOK'
  <2>1. n + 1 <= MaxBindings
    BY <1>5, <1>9, BoundsAssumption
  <2> QED BY <1>1, <1>2, <1>10, <1>11, <2>1 DEF RowsOK
<1>13. \A b \in Active' : b = n + 1
  <2>1. SUFFICES ASSUME NEW b \in Active', b # n + 1 PROVE FALSE
    OBVIOUS
  <2>2. b \in DOMAIN bindings' /\ bindings'[b].status = "active"
    BY DEF Active
  <2>3. b \in DOMAIN bindings
    BY <2>1, <2>2, <1>9, <1>10
  <2> QED BY <2>2, <2>3, <1>6, <1>10 DEF Active
<1>14. ActiveOK'
  BY <1>1, <1>5, <1>11, <1>13 DEF ActiveOK
<1>15. \A b \in Active' : auth # None /\ Heard(bindings'[b].repo)
  <2>1. row.repo = t.input.repo
    OBVIOUS
  <2> QED BY <2>1, <1>5, <1>10, <1>13
<1> PICK changed : changed = {Project} \cup Revisions(Active)
  OBVIOUS
<1>16. Commit(p, changed)
  BY DEF CommitBind
<1>17. Ends(changed)
  BY <1>16 DEF Ends
<1>18. ASSUME NEW q \in Proc, tx[q] # Idle, tx'[q] # Idle PROVE Leaves(tx[q], changed)
  <2>1. q # p
    BY <1>16, <1>18, Gone
  <2>2. HasX(t, "project") /\ HasX(t, "installation")
    BY <1>1, <1>3 DEF HasX
  <2>3. ~Has(tx[q], "project") /\ ~Has(tx[q], "installation")
    BY <2>1, <2>2, <1>2, <1>18, Excluded DEF Object
  <2>4. ~Has(tx[q], "binding")
    BY <1>1, <1>2, <1>3, <1>18, <2>1, FreeAt DEF Object
  <2>5. tx[q].kind # "bind"
    BY <2>3 DEF Has, HasX
  <2>6. DOMAIN bindings \subseteq DOMAIN bindings'
    BY <1>9, <1>10
  <2> QED BY <2>3, <2>4, <2>5, <2>6, <1>1, <1>11 DEF Leaves
<1> QED BY <1>1, <1>12, <1>14, <1>15, <1>17, <1>18, OwnStep

-----------------------------------------------------------------------------
(* Webhooks. *)

\* Events that are recorded and change nothing more.
LEMMA DropStep ==
  ASSUME GitHubInv, Ends({}), UNCHANGED <<rows, provider>>, NEW n, notices' = notices \ {n},
         \/ n.event = "push"
         \/ n.event \in {"installation", "repositories"} /\ Active = {}
            /\ \A q \in Proc : tx[q].kind = "bind" => tx[q].pc < 6
         \/ n.event = "authorization" /\ (auth # None => n.user # auth.user)
  PROVE  GitHubInv'
<1>1. RowsOK' /\ ActiveOK' /\ Active' = Active /\ auth' = auth /\ bindings' = bindings
  BY InvParts DEF RowsOK, ActiveOK, Active, rows
<1>2. ASSUME NEW q \in Proc, tx[q] # Idle PROVE Leaves(tx[q], {})
  <2>1. tx[q].kind = "bind" => Len(bindings) < MaxBindings
    BY <1>2, BindHasRoom
  <2> QED BY <2>1 DEF Leaves, rows
<1>3. \A m \in notices :
        \/ m.event \in {"installation", "repositories"}
        \/ m.event = "authorization" /\ m.user = auth.user
        => m \in notices' \/ m = n
  OBVIOUS
<1>4. n.event \in {"installation", "repositories"} \/ auth # None \/ n.event = "push"
      \/ (Active = {} /\ \A q \in Proc : tx[q].kind = "bind" => tx[q].pc < 6)
  <2>1. ASSUME auth = None, NEW q \in Proc, tx[q].kind = "bind" PROVE tx[q].pc < 6
    <3>1. tx[q] # Idle
      BY <2>1 DEF Idle
    <3>2. BindInv(tx[q]) /\ TxOK(tx[q])
      BY <2>1, <3>1, InvParts DEF TxInv
    <3> QED BY <2>1, <3>2, TxOKFields DEF BindInv
  <2> QED BY <2>1, ActiveMeans
<1>5. \A m \in notices :
        \/ m.event \in {"installation", "repositories"}
        \/ m.event = "authorization" /\ m.user = auth.user
        => \/ m \in notices'
           \/ Active = {} /\ \A q \in Proc : tx[q].kind = "bind" => tx[q].pc < 6
  BY <1>3, <1>4
<1>6. HeardOK'
  <2>1. SUFFICES ASSUME NEW b \in Active PROVE Heard(bindings[b].repo)'
    BY <1>1 DEF HeardOK
  <2> PICK repo : repo = bindings[b].repo
    OBVIOUS
  <2>2. Heard(repo) /\ Active # {}
    BY ActiveHeard
  <2>3. Heard(repo)'
    BY <1>1, <1>5, <2>2, HeardStays DEF provider
  <2> QED BY <2>3, <1>1 DEF Heard, Pending
<1> QED BY <1>1, <1>2, <1>5, <1>6, ServiceStep

\* receive_webhook: an event of an unknown installation is dropped.
LEMMA StartWebhookStep ==
  ASSUME GitHubInv, NEW p \in Proc, NEW n \in notices, StartWebhook(p, n) PROVE GitHubInv'
<1>1. TypeOK /\ TxsOK /\ NoticeOK(n) /\ n.event \in Hooks /\ Unlocked("installation")
  BY InvParts DEF ProviderOK, StartWebhook, NoticeOK, Webhook, Hooks
<1>2. CASE Known(n.event)
  <2> PICK input : input = [notice |-> n]
    OBVIOUS
  <2> PICK kind : kind = n.event
    OBVIOUS
  <2> PICK t : t = Start(kind, 2, input)
    OBVIOUS
  <2>1. /\ t \in TxRow(input) /\ t.kind = n.event /\ t.pc = 2 /\ t.input = input
        /\ t.expiring = FALSE
    <3>1. kind \in DOMAIN Program /\ 2 \in 1..7
      BY <1>1, Programs DEF Hooks
    <3>2. NewTx(t, kind, 2, input)
      BY <3>1, StartFields, Zenon
    <3> QED BY <3>2 DEF NewTx
  <2>2. TxOK(t)
    BY <1>1, <2>1 DEF TxOK, InputOK, PcOK, Hooks
  <2>3. t.kind \in {"installation", "repositories"} => installation # None
    BY <1>2, <2>1 DEF Known, None
  <2>4. TxInv(t)
    BY <1>1, <2>1, <2>3 DEF TxInv, Hooks
  <2>5. \A o \in Object : Has(t, o) => Unlocked(o)
    BY <1>1, <2>1 DEF Has, HasX, HasS, Object, Hooks
  <2>6. Begin(p, t) /\ UNCHANGED <<rows, provider, notices>>
    BY <1>2 DEF StartWebhook
  <2>7. alive' \subseteq Token
    BY <2>6, InvParts DEF provider, ProviderOK
  <2> QED BY <2>2, <2>4, <2>5, <2>6, <2>7, StartStep DEF rows, provider
<1>3. CASE ~Known(n.event)
  <2>1. tx' = tx /\ notices' = notices \ {n} /\ UNCHANGED <<rows, provider>>
    BY <1>3 DEF StartWebhook
  <2>2. n.event \in {"installation", "repositories"}
    BY <1>3 DEF Known
  <2>3. Active = {}
    <3>1. installation.status \in {"none", "deleted"}
      BY <1>3 DEF Known, None
    <3> QED BY <3>1, InvParts DEF ActiveOK
  <2>4. ASSUME NEW q \in Proc, tx[q].kind = "bind" PROVE tx[q].pc < 6
    <3>1. tx[q] # Idle
      BY <2>4 DEF Idle
    <3>2. ~Has(tx[q], "installation")
      BY <1>1, <3>1, UnlockedMeans DEF Object
    <3>3. tx[q].pc \in 1..7
      BY <3>1, InvParts, TxOKFields
    <3> QED BY <2>4, <3>2, <3>3 DEF Has, HasX
  <2>5. Ends({})
    BY <2>1 DEF Ends
  <2> QED BY <2>1, <2>2, <2>3, <2>4, <2>5, DropStep
<1> QED BY <1>2, <1>3

\* The row of a revoked authorization.
LEMMA RevokedRow ==
  ASSUME GitHubInv, NEW p \in Proc, tx[p].kind = "authorization", tx[p] # Idle, auth # None,
         NEW row, row = Revoked(p)
  PROVE  row \in AuthRow /\ row # None /\ row.status = "revoked" /\ row.user = auth.user
<1> PICK before : before = tx[p].input.before
  OBVIOUS
<1>1. auth \in AuthRow /\ auth.revision + 1 \in Nat /\ before \in SUBSET Attempt
  BY InvParts, AuthFields DEF TxOK, InputOK
<1>2. row = [auth EXCEPT !.status = "revoked", !.token = None, !.revision = @ + 1,
                         !.before = before]
  BY DEF Revoked
<1>3. row \in AuthRow /\ row.status = "revoked" /\ row.user = auth.user
  BY <1>1, <1>2 DEF AuthRow
<1> QED BY <1>3 DEF None

\* process_authorization drops the notice of another user, and is done when
\* the account has no binding.
LEMMA LockUserStep ==
  ASSUME GitHubInv, NEW p \in Proc, LockUser(p) PROVE GitHubInv'
<1> PICK t : t = tx[p]
  OBVIOUS
<1>1. /\ t.kind = "authorization" /\ At(p, X("auth")) /\ Free(p)
      /\ UNCHANGED <<attempts, installation, bindings, provider>>
  BY DEF LockUser
<1>2. AtMeans(t, X("auth")) /\ TypeOK /\ TxsOK /\ RowsOK /\ tx[p] # Idle /\ TxOK(t)
  BY <1>1, InvParts, AtStep
<1> PICK n : n = t.input.notice
  OBVIOUS
<1>3. n.event = "authorization" /\ ~t.expiring
  BY <1>1, <1>2 DEF TxOK, InputOK, PcOK, Webhook
<1>4. ASSUME Deliver(p, {}) PROVE notices' = notices \ {n} /\ Commit(p, {}) /\ Ends({})
  <2>1. Revisions({}) = {}
    BY DEF Revisions
  <2> QED BY <1>4, <2>1 DEF Deliver, Ends
<1>5. CASE auth = None \/ auth.user # n.user
  <2>1. Deliver(p, {}) /\ auth' = auth
    BY <1>5 DEF LockUser
  <2> QED BY <1>1, <1>3, <1>4, <1>5, <2>1, DropStep DEF rows
<1>6. CASE auth # None /\ auth.user = n.user /\ bindings = <<>>
  <2> PICK row : row = Revoked(p)
    OBVIOUS
  <2>1. Deliver(p, {}) /\ auth' = row
    BY <1>6 DEF LockUser
  <2>2. row \in AuthRow /\ row # None /\ row.user = auth.user
    BY <1>1, <1>2, <1>6, RevokedRow
  <2>3. RowsOK'
    BY <1>1, <1>2, <2>1, <2>2 DEF RowsOK
  <2>4. Active' = {}
    BY <1>1, <1>6 DEF Active
  <2>5. ActiveOK' /\ HeardOK'
    BY <2>4 DEF ActiveOK, HeardOK
  <2>6. ASSUME NEW q \in Proc, tx[q] # Idle, tx'[q] # Idle
        PROVE  ~Has(tx[q], "auth") /\ Leaves(tx[q], {})
    <3>1. q # p
      BY <1>4, <2>1, <2>6, Gone
    <3>2. ~Has(tx[q], "auth")
      BY <1>1, <1>2, <1>3, <2>6, <3>1, FreeAt DEF Object
    <3>3. tx[q].kind = "bind" => Len(bindings) < MaxBindings
      BY <2>6, BindHasRoom
    <3> QED BY <3>2, <3>3, <1>1, <2>1, <2>2 DEF Leaves
  <2>7. ASSUME NEW q \in Proc, tx[q].kind = "bind", tx'[q] # Idle PROVE tx[q].pc < 6
    <3>1. tx[q] # Idle
      BY <2>7 DEF Idle
    <3>2. ~Has(tx[q], "auth") /\ tx[q].pc \in 1..7
      BY <2>6, <2>7, <3>1, InvParts, TxOKFields
    <3> QED BY <2>7, <3>2 DEF Has, HasS
  <2> QED BY <1>1, <1>4, <2>1, <2>3, <2>5, <2>6, <2>7, ServiceStep
<1>7. CASE auth # None /\ auth.user = n.user /\ bindings # <<>>
  <2>1. Advance(p) /\ UNCHANGED <<auth, notices>>
    BY <1>7 DEF LockUser
  <2>2. ASSUME NEW u, Moves(t, u) PROVE TxInv(u)
    <3>1. u.kind = "authorization"
      BY <1>1, <2>2 DEF Moves, Follows
    <3> QED BY <1>7, <3>1 DEF TxInv
  <2>3. "auth" \in Object /\ X("auth") # X("binding")
    BY Distinct DEF Object
  <2> QED BY <1>1, <2>1, <2>2, <2>3, AdvanceStep DEF rows
<1> QED BY <1>5, <1>6, <1>7

\* A webhook at its last step has the installation to itself, so that what it
\* denies no bind has asked for.
LEMMA WebhookStep ==
  ASSUME GitHubInv, NEW p \in Proc, tx[p].kind \in Webhook, At(p, X("binding")), Free(p),
         UNCHANGED provider, NEW some, Deliver(p, some),
         DOMAIN bindings' = DOMAIN bindings, Len(bindings') = Len(bindings),
         \/ auth' = auth
         \/ tx[p].kind = "authorization" /\ auth' # None /\ auth'.user = auth.user,
         installation # None => installation' # None,
         RowsOK', ActiveOK', HeardOK'
  PROVE  GitHubInv'
<1> PICK t : t = tx[p]
  OBVIOUS
<1> PICK changed : changed = Revisions(some)
  OBVIOUS
<1>1. /\ TypeOK /\ TxsOK /\ tx[p] # Idle /\ TxOK(t) /\ TxInv(t) /\ AtMeans(t, X("binding"))
  BY InvParts, AtStep
<1>2. Commit(p, changed) /\ notices' = notices \ {t.input.notice}
  BY DEF Deliver
<1>3. /\ ~t.expiring /\ HasX(t, "installation")
      /\ t.kind = "authorization" => HasX(t, "auth")
  BY <1>1 DEF AtMeans, TxOK, PcOK, HasX, Webhook, Hooks
<1>4. ASSUME NEW q \in Proc, tx[q] # Idle, tx'[q] # Idle
      PROVE  /\ ~Has(tx[q], "installation") /\ ~Has(tx[q], "binding")
             /\ t.kind = "authorization" => ~Has(tx[q], "auth")
  <2>1. q # p
    BY <1>2, <1>4, Gone
  <2>2. ~Has(tx[q], "installation") /\ (t.kind = "authorization" => ~Has(tx[q], "auth"))
    BY <2>1, <1>1, <1>3, <1>4, Excluded DEF Object
  <2>3. ~Has(tx[q], "binding")
    BY <2>1, <1>1, <1>3, <1>4, FreeAt DEF Object
  <2> QED BY <2>2, <2>3
<1>5. ASSUME NEW q \in Proc, tx[q] # Idle, tx'[q] # Idle PROVE Leaves(tx[q], changed)
  <2>1. tx[q].kind = "bind" => Len(bindings) < MaxBindings
    BY <1>5, BindHasRoom
  <2>2. Project \notin changed
    BY DEF Project, Revisions, Binding
  <2>3. auth # None => auth' # None /\ auth'.user = auth.user
    OBVIOUS
  <2>4. Has(tx[q], "auth") => auth' = auth
    BY <1>4, <1>5
  <2> QED BY <1>4, <1>5, <2>1, <2>2, <2>3, <2>4 DEF Leaves
<1>6. ASSUME NEW q \in Proc, tx[q].kind = "bind", tx'[q] # Idle PROVE tx[q].pc < 6
  <2>1. tx[q] # Idle
    BY <1>6 DEF Idle
  <2>2. ~Has(tx[q], "installation") /\ tx[q].pc \in 1..7
    BY <1>4, <1>6, <2>1, InvParts, TxOKFields
  <2> QED BY <1>6, <2>2 DEF Has, HasX
<1>7. Ends(changed)
  BY <1>2 DEF Ends
<1>8. notices' \subseteq notices
  BY <1>2
<1> QED BY <1>5, <1>6, <1>7, <1>8, ServiceStep

\* A revoked authorization leaves no binding active.
LEMMA ProcessAuthorizationStep ==
  ASSUME GitHubInv, NEW p \in Proc, ProcessAuthorization(p) PROVE GitHubInv'
<1> PICK t : t = tx[p]
  OBVIOUS
<1>1. /\ t.kind = "authorization" /\ At(p, X("binding")) /\ Free(p)
      /\ UNCHANGED <<attempts, installation, provider>>
  BY DEF ProcessAuthorization
<1>2. RowsOK /\ tx[p] # Idle /\ TxOK(t) /\ TxInv(t) /\ AtMeans(t, X("binding"))
  BY <1>1, InvParts, AtStep
<1>3. auth # None
  <2>1. t.pc = 3
    BY <1>1, <1>2 DEF AtMeans, Hooks
  <2> QED BY <2>1, <1>1, <1>2 DEF TxInv
<1> PICK row : row = Revoked(p)
  OBVIOUS
<1>5. row \in AuthRow /\ row.status = "revoked" /\ row.user = auth.user
  BY <1>1, <1>2, <1>3, RevokedRow
<1>6. row # None
  BY <1>1, <1>2, <1>3, RevokedRow
<1> PICK some : some = Having({"active", "revalidation_required", "user_revalidation_required"})
  OBVIOUS
<1> PICK f : f = Moved(some, "user_revalidation_required")
  OBVIOUS
<1>7. auth' = row /\ bindings' = f /\ Deliver(p, some)
  BY DEF ProcessAuthorization
<1>8. /\ f \in Seq(BindingRow) /\ Len(f) = Len(bindings) /\ DOMAIN f = DOMAIN bindings
      /\ \A b \in DOMAIN bindings :
           f[b].status = IF b \in some THEN "user_revalidation_required" ELSE bindings[b].status
  <2>1. "user_revalidation_required" \in BindingStatus
    BY DEF BindingStatus
  <2>2. MovedTo(f, some, "user_revalidation_required")
    BY <2>1, MovedRows, Zenon
  <2> QED BY <2>2 DEF MovedTo
<1>9. Active' = {}
  BY <1>7, <1>8 DEF Active, Having
<1>10. ActiveOK' /\ HeardOK'
  BY <1>9 DEF ActiveOK, HeardOK
<1>11. RowsOK'
  BY <1>1, <1>2, <1>5, <1>7, <1>8 DEF RowsOK
<1>12. t.kind \in Webhook
  BY <1>1 DEF Webhook
<1>13. /\ DOMAIN bindings' = DOMAIN bindings /\ Len(bindings') = Len(bindings)
       /\ auth' # None /\ auth'.user = auth.user /\ installation' = installation
  BY <1>1, <1>5, <1>6, <1>7, <1>8
<1> QED BY <1>1, <1>7, <1>10, <1>11, <1>12, <1>13, WebhookStep

\* An event of the installation leaves no binding active.
LEMMA ProcessInstallationStep ==
  ASSUME GitHubInv, NEW p \in Proc, ProcessInstallation(p) PROVE GitHubInv'
<1> PICK t : t = tx[p]
  OBVIOUS
<1>1. /\ t.kind = "installation" /\ At(p, X("binding")) /\ Free(p)
      /\ UNCHANGED <<auth, attempts, provider>>
  BY DEF ProcessInstallation
<1>2. RowsOK /\ tx[p] # Idle /\ TxOK(t) /\ TxInv(t)
  BY <1>1, InvParts, AtStep
<1>3. installation \in InstallationRow
  BY <1>1, <1>2 DEF TxInv, RowsOK
<1> PICK action : action = t.input.notice.action
  OBVIOUS
<1> PICK next : next = InstallationStatus(installation.status, action)
  OBVIOUS
<1>4. next \in {"suspended", "deleted", "revalidation_required"}
  BY DEF InstallationStatus
<1> PICK some : some = Having(IF next = "deleted" THEN BindingStatus
                              ELSE IF action \in {"suspend", "unsuspend"} THEN Revocable
                              ELSE Revocable \ {"installation_suspended"})
  OBVIOUS
<1> PICK status : status = IF next = "deleted" THEN "installation_deleted"
                           ELSE IF action = "suspend" THEN "installation_suspended"
                           ELSE "revalidation_required"
  OBVIOUS
<1>5. status \in BindingStatus /\ status # "active"
  BY DEF BindingStatus
<1> PICK f : f = Moved(some, status)
  OBVIOUS
<1>6. installation' = [installation EXCEPT !.status = next] /\ bindings' = f /\ Deliver(p, some)
  BY DEF ProcessInstallation
<1>7. /\ f \in Seq(BindingRow) /\ Len(f) = Len(bindings) /\ DOMAIN f = DOMAIN bindings
      /\ \A b \in DOMAIN bindings :
           f[b].status = IF b \in some THEN status ELSE bindings[b].status
  <2>1. MovedTo(f, some, status)
    BY <1>5, MovedRows, Zenon
  <2> QED BY <2>1 DEF MovedTo
<1>8. \A b \in DOMAIN bindings : bindings[b].status = "active" => b \in some
  BY DEF Having, BindingStatus, Revocable
<1>9. Active' = {}
  <2>1. ASSUME NEW b \in DOMAIN bindings PROVE f[b].status # "active"
    <3>1. f[b].status = IF b \in some THEN status ELSE bindings[b].status
      BY <1>7
    <3>2. bindings[b].status = "active" => b \in some
      BY <1>8
    <3> QED BY <1>5, <3>1, <3>2
  <2>2. bindings' = f /\ DOMAIN f = DOMAIN bindings
    BY <1>6, <1>7
  <2> QED BY <2>1, <2>2 DEF Active
<1>10. ActiveOK' /\ HeardOK'
  BY <1>9 DEF ActiveOK, HeardOK
<1>11. installation' \in InstallationRow /\ installation'.status = next
  BY <1>3, <1>4, <1>6 DEF InstallationRow
<1>12. installation' # None
  BY <1>4, <1>11 DEF None
<1>13. RowsOK'
  BY <1>1, <1>2, <1>6, <1>7, <1>11 DEF RowsOK
<1>14. /\ t.kind \in Webhook /\ auth' = auth
       /\ DOMAIN bindings' = DOMAIN bindings /\ Len(bindings') = Len(bindings)
  BY <1>1, <1>6, <1>7 DEF Webhook
<1> QED BY <1>1, <1>6, <1>10, <1>12, <1>13, <1>14, WebhookStep

\* A push adds a candidate and no status changes.
LEMMA ProcessPushStep ==
  ASSUME GitHubInv, NEW p \in Proc, ProcessPush(p) PROVE GitHubInv'
<1> PICK t : t = tx[p]
  OBVIOUS
<1>1. /\ t.kind = "push" /\ At(p, X("binding")) /\ Free(p) /\ Deliver(p, {})
      /\ UNCHANGED <<auth, attempts, installation, provider>>
  BY DEF ProcessPush
<1>2. RowsOK /\ tx[p] # Idle /\ TxOK(t)
  BY <1>1, InvParts, AtStep
<1> PICK bound : bound = {b \in Active : bindings[b].repo \in t.input.notice.repos
                                         /\ installation.status = "active"}
  OBVIOUS
<1> PICK f : f = [b \in DOMAIN bindings |->
                    IF b \in bound THEN AddSource(b, "candidate") ELSE bindings[b]]
  OBVIOUS
<1>3. bindings' = f
  BY DEF ProcessPush
<1>4. ASSUME NEW b \in DOMAIN bindings
      PROVE  /\ f[b] \in BindingRow /\ f[b].repo = bindings[b].repo
             /\ f[b].status = bindings[b].status
  <2>1. bindings[b] \in BindingRow /\ bindings[b].sources \cup {"candidate"} \in SUBSET Source
    BY BindingFields DEF Source
  <2>2. /\ AddSource(b, "candidate") \in BindingRow
        /\ AddSource(b, "candidate").repo = bindings[b].repo
        /\ AddSource(b, "candidate").status = bindings[b].status
    BY <2>1 DEF AddSource, BindingRow
  <2>3. f[b] = IF b \in bound THEN AddSource(b, "candidate") ELSE bindings[b]
    OBVIOUS
  <2> QED BY <2>1, <2>2, <2>3
<1>5. f \in Seq(BindingRow) /\ Len(f) = Len(bindings) /\ DOMAIN f = DOMAIN bindings
  BY <1>4, SameLength
<1>6. RowsOK'
  BY <1>1, <1>2, <1>3, <1>5 DEF RowsOK
<1>7. Active' = Active
  BY <1>3, <1>4, <1>5 DEF Active
<1>8. ActiveOK'
  BY <1>1, <1>7, InvParts DEF ActiveOK
<1>9. t.input.notice.event = "push"
  BY <1>1, <1>2 DEF TxOK, InputOK, Webhook
<1>10. HeardOK'
  <2>1. SUFFICES ASSUME NEW b \in Active PROVE Heard(bindings[b].repo)'
    BY <1>7 DEF HeardOK
  <2> PICK repo : repo = bindings[b].repo
    OBVIOUS
  <2>2. Heard(repo) /\ bindings'[b].repo = repo
    BY <1>3, <1>4, ActiveHeard DEF Active
  <2>3. notices' = notices \ {t.input.notice}
    BY <1>1 DEF Deliver
  <2>4. Heard(repo)'
    BY <1>1, <1>9, <2>2, <2>3, HeardStays DEF provider
  <2> QED BY <2>2, <2>4 DEF Heard, Pending
<1>11. /\ t.kind \in Webhook /\ DOMAIN bindings' = DOMAIN bindings
       /\ Len(bindings') = Len(bindings)
  BY <1>1, <1>3, <1>5 DEF Webhook
<1> QED BY <1>1, <1>6, <1>8, <1>10, <1>11, WebhookStep

\* A binding that stays active was neither removed nor in doubt, so that
\* another notice tells of what is missing.
LEMMA ProcessInstallationRepositoriesStep ==
  ASSUME GitHubInv, NEW p \in Proc, ProcessInstallationRepositories(p) PROVE GitHubInv'
<1> PICK t : t = tx[p]
  OBVIOUS
<1> PICK n : n = t.input.notice
  OBVIOUS
<1>1. /\ t.kind = "repositories" /\ At(p, X("binding")) /\ Free(p)
      /\ UNCHANGED <<auth, attempts, provider>>
  BY DEF ProcessInstallationRepositories
<1>2. RowsOK /\ tx[p] # Idle /\ TxOK(t) /\ TxInv(t)
  BY <1>1, InvParts, AtStep
<1>3. installation \in InstallationRow /\ n.event = "repositories" /\ n.selection \in Choice
  BY <1>1, <1>2 DEF TxInv, RowsOK, TxOK, InputOK, Webhook, NoticeOK
<1> PICK removed : removed = {b \in DOMAIN bindings : n.action = "removed"
                                /\ bindings[b].repo \in n.repos /\ bindings[b].status \in Revocable}
  OBVIOUS
<1> PICK doubtful : doubtful = {b \in Active \ removed : RevalidatesAll(n)}
  OBVIOUS
<1> PICK status : status = IF RevalidatesAll(n) /\ installation.status = "active"
                           THEN "revalidation_required" ELSE installation.status
  OBVIOUS
<1> PICK f : f = [b \in DOMAIN bindings |->
                    IF b \in removed THEN With(bindings[b], "access_removed")
                    ELSE IF b \in doubtful THEN With(bindings[b], "revalidation_required")
                    ELSE bindings[b]]
  OBVIOUS
<1>4. /\ installation' = [selection |-> n.selection, status |-> status]
      /\ bindings' = f /\ Deliver(p, removed \cup doubtful)
  BY DEF ProcessInstallationRepositories
<1>5. status \in {"active", "suspended", "deleted", "revalidation_required"}
  BY <1>3 DEF InstallationRow
<1>6. /\ installation' \in InstallationRow /\ installation'.status = status
  BY <1>3, <1>4, <1>5 DEF InstallationRow
<1>7. installation' # None
  BY <1>5, <1>6 DEF None
<1>8. ASSUME NEW b \in DOMAIN bindings
      PROVE  /\ f[b] \in BindingRow /\ f[b].repo = bindings[b].repo
             /\ f[b].status = "active" =>
                  b \in Active /\ b \notin removed /\ ~RevalidatesAll(n)
  <2>1. bindings[b] \in BindingRow
    BY BindingFields
  <2>2. ASSUME NEW s \in {"access_removed", "revalidation_required"}
        PROVE  /\ With(bindings[b], s) \in BindingRow /\ With(bindings[b], s).status = s
               /\ With(bindings[b], s).repo = bindings[b].repo
    BY <2>1 DEF With, BindingRow, BindingStatus
  <2>3. CASE b \in removed
    <3>1. f[b] = With(bindings[b], "access_removed")
      BY <2>3
    <3> QED BY <2>2, <3>1
  <2>4. CASE b \notin removed /\ b \in doubtful
    <3>1. f[b] = With(bindings[b], "revalidation_required")
      BY <2>4
    <3> QED BY <2>2, <3>1
  <2>5. CASE b \notin removed /\ b \notin doubtful
    <3>1. f[b] = bindings[b]
      BY <2>5
    <3> QED BY <2>1, <2>5, <3>1 DEF Active
  <2> QED BY <2>3, <2>4, <2>5
<1>9. f \in Seq(BindingRow) /\ Len(f) = Len(bindings) /\ DOMAIN f = DOMAIN bindings
  BY <1>8, SameLength
<1>10. RowsOK'
  BY <1>1, <1>2, <1>4, <1>6, <1>9 DEF RowsOK
<1>11. \A b \in Active' : b \in Active /\ b \notin removed /\ ~RevalidatesAll(n)
  BY <1>4, <1>8, <1>9 DEF Active
<1>12. ActiveOK'
  <2>1. \A b, c \in Active' : b = c
    BY <1>11, InvParts DEF ActiveOK
  <2>2. Active' # {} => /\ auth.status \in {"active", "expired"}
                        /\ installation.status \in {"active", "suspended"}
                        /\ status = installation.status
    BY <1>11, InvParts DEF ActiveOK
  <2> QED BY <2>1, <2>2, <1>1, <1>6 DEF ActiveOK
<1>13. HeardOK'
  <2>1. SUFFICES ASSUME NEW b \in Active' PROVE Heard(bindings[b].repo)'
    BY DEF HeardOK
  <2> PICK repo : repo = bindings[b].repo
    OBVIOUS
  <2>2. /\ b \in Active /\ b \in DOMAIN bindings /\ b \notin removed /\ ~RevalidatesAll(n)
        /\ Heard(repo) /\ bindings'[b].repo = repo /\ bindings[b].status = "active"
    BY <1>4, <1>8, <1>11, ActiveHeard DEF Active
  <2>3. ~(n.action = "removed" /\ (n.repos = {} \/ repo \in n.repos))
    BY <2>2 DEF RevalidatesAll, Revocable
  <2>4. notices' = notices \ {n}
    BY <1>4 DEF Deliver
  <2>5. app' = app /\ granted' = granted /\ alive' = alive /\ auth' = auth
    BY <1>1 DEF provider
  <2>6. /\ app' = "suspended" => Pending("installation", "suspend")'
        /\ app' = "deleted" => Pending("installation", "deleted")'
    BY <1>3, <2>2, <2>4, <2>5 DEF Heard, Pending
  <2>7. repo \notin granted' =>
          \E m \in notices' : /\ m.event = "repositories" /\ m.action = "removed"
                              /\ m.repos = {} \/ repo \in m.repos
    BY <2>2, <2>3, <2>4, <2>5 DEF Heard
  <2>8. (\A v \in alive' : v.user # auth'.user) =>
          \E m \in notices' : /\ m.event = "authorization" /\ m.action = "revoked"
                              /\ m.user = auth'.user
    BY <1>3, <2>2, <2>4, <2>5 DEF Heard
  <2>9. Heard(repo)'
    BY <2>6, <2>7, <2>8 DEF Heard
  <2> QED BY <2>2, <2>9 DEF Heard, Pending
<1>14. /\ t.kind \in Webhook /\ auth' = auth
       /\ DOMAIN bindings' = DOMAIN bindings /\ Len(bindings') = Len(bindings)
  BY <1>1, <1>4, <1>9 DEF Webhook
<1> QED BY <1>1, <1>4, <1>7, <1>10, <1>12, <1>13, <1>14, WebhookStep

-----------------------------------------------------------------------------
(* GitHub. *)

\* A change at GitHub that comes with its notice touches nothing else.
LEMMA GitHubStep ==
  ASSUME GitHubInv, UNCHANGED <<tx, rows>>, ProviderOK',
         \A repo : Heard(repo) => Heard(repo)'
  PROVE  GitHubInv'
<1>1. RowsOK' /\ ActiveOK' /\ Active' = Active /\ bindings' = bindings
  BY InvParts DEF RowsOK, ActiveOK, Active, rows
<1>2. HeardOK'
  <2>1. SUFFICES ASSUME NEW b \in Active PROVE Heard(bindings[b].repo)'
    BY <1>1 DEF HeardOK
  <2> PICK repo : repo = bindings[b].repo
    OBVIOUS
  <2>2. Heard(repo)'
    BY ActiveHeard
  <2> QED BY <2>2, <1>1 DEF Heard, Pending
<1>3. ASSUME NEW q \in Proc, tx[q] # Idle PROVE Spared(tx[q], {})
  <2>1. tx[q].kind = "bind" => Len(bindings) < MaxBindings
    BY <1>3, BindHasRoom
  <2>2. Leaves(tx[q], {})
    BY <2>1 DEF Leaves, rows
  <2> QED BY <2>2 DEF Spared
<1>4. Goes({})
  BY <1>3, GoesOn
<1> QED BY <1>1, <1>2, <1>4, RowStep

\* The notice that is sent.
LEMMA Sends ==
  ASSUME GitHubInv, NEW event, NEW action, NEW repos, NEW choice, NEW user,
         Send(event, action, repos, choice, user)
  PROVE  \E n : /\ notices' = notices \cup {n} /\ n.event = event /\ n.action = action
                /\ n.repos = repos /\ n.selection = choice /\ n.user = user
                /\ sent' \in 0..MaxNotices
<1> PICK i : i = CHOOSE id \in 1..MaxNotices :
                   [id |-> id, event |-> event, action |-> action, repos |-> repos,
                    selection |-> choice, user |-> user] \notin notices
  OBVIOUS
<1> PICK n : n = [id |-> i, event |-> event, action |-> action, repos |-> repos,
                  selection |-> choice, user |-> user]
  OBVIOUS
<1>1. notices' = notices \cup {n}
  BY DEF Send
<1>2. sent' \in 0..MaxNotices
  <2>1. sent \in 0..MaxNotices /\ sent < MaxNotices /\ sent' = sent + 1
    BY InvParts DEF Send, ProviderOK
  <2> QED BY <2>1, BoundsAssumption
<1>3. /\ n.event = event /\ n.action = action /\ n.repos = repos
      /\ n.selection = choice /\ n.user = user
  OBVIOUS
<1> QED BY <1>1, <1>2, <1>3, Zenon

\* GitHub suspends, restores or deletes the installation and says so.
LEMMA InstallationChanges ==
  ASSUME GitHubInv, Suspends \/ Unsuspends \/ Deletes \/ AcceptsPermissions
  PROVE  GitHubInv'
<1> PICK action : action = IF Suspends THEN "suspend" ELSE IF Unsuspends THEN "unsuspend"
                           ELSE IF Deletes THEN "deleted" ELSE "new_permissions_accepted"
  OBVIOUS
<1>1. /\ Send("installation", action, {}, "none", None)
      /\ UNCHANGED <<tx, rows, granted, selection, alive>>
  BY DEF Suspends, Unsuspends, Deletes, AcceptsPermissions, SendInstallation
<1>2. PICK n : /\ notices' = notices \cup {n} /\ n.event = "installation" /\ n.action = action
               /\ n.repos = {} /\ sent' \in 0..MaxNotices
  BY <1>1, Sends
<1>3. /\ app' \in {"installed", "suspended", "deleted"}
      /\ app' = "suspended" => action = "suspend" \/ app = "suspended"
      /\ app' = "deleted" => action = "deleted" \/ app = "deleted"
  BY InvParts DEF Suspends, Unsuspends, Deletes, AcceptsPermissions, ProviderOK
<1>4. NoticeOK(n)
  BY <1>2 DEF NoticeOK, Webhook
<1>5. ProviderOK'
  BY <1>1, <1>2, <1>3, <1>4, InvParts DEF ProviderOK
<1>6. ASSUME NEW repo, Heard(repo) PROVE Heard(repo)'
  BY <1>1, <1>2, <1>3, <1>6 DEF Heard, Pending, rows
<1> QED BY <1>1, <1>5, <1>6, GitHubStep

\* GitHub changes the granted repositories and says so.
LEMMA GrantChanges ==
  ASSUME GitHubInv,
         \/ \E kept \in SUBSET Repo : Selects(kept)
         \/ \E r \in Repo : Removes(r) \/ Adds(r)
  PROVE  GitHubInv'
<1>1. ASSUME NEW n, n.event = "repositories", NoticeOK(n), notices' = notices \cup {n},
             sent' \in 0..MaxNotices,
             UNCHANGED <<tx, rows, app, alive>>, selection' \in Choice, granted' \subseteq Repo,
             \A r \in granted \ granted' : n.action = "removed" /\ (n.repos = {} \/ r \in n.repos)
      PROVE  GitHubInv'
  <2>1. ProviderOK'
    BY <1>1, InvParts DEF ProviderOK
  <2>2. ASSUME NEW repo, Heard(repo) PROVE Heard(repo)'
    BY <1>1, <2>2 DEF Heard, Pending, rows
  <2> QED BY <1>1, <2>1, <2>2, GitHubStep
<1>2. ASSUME NEW kept \in SUBSET Repo, Selects(kept) PROVE GitHubInv'
  <2>1. PICK n : /\ notices' = notices \cup {n} /\ n.event = "repositories"
                 /\ n.action = "removed" /\ n.repos = {} /\ n.selection = "selected"
                 /\ sent' \in 0..MaxNotices
    BY <1>2, Sends DEF Selects
  <2>2. NoticeOK(n)
    BY <2>1 DEF NoticeOK, Webhook, Choice
  <2>3. selection' \in Choice /\ granted' \subseteq Repo /\ UNCHANGED <<tx, rows, app, alive>>
    BY <1>2 DEF Selects, Choice
  <2> QED BY <1>1, <2>1, <2>2, <2>3
<1>3. ASSUME NEW r \in Repo, Removes(r) PROVE GitHubInv'
  <2>1. PICK n : /\ notices' = notices \cup {n} /\ n.event = "repositories"
                 /\ n.action = "removed" /\ n.repos = {r} /\ n.selection = selection
                 /\ sent' \in 0..MaxNotices
    BY <1>3, Sends DEF Removes
  <2>2. selection \in Choice /\ granted \subseteq Repo
    BY InvParts DEF ProviderOK
  <2>3. NoticeOK(n)
    BY <2>1, <2>2 DEF NoticeOK, Webhook
  <2>4. selection' = selection /\ granted' = granted \ {r} /\ UNCHANGED <<tx, rows, app, alive>>
    BY <1>3 DEF Removes
  <2> QED BY <1>1, <2>1, <2>2, <2>3, <2>4
<1>4. ASSUME NEW r \in Repo, Adds(r) PROVE GitHubInv'
  <2>1. PICK n : /\ notices' = notices \cup {n} /\ n.event = "repositories"
                 /\ n.action = "added" /\ n.repos = {r} /\ n.selection = selection
                 /\ sent' \in 0..MaxNotices
    BY <1>4, Sends DEF Adds
  <2>2. selection \in Choice /\ granted \subseteq Repo
    BY InvParts DEF ProviderOK
  <2>3. NoticeOK(n)
    BY <2>1, <2>2 DEF NoticeOK, Webhook
  <2>4. selection' = selection /\ granted' = granted \cup {r}
        /\ UNCHANGED <<tx, rows, app, alive>>
    BY <1>4 DEF Adds
  <2> QED BY <1>1, <2>1, <2>2, <2>3, <2>4
<1> QED BY <1>2, <1>3, <1>4

\* A user's tokens end together, and GitHub says so.
LEMMA RevokesStep ==
  ASSUME GitHubInv, NEW u \in User, Revokes(u) PROVE GitHubInv'
<1>1. PICK n : /\ notices' = notices \cup {n} /\ n.event = "authorization"
               /\ n.action = "revoked" /\ n.repos = {} /\ n.user = u /\ sent' \in 0..MaxNotices
  BY Sends DEF Revokes
<1>2. alive' = {t \in alive : t.user # u} /\ UNCHANGED <<tx, rows, app, granted, selection>>
  BY DEF Revokes
<1>3. NoticeOK(n)
  BY <1>1 DEF NoticeOK, Webhook
<1>4. ProviderOK'
  BY <1>1, <1>2, <1>3, InvParts DEF ProviderOK
<1>5. ASSUME NEW repo, Heard(repo) PROVE Heard(repo)'
  <2>1. /\ app' = "suspended" => Pending("installation", "suspend")'
        /\ app' = "deleted" => Pending("installation", "deleted")'
    BY <1>1, <1>2, <1>5 DEF Heard, Pending
  <2>2. repo \notin granted' =>
          \E m \in notices' : /\ m.event = "repositories" /\ m.action = "removed"
                              /\ m.repos = {} \/ repo \in m.repos
    BY <1>1, <1>2, <1>5 DEF Heard
  <2>3. (\A t \in alive' : t.user # auth'.user) =>
          \E m \in notices' : /\ m.event = "authorization" /\ m.action = "revoked"
                              /\ m.user = auth'.user
    <3>1. auth' = auth
      BY <1>2 DEF rows
    <3>2. CASE u = auth.user
      BY <3>1, <3>2, <1>1
    <3>3. CASE u # auth.user
      BY <3>1, <3>3, <1>1, <1>2, <1>5 DEF Heard
    <3> QED BY <3>2, <3>3
  <2> QED BY <2>1, <2>2, <2>3 DEF Heard
<1> QED BY <1>2, <1>4, <1>5, GitHubStep

\* A push withdraws nothing.
LEMMA PushesStep ==
  ASSUME GitHubInv, NEW r \in Repo, Pushes(r) PROVE GitHubInv'
<1>1. PICK n : /\ notices' = notices \cup {n} /\ n.event = "push"
               /\ n.repos = {r} /\ sent' \in 0..MaxNotices
  BY Sends DEF Pushes
<1>2. UNCHANGED <<tx, rows, app, granted, selection, alive>>
  BY DEF Pushes
<1>3. NoticeOK(n)
  BY <1>1 DEF NoticeOK, Webhook
<1>4. ProviderOK'
  BY <1>1, <1>2, <1>3, InvParts DEF ProviderOK
<1>5. ASSUME NEW repo, Heard(repo) PROVE Heard(repo)'
  BY <1>1, <1>2, <1>5 DEF Heard, Pending, rows
<1> QED BY <1>2, <1>4, <1>5, GitHubStep

-----------------------------------------------------------------------------
(* The theorems. *)

\* Every action preserves the invariant.
LEMMA Inductive == GitHubInv /\ [Next]_vars => GitHubInv'
<1> SUFFICES ASSUME GitHubInv, [Next]_vars PROVE GitHubInv'
  OBVIOUS
<1>1. CASE UNCHANGED vars
  <2>1. UNCHANGED <<tx, rows, provider, notices>>
    BY <1>1 DEF vars, rows, provider
  <2>2. ProviderOK' /\ \A repo : Heard(repo) => Heard(repo)'
    BY <2>1, InvParts DEF ProviderOK, Heard, Pending, rows, provider
  <2> QED BY <2>1, <2>2, GitHubStep
<1>2. ASSUME NEW p \in Proc,
             \/ \E r \in Repo : StartBind(p, r)
             \/ \E kind \in {"read", "build", "resolve"} : StartWithSource(p, kind)
             \/ StartAdmission(p) \/ StartDiscovery(p) \/ StartLapsed(p)
             \/ \E n \in notices : StartRevocation(p, n) \/ StartWebhook(p, n)
             \/ \E a \in Attempt, u \in User : ExchangeCode(p, a, u)
      PROVE  GitHubInv'
  BY <1>2, StartBindStep, StartWithSourceStep, StartAdmissionStep, StartDiscoveryStep,
     StartLapsedStep, StartRevocationStep, StartWebhookStep, ExchangeCodeStep
<1>3. ASSUME NEW p \in Proc,
             \/ LiveAuthorization(p) \/ FindsLapsed(p) \/ MarkExpired(p)
             \/ ShareProject(p) \/ LockAuthorization(p) \/ AskGitHub(p)
             \/ LockInstallation(p) \/ ShareInstallation(p) \/ ShareBinding(p)
             \/ CommitHolder(p) \/ Dies(p)
      PROVE  GitHubInv'
  BY <1>3, LiveAuthorizationStep, FindsLapsedStep, MarkExpiredStep, ShareProjectStep,
     LockAuthorizationStep, AskGitHubStep, LockInstallationStep, ShareInstallationStep,
     ShareBindingStep, EndingSteps
<1>4. ASSUME NEW p \in Proc,
             \/ ReadNoAuthorization(p) \/ CompleteOauth(p) \/ CompleteFirst(p)
             \/ Discover(p) \/ CommitBind(p) \/ CommitResolve(p)
             \/ LockUser(p) \/ ProcessAuthorization(p) \/ ProcessInstallation(p)
             \/ ProcessInstallationRepositories(p) \/ ProcessPush(p)
      PROVE  GitHubInv'
  BY <1>4, ReadNoAuthorizationStep, CompleteSteps, DiscoverStep, CommitBindStep,
     CommitResolveStep, LockUserStep, ProcessAuthorizationStep, ProcessInstallationStep,
     ProcessInstallationRepositoriesStep, ProcessPushStep
<1>5. ASSUME \/ \E a \in Attempt : CreateAttempt(a) \/ AttemptExpires(a)
             \/ DeleteSource \/ EditProject
      PROVE  GitHubInv'
  BY <1>5, AttemptSteps, DeleteSourceStep, EditProjectStep
<1>6. ASSUME \/ Suspends \/ Unsuspends \/ Deletes \/ AcceptsPermissions
             \/ \E kept \in SUBSET Repo : Selects(kept)
             \/ \E r \in Repo : Removes(r) \/ Adds(r) \/ Pushes(r)
             \/ \E u \in User : Revokes(u)
      PROVE  GitHubInv'
  BY <1>6, InstallationChanges, GrantChanges, PushesStep, RevokesStep
<1>7. CASE Next
  BY <1>7, <1>2, <1>3, <1>4, <1>5, <1>6, Zenon DEF Next
<1> QED BY <1>1, <1>7

\* Every state of the connection, its bindings and its transactions satisfies
\* the inductive invariant.
THEOREM InvariantHolds == Spec => []GitHubInv
BY Initially, Inductive, PTL DEF Spec

\* The invariant implies each property.
LEMMA InvImpliesType == GitHubInv => TypeOK
BY DEF GitHubInv

\* The tables hold rows that they can hold, and a transaction stays within its
\* program (migration 0005, github.rs, github_webhooks.rs).
THEOREM TypeCorrect == Spec => []TypeOK
BY InvariantHolds, InvImpliesType, PTL

\* The order of the locks is enough.
LEMMA InvImpliesNoDeadlock == GitHubInv => NoDeadlock
BY OrderIsEnough DEF GitHubInv

\* No set of transactions waits in a circle, whatever their number: every
\* handler locks project, authorization, installation and binding in this
\* order (bind_source, resolve_source, the two source snapshots,
\* ensure_source_context, process_authorization and the other webhooks).
THEOREM NeverDeadlocks == Spec => []NoDeadlock
BY InvariantHolds, InvImpliesNoDeadlock, PTL

\* A transaction that holds all its locks is a reader at its end.
LEMMA InvImpliesReadHolds == GitHubInv => ReadHolds
<1>1. SUFFICES ASSUME GitHubInv, NEW p \in Proc, Holding(p)
               PROVE  /\ auth.status = "active" /\ installation.status = "active"
                      /\ tx[p].kind # "admit" => auth.revision = tx[p].authorization
                                                 /\ Project \in tx[p].seen
                      /\ bindings[tx[p].binding].status \in
                           {"active"} \cup (IF tx[p].kind = "build" THEN {"disabled"} ELSE {})
                      /\ tx[p].kind = "read" => Binding(tx[p].binding) \in tx[p].seen
  BY DEF ReadHolds
<1> PICK t : t = tx[p]
  OBVIOUS
<1>2. TypeOK /\ tx[p] # Idle
  BY <1>1, InvParts DEF Holding
<1>3. TxOK(t) /\ TxInv(t)
  BY <1>1, <1>2, InvParts
<1>4. (t.kind \in {"read", "admit"} /\ t.pc = 5) \/ (t.kind = "build" /\ t.pc = 4)
  BY <1>1, <1>2, <1>3, StepMeans DEF TxOK
<1>5. CASE t.kind = "read" /\ t.pc = 5
  BY <1>3, <1>5 DEF TxInv, ReaderInv
<1>6. CASE t.kind = "build" /\ t.pc = 4
  BY <1>3, <1>6 DEF TxInv, ReaderInv
<1>7. CASE t.kind = "admit" /\ t.pc = 5
  BY <1>3, <1>7 DEF TxInv, AdmitInv
<1> QED BY <1>4, <1>5, <1>6, <1>7

\* While a compatibility report, a build source or an admission holds its
\* locks, the authorization, the installation, the project and the binding are
\* as it checked them (authorized_source_snapshot,
\* authorized_build_source_snapshot, ensure_source_context).
THEOREM ReadsHold == Spec => []ReadHolds
BY InvariantHolds, InvImpliesReadHolds, PTL

\* Some notice of the withdrawal is pending.
LEMMA InvImpliesDenialHeard == GitHubInv => DenialHeard
<1>1. SUFFICES ASSUME GitHubInv, NEW b \in Active
               PROVE  /\ app = "suspended" => Pending("installation", "suspend")
                      /\ app = "deleted" => Pending("installation", "deleted")
                      /\ bindings[b].repo \notin granted => Pending("repositories", "removed")
                      /\ (\A t \in alive : t.user # auth.user) =>
                           Pending("authorization", "revoked")
  BY DEF DenialHeard
<1>2. Heard(bindings[b].repo)
  BY <1>1, ActiveHeard
<1> QED BY <1>2 DEF Heard, Pending

\* A binding is active against what GitHub grants only as long as the notice
\* of the withdrawal is still to be handled (github_webhooks.rs, bind_source).
THEOREM DenialsHeard == Spec => []DenialHeard
BY InvariantHolds, InvImpliesDenialHeard, PTL

\* Any two active bindings are the same one.
LEMMA InvImpliesActiveIsAuthorized == GitHubInv => ActiveIsAuthorized
<1> SUFFICES ASSUME GitHubInv PROVE ActiveIsAuthorized
  OBVIOUS
<1>1. ActiveOK
  BY InvParts
<1>2. Cardinality(Active) <= 1
  <2>1. CASE Active = {}
    BY <2>1, FS_EmptySet
  <2>2. CASE Active # {}
    <3>1. PICK b : b \in Active
      BY <2>2
    <3>2. Active = {b}
      BY <1>1, <3>1 DEF ActiveOK
    <3>3. Cardinality({b}) = 1
      BY FS_Singleton
    <3> QED BY <3>2, <3>3
  <2> QED BY <2>1, <2>2
<1> QED BY <1>1, <1>2 DEF ActiveOK, ActiveIsAuthorized

\* The project has one active binding at most, under an authorization that was
\* not revoked and an installation that is not denied (bind_source,
\* process_authorization, process_installation).
THEOREM AlwaysAuthorized == Spec => []ActiveIsAuthorized
BY InvariantHolds, InvImpliesActiveIsAuthorized, PTL
=============================================================================
