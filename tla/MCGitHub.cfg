SPECIFICATION Spec
CONSTANTS
  Proc = {p1, p2}
  User = {u1}
  Repo = {r1}
  Attempt = {a1, a2}
  MaxEarly = 1
  MaxBindings = 2
  MaxNotices = 2
SYMMETRY Symmetry
INVARIANTS
  ReadHolds
  ActiveIsAuthorized
  DenialHeard
  NoDeadlock
CHECK_DEADLOCK FALSE
