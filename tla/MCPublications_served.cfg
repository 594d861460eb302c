SPECIFICATION Spec
CONSTANTS
  MaxDocs = 2
  Leases <- OnceEach
INVARIANTS
  CurrentIsServed
CHECK_DEADLOCK FALSE
