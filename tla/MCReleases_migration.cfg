SPECIFICATION LiveSpec
CONSTANTS
  Projects = {"a"}
  Home <- ThreeOfOne
  Migrating = {3}
  MaxAttempts = 4
  Retained = 1
  Outcomes = {"failed"}
  Losses = {"archive", "facts", "secrets"}
  MaxRecs = 3
  MaxFence = 5
  Faults = 2
INVARIANTS
  AppliedWasValidated
PROPERTIES
  PreparedActivates
CHECK_DEADLOCK FALSE
