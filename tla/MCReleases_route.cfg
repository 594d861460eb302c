SPECIFICATION Spec
CONSTANTS
  Projects = {"a"}
  Home <- ThreeOfOne
  Migrating = {}
  MaxAttempts = 2
  Retained = 1
  Outcomes = {"failed", "retriable"}
  Losses = {"healthy", "evaluated", "secrets"}
  MaxRecs = 5
  MaxFence = 3
  Faults = 2
INVARIANTS
  GatewayServesPrepared
  RoutedIsHealthy
  OneAttempt
CHECK_DEADLOCK FALSE
