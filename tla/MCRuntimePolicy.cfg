SPECIFICATION Spec
CONSTANTS
  a1 = a1
  a2 = a2
  Artifact <- TwoArtifacts
  Evidence <- MixedEvidence
  Subject = {s1, s2}
  Worker = {w1}
  MaxAllocations = 2
  MaxReceipts = 2
SYMMETRY Subjects
INVARIANTS
  IntentConsumedOnce
  AllocationJustified
  ObservationsConsistent
CHECK_DEADLOCK FALSE
