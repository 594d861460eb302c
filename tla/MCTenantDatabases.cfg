SPECIFICATION FairSpec
CONSTANTS
  Worker = {w1, w2}
  Migration = {m1}
  Export = {"e"}
  MaxAttempts = 2
  Horizon = 1
  MaxTrouble = 1
  MaxQueue = 1
  MaxArchives = 2
  Retention = 0
  ExportTTL = 0
  WeekDays = 7
  Faults = {"retriable", "failed"}
INVARIANTS
  UsableRestores
  MigratedOnce
  SuccessIsRecorded
PROPERTY
  OperationsSettle
CHECK_DEADLOCK FALSE
