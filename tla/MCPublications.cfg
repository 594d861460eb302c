SPECIFICATION LiveSpec
CONSTANTS
  MaxDocs = 2
  Leases <- NewerRetried
INVARIANTS
  OnlyItsWorkerTears
  RowsAgree
  LiveInOrder
PROPERTIES
  PromotionFinishes
CHECK_DEADLOCK FALSE
