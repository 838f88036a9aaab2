CONSTANTS
  Status = {down, joining, up}
  Down = down
  MaxScans = 2
  MaxSockets = 1
  Capacity = 2
  MaxDropped = 1
CHECK_DEADLOCK FALSE
SPECIFICATION FairSpec
INVARIANTS RadioClaimed EventHistory
PROPERTY OutcomesReported
