CONSTANTS
  Capacity = 1
  CriticalCapacity = 2
  MaxScans = 2
  MaxConnections = 3
  MaxStarts = 2
CHECK_DEADLOCK FALSE
SPECIFICATION FairLinkSpec
INVARIANTS EventHistory AdvertisingAccounted
PROPERTIES ConnectResolved
