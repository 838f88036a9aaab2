CONSTANTS
  Source = {s1, s2}
  Object = {o1, o2}
  None = None
  MaxTokens = 2
  Capacity = 1
  MaxDropped = 1
  Memory = 4
  Machines = 3
  Programs <- TwoPrograms
  Owner = {p1, p2}
SPECIFICATION PioSpec
INVARIANTS TriggersAccounted EventsOwned ProgramsOwned
PROPERTIES TriggerDelivered
CHECK_DEADLOCK FALSE
