CONSTANTS
  Channel = {c1, c2}
  Line = {l1, l2}
  Transfer = {t1, t2}
  Buffer = {b1, b2}
  l1 = l1
  l2 = l2
  b1 = b1
  b2 = b2
  None = None
  Request <- CopiesAndChains
  MaxTokens = 2
  MaxCount = 1
  Capacity = 1
  MaxDropped = 1
CHECK_DEADLOCK FALSE
SPECIFICATION FairSpec
INVARIANTS ResourcesBalanced EventsOwned DmaTargetsAllocated
PROPERTIES CompletionDelivered
