CONSTANTS
  c0 = c0
  c1 = c1
  main0 = main0
  isr0 = isr0
  main1 = main1
  Core <- MCCore
  Thread <- MCThread
  Handler <- MCHandler
  CoreOf <- MCCoreOf
  Consumer = main0
  Event = {e1, e2}
  NoEvent = NoEvent
  Nobody = Nobody
  Capacity = 2
  Wrap = 4
  MaxDropped = 1
  MaxPosts = 4
SPECIFICATION FairSpec
INVARIANTS LockDiscipline NoLostWakeup
PROPERTIES ImplementsQueue ImplementsFairQueue
