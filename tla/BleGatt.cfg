CONSTANTS
  Capacity = 2
  CriticalCapacity = 2
  MaxConns = 2
  MaxQueries = 2
  MaxPeer = 2
CHECK_DEADLOCK FALSE
SPECIFICATION FairSpec
INVARIANTS AnswersInOrder QueryAccounted
PROPERTIES QueryAnswered
