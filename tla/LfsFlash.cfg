SPECIFICATION FlashSpec
CONSTANTS
  Files = {F, G}
  Handles = {h1, h2}
  BlockCount = 8
  BlockWords = 6
  PageWords = 3
  LookBits = 4
  FirstSizes = {0, 2, 8}
  Starts = {5}
  Modes = {"rw", "w", "wa"}
  Writes = {1, 5}
  Positions = {0, 4}
  MaxSize = 15
  Faults = {"refused", "wrong", "lost"}
  Fuses = {0, 1, 2, 3}
  DustyUse = FALSE
  NewBlockFails = FALSE
  MaxCalls = 3
  MaxFaults = 1
  MaxMoves = 1
  Blocks = 6
  Pages = 3
  Sizes = {1, 2}
  RevMod = 16
  FirstRevs = {15}
  NoiseRevs = {5, 13}
  BlockCycles = 1
  ParentFails = FALSE
  MaxCommits = 3
  MaxPairFaults = 1
  MaxLosses = 1
INVARIANTS FreeBlocksAreFree NoSpaceMeansFull AppendsToErased
PROPERTIES ImplementsAtomicFile ImplementsCell WearLevelled
SYMMETRY Alike
CHECK_DEADLOCK FALSE
