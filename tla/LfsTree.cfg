SPECIFICATION Spec
CONSTANTS
  Blocks = 12
  Path <- MCPath
  Kinds = {"create", "mkdir", "remove", "rename"}
  Setup <- MCSetup
  Cap = 2
  FaultyKinds = {"create", "remove"}
  MaxOps = 9
  MaxTrouble = 1
  MaxLosses = 2
INVARIANTS MetadataConsistent HandleNamesItsEntry
PROPERTY ImplementsAtomicTree
CHECK_DEADLOCK FALSE
