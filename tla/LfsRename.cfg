SPECIFICATION Spec
CONSTANTS
  Blocks = 12
  Path <- MCPath
  Kinds = {"create", "mkdir", "remove", "rename"}
  Setup <- MCSetup
  Cap = 2
  FaultyKinds = {"rename"}
  MaxOps = 9
  MaxTrouble = 1
  MaxLosses = 0
INVARIANT CallsAreAtomic
CHECK_DEADLOCK FALSE
