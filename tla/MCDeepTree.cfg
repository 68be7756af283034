SPECIFICATION MCSpec
CONSTANTS
  LeafMaxCells = 3
  Keys = {11, 12, 15}
  Builds = {3, 4}
  Tables = 1
  Filled = 22
INVARIANTS
  NoFatalExit
  Balanced
  SeparatorsExact
  ChainIsTree
