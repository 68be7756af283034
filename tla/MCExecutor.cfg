SPECIFICATION ExecutorSpec
CONSTANTS
  LeafMaxCells = 3
  Keys = {0, 1, 2, 3, 4, 5}
  Builds = {3}
  Tables = 1
  KeyMax = 5
  IntMax = 8
  Wheres <- MCWheres
INVARIANTS
  ReadsOnlyTheRange
  OnlyChosenRowsGo
PROPERTIES
  StatementsEnd
  ImplementsStatements
