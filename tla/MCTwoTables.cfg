SPECIFICATION Spec
CONSTANTS
  LeafMaxCells = 3
  Keys = {1, 2, 3, 4}
  Builds = {3}
  Tables = 2
INVARIANTS
  EveryPageOwnedOnce
PROPERTIES
  OtherTablesUntouched
  ImplementsTables
  CallsReturn
