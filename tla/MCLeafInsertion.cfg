SPECIFICATION InsertSpec
CONSTANTS
  LeafMaxCells = 8
  MaxCells = 8
  MaxKey = 8
  Nodes <- MCNodes
  Wanted = {0, 1, 2, 3, 4, 5, 6, 7, 8, 9}
INVARIANTS
  FindsLowerBound
  KeysStayAscending
CHECK_DEADLOCK FALSE
