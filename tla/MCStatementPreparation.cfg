SPECIFICATION PrepareSpec
CONSTANTS
  Lines <- MCLines
  Schema <- MCSchema
  Tables <- MCTables
  KeyColumn = 3
  ByteMax = 3
  IntSize = 2
  Constants <- MCConstants
  NameMax = 4
  SqlMax = 70
  FirstCapacity = 16
  CellSpace = 4082
  MinRows = 3
  Word = 8192
INVARIANTS
  NothingLeaks
  RefusedForFirstFault
  BoundWhereIsWhole
  TargetsInBounds
  InsertJudged
  RowAsWritten
  StoredOrderIsValueOrder
  RefusedForMostBasicFault
  RowsFitLeaf
  DefinitionReturns
