SPECIFICATION Spec
CONSTANTS
  MaxPages = 5
  LengthWrap = 1048576
  Contents = {blank, rows}
  Blank = blank
INVARIANTS
  FreeListIntact
  OnlyUnsavedChangesLost
  SavedDatabaseSurvives
