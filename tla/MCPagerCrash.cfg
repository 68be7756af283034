SPECIFICATION CrashSpec
CONSTANTS
  MaxPages = 4
  LengthWrap = 1048576
  Contents = {blank, rows}
  Blank = blank
INVARIANT
  SavedDatabaseSurvives
