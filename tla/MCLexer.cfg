SPECIFICATION LexSpec
CONSTANTS
  Alphabets <- MCAlphabets
  Keywords <- MCKeywords
  MaxLength = 5
  IntMax = 127
  Digits = {1, 2, 7, 8}
  MaxDigits = 5
INVARIANTS
  TokensCoverLine
  StringsReadBack
  LiteralExact
CHECK_DEADLOCK FALSE
