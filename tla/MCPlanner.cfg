SPECIFICATION PlannerSpec
CONSTANTS
  KeyMax = 2
  IntMax = 6
  Wheres <- MCWheres
  Others = {0, 1}
INVARIANTS
  PlanCoversMatches
  ConjunctionsAreExact
CHECK_DEADLOCK FALSE
