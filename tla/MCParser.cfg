CONSTANTS
  Tokens = {"SELECT", "INSERT", "INTO", "VALUES", "FROM", "WHERE", "CREATE", "TABLE", "DELETE",
            "PRIMARY", "KEY", "INT", "TEXT", "EXPLAIN", "name", "integer", "string",
            "(", ")", ",", ";", "*", "-", "op", "END", "AND", "OR", "NOT"}
  WhereTokens = {"integer", "-", "op", "END", "AND", "OR", "NOT", "(", ")", ";"}
  MaxTokens = 15
  MaxDepth = 2
  ListCapacity = 1
SPECIFICATION ParserSpec
INVARIANTS ParsedLinesAreGrammar LineRefusedAtFirstBadToken NestingLimitExact DepthBounded NothingLeaks
CHECK_DEADLOCK FALSE
