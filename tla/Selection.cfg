SPECIFICATION QuerySpec
CONSTANTS
  Hosts <- MCHosts
  Pairs <- MCPairs
  MaxPairs = 3
  MaxDuration = 3
INVARIANTS
  AnswerFitsTheQuery
