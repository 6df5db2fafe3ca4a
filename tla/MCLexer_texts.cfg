SPECIFICATION FairSpec
CONSTANTS
  Idents = {"a", "b", "x", "t", "f", "n", "g"}
  Digits = {"0", "1", "3"}
  Sources <- MCSources
INVARIANTS
  ReadsTokens
PROPERTIES
  OneExpression
  Ends
CHECK_DEADLOCK FALSE
