SPECIFICATION MCSpec
CONSTANTS
  N = 4
  Limit = 2
  NGlobals = 3
  MaxBlocks = 2
  Tags = {"none", "box", "list", "proc", "chain"}
INVARIANTS
  TypeOK
  DepthBounded
  MarksClosed
  MarksGone
  SkipsReturns
PROPERTIES
  Collects
  Terminates
CHECK_DEADLOCK FALSE
