SPECIFICATION Spec
CONSTANTS
  N = 5
  Limit = 3
  NGlobals = 0
  MaxFrame = 2
  Uses = {"string", "name", "append", "lambda"}
  Literals = {"empty"}
INVARIANTS
  SafeInv
PROPERTIES
  Untouched
VIEW BoundSlots
CONSTRAINT StaysTame
CHECK_DEADLOCK FALSE
