SPECIFICATION Spec
CONSTANTS
  N = 5
  Limit = 3
  NGlobals = 2
  MaxFrame = 1
  Uses = {"global", "quote", "lambda"}
  Literals = {"empty"}
INVARIANTS
  SafeInv
VIEW BoundSlots
CONSTRAINT StaysTame
CHECK_DEADLOCK FALSE
