SPECIFICATION Spec
CONSTANTS
  N = 4
  Limit = 2
  NGlobals = 0
  MaxFrame = 2
  Uses = {"box", "cons", "quote"}
  Literals = {"data"}
INVARIANTS
  TypeOK
  NoDangling
  NoCellLost
PROPERTIES
  Untouched
  ExactSweep
  FullAfterGc
VIEW BoundSlots
CONSTRAINT StaysTame
CHECK_DEADLOCK FALSE
