SPECIFICATION Spec
CONSTANTS
  N = 5
  Limit = 3
  NGlobals = 0
  MaxFrame = 2
  Uses = {"box"}
  Literals = {"data"}
PROPERTIES
  GivesUpOnlyWhenFull
VIEW BoundSlots
CONSTRAINT StaysTame
CHECK_DEADLOCK FALSE
