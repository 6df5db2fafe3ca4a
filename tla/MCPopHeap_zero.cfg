SPECIFICATION Spec
CONSTANTS
  N = 5
  Limit = 3
  NGlobals = 0
  MaxFrame = 2
  Uses = {"box"}
  Literals = {"data"}
PROPERTIES
  ReadsRepeat
VIEW BoundSlots
CHECK_DEADLOCK FALSE
