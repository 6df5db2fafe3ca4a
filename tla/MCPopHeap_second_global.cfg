SPECIFICATION Spec
CONSTANTS
  N = 4
  Limit = 2
  NGlobals = 2
  MaxFrame = 1
  Uses = {"box", "global"}
  Literals = {"data"}
PROPERTIES
  GlobalsMarked
VIEW BoundSlots
CHECK_DEADLOCK FALSE
