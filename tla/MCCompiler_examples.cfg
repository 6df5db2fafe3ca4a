SPECIFICATION CompilerSpec
INVARIANT AsDocumented
CONSTANTS
  ValueBits = 15
  Queues <- No
  Damaged <- No
  Idents = {"x", "f", "a", "b", "c", "r", "t"}
  Digits = {"1", "2", "3", "4", "5", "7"}
  Jobs <- Examples
CHECK_DEADLOCK FALSE
