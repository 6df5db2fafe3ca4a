SPECIFICATION Spec
INVARIANTS
  TypeOK
  ReadsBack
  Accepts
  NoStale
  ReadsOrRefuses
  KeepsMeaning
PROPERTY
  PassesKeepMeaning
CONSTANTS
  ValueBits = 15
  Queues <- Compiled
  Damaged <- Small
CHECK_DEADLOCK FALSE
