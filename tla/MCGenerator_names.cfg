SPECIFICATION Spec
CONSTANTS
  x = x
  y = y
  f = f
  g = g
  binary1 = binary1
  NoName = NoName
  Temporary = Temporary
  Names = {x, y, f, g, binary1, Temporary}
  Labels = {binary1}
  Programs <- MCPrograms
  Levels <- MCLevels
INVARIANTS
  TypeOK
  SlotsFollow
  WithinCapacity
  ScopesClosed
  ReadsItsBinding
  RefusesOnlyUnbound
  JumpsAreLast
  LastCallsJump
PROPERTIES
  UsesTable
CHECK_DEADLOCK FALSE
