SPECIFICATION Spec
CONSTANTS
  zero = zero
  word = word
  unary = unary
  binary = binary
  lambda = lambda
  Link = Link
  Marker = Marker
  Junk = Junk
  Zero = zero
  Data <- MCData
  Procs <- MCProcs
  Results = {word, unary, binary, lambda}
  Params <- MCParams
  Env <- MCEnv
  MaxArgs = 2
  MaxWords = 8
  MaxLocals = 1
  MaxActs = 3
INVARIANTS
  TypeOK
  FrameExact
  RootsExact
  ReturnsHome
PROPERTIES
  MeansCalls
VIEW BoundWords
CHECK_DEADLOCK FALSE
