SPECIFICATION Spec
CONSTANTS
  Client = {c1, c2, c3}
  NumWorkers = 2
  MaxConns = 2
  NEW_STREAM_COUNT_INC = 4
  KEEP_ALIVE_COUNT_INC = 1
  FdQueue = 1
  ReadMax = 1
  KeepAliveBound = 1
  SigintBound = 0
  Faults = {"registry", "poll"}
SYMMETRY Symmetry
INVARIANT TypeOK
INVARIANT ProcessingIsWithWorkers
INVARIANT LoadCounted
INVARIANT EachStreamOnce
INVARIANT ConnsBounded
PROPERTY ServesClients
