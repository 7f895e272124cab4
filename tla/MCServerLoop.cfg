SPECIFICATION LoopSpec
CONSTANTS
  Client = {c1, c2}
  NumWorkers = 1
  MaxConns = 2
  NEW_STREAM_COUNT_INC = 4
  KEEP_ALIVE_COUNT_INC = 1
  FdQueue = 1
  ReadMax = 1
  KeepAliveBound = 1
  SigintBound = 2
  Faults = {"worker"}
PROPERTY ServesClients
PROPERTY ShutdownEnds
PROPERTY EveryStreamComesBack
