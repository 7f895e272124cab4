SPECIFICATION LoopSpec
CONSTANTS
  Token = {t1, t2}
  Thread = {p1}
  MaxRequests = 1
  Faults = {}
  NO_TOKEN = NO_TOKEN
  UNIX_STREAM_TOKEN = UNIX_STREAM_TOKEN
INVARIANT PendingAccounting
INVARIANT ThreadsAgree
PROPERTY ServesEachOnce
PROPERTY EveryReadEnds
PROPERTY EveryStartedRequestEnds
