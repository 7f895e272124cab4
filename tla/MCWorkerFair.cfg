SPECIFICATION FairSpec
CONSTANTS
  Token = {t1}
  Thread = {p1}
  MaxRequests = 1
  Faults = {"sigint", "client", "registry", "io", "thread"}
  NO_TOKEN = NO_TOKEN
  UNIX_STREAM_TOKEN = UNIX_STREAM_TOKEN
INVARIANT TypeOK
INVARIANT OneOwner
INVARIANT ExpectsHold
INVARIANT RequestsAccounted
INVARIANT ExitedIdle
PROPERTY ServesEachOnce
PROPERTY ClosingExits
PROPERTY EveryRequestAnswered
