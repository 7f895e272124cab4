SPECIFICATION FairSpec
CONSTANTS
  NumThreads = 4
  MaxSends = 9
INVARIANT TypeOK
INVARIANT IndexInBounds
INVARIANT FailsOnlyWithoutThreads
INVARIANT Balanced
PROPERTY SendEnds
