SPECIFICATION FairSpec
CONSTANTS
  NumRequests = 2
  NumStreams = 2
  Load <- MCLoad
  HeaderSize = 3
  BufferSize = 2
  HeaderRoom = 1
  Newlines = {1}
  MaxStarts = 2
  MaxYields = 2
  MaxChunks = 2
  MaxRaises = 1
INVARIANT TypeOK
INVARIANT WholeResponses
INVARIANT RequestsFramed
INVARIANT SlotsOwn
INVARIANT NotCutOff
PROPERTY ThreadComesBack
PROPERTY ResponsesEnd
