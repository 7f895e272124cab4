SPECIFICATION FairSpec
CONSTANTS
  NumRequests = 4
  Size <- MCSize
  FdQueue = 2
  SocketSize = 2
  WorkerBuffer = 2
  ServerBuffer = 2
  ServerRoom = 1
INVARIANT TypeOK
INVARIANT DescriptorsLead
INVARIANT ReadsGoOn
PROPERTY HandsOver
PROPERTY EveryMessageArrives
