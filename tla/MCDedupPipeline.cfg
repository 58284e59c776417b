SPECIFICATION Spec
CONSTANTS
  a = a  b = b
  Input <- MCInput
  NThreads = 3  ThreadsPerQueue = 2  QueueSize = 1
  PerInsert = 2  PerFetch = 2  AnchorRoom = 1  NoChunk = NoChunk
INVARIANTS TypeOK AssertionsHold Decodable
PROPERTIES ImplementsArchive EncodeReturns
