SPECIFICATION Spec
CONSTANTS
  p1 = p1  p2 = p2
  Producers = {p1, p2}  Consumers = {c1, c2}
  QThreads <- MCThreads  Blocks = {p1, p2}  Releasers = {c1, c2}
  Handles <- MCHandles  Items <- MCHandles
  ChunkSize <- MCChunkSize
  MaxSize = 3  MaxMoves = 1
  QueueSize = 2  NProducers = 2  PerInsert = 2  PerFetch = 2
  None = None  NoItem = NoItem
INVARIANTS TypeOK NoHandleDangles FreedByTheLast ExclusiveAccess
PROPERTIES ImplementsChannel
