SPECIFICATION FairSpec
CONSTANTS
    Worker = {w1, w2}
    Task = {a, b, c}
    Spawned = {c}
    NumQueues = 3
    NULL = NULL
INVARIANTS
    TypeOK
PROPERTIES
    StageEnds
    ImplementsTaskPool
