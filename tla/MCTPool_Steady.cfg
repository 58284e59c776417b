SPECIFICATION FairSpec
CONSTANTS
    NumThreads = 3
    NumStages <- SteadyStages
    Size <- SteadySize
INVARIANTS
    TypeOK
    JoinSafe
    ShutdownComplete
PROPERTIES
    AllReturn
    ImplementsForkJoin
