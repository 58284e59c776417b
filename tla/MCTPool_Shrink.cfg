SPECIFICATION Spec
CONSTANTS
    NumThreads = 4
    NumStages <- ShrinkStages
    Size <- ShrinkSize
INVARIANT JoinSafe
