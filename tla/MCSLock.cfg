SPECIFICATION FairSpec
CONSTANTS
    Thread = {t1, t2, t3}
    NULL = NULL
INVARIANTS
    TypeOK
    MutualExclusion
    AssertionsHold
PROPERTIES
    ImplementsFIFOLock
