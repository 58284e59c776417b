SPECIFICATION FairBucketSpec
CONSTANTS
    NumThreads = 2
    Keys = {1, 2, 3}
    ArrLen = 1
    ChunkLen = 1
    MaxEmits = 5
INVARIANTS
    BucketTypeOK
PROPERTIES
    ImplementsGroupByKey
    AllKeysReduced
