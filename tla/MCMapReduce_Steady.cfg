SPECIFICATION FairSpec
CONSTANTS
    Args <- ArgsSteady
    KeyOf <- MCKeyOf
    Hash <- MCHash
    ChunkSize = 2
    DefaultTasks = 5
    ExtendedTasks = 4
INVARIANTS
    TypeOK
    EachUnitOnce
    SortedOutput
PROPERTY
    Terminates
