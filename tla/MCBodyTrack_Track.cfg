SPECIFICATION Spec
CONSTANTS
  Workers = {w1, w2}  Commands <- Cmds  Conditions <- MCConditions
  NumFrames = 3  BufferSize = 2  NumCameras = 1
  Height = 4  HalfKernel = 1  NumParticles = 1  Unit <- MCUnit  Rounds = {1}
INVARIANTS TypeOK FramesInOrder
PROPERTY ImplementsForkJoin
CHECK_DEADLOCK FALSE
