SPECIFICATION Spec
CONSTANTS
  Workers = {w1}  Commands <- Cmds  Conditions <- MCConditions
  NumFrames = 3  BufferSize = 2  NumCameras = 1
  Height = 3  HalfKernel = 1  NumParticles = 1  Unit <- MCUnit  Rounds = {1}
PROPERTY ImagesArrive
CHECK_DEADLOCK FALSE
