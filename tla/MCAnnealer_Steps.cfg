SPECIFICATION Spec
CONSTANTS
  Threads = {t1, t2}  Slots = {0, 1, 2}  Values = {x, y, z}
  ATOMIC_NULL = ATOMIC_NULL  NoCall = NoCall
  x = x  y = y  z = z
  Placement <- MCPlacement  Wired <- MCWired  MovesPerStep = 1  NumberTempSteps = 2  MaxSteps = 2
INVARIANTS TypeOK LocationsDistinct
PROPERTIES LinearizableSwaps EverybodyReturns
