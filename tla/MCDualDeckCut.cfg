SPECIFICATION Spec
CONSTANTS
  Steps = 2
  MaxVolume = 1
  MaxGeneration = 3
INVARIANTS
  HeardIsDecoded
CHECK_DEADLOCK FALSE
