\* A stream longer than the ring buffer, four calls, one cancellation.
CONSTANTS
  Length = 3
  Capacity = 2
  Prebuffer = 2
  PrebufferMin = 1
  MaxCalls = 4
  MaxCancels = 1
SPECIFICATION FairSpec
INVARIANTS
  TypeOK
  PositionExact
  StateIsTrue
PROPERTIES
  CallsReturn
  PlayingEnds
CHECK_DEADLOCK FALSE
