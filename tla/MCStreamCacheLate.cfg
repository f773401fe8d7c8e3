\* A waiter that subscribes after the owner published.
CONSTANTS
  p1 = p1  p2 = p2  p3 = p3
  k1 = k1  k2 = k2  k3 = k3
  Callers = {p1, p2}
  Keys = {k1}
  NoKey = NoKey
  Capacity = 1
  MaxFlights = 2
SPECIFICATION FairSpec
PROPERTY JoinersReturn
CHECK_DEADLOCK FALSE
