\* Three tasks over two keys and a cache of one entry, two flights.
CONSTANTS
  p1 = p1  p2 = p2  p3 = p3
  k1 = k1  k2 = k2  k3 = k3
  Callers = {p1, p2, p3}
  Keys = {k1, k2}
  NoKey = NoKey
  Capacity = 1
  MaxFlights = 2
SPECIFICATION FairSpec
INVARIANTS
  TypeOK
  FlightsHaveOneOwner
PROPERTY SubscribedAreReleased
CHECK_DEADLOCK FALSE
