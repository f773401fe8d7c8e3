\* Fades of two steps, two volumes, two generations: every property.
SPECIFICATION FairSpec
CONSTANTS
  Steps = 2
  MaxVolume = 1
  MaxGeneration = 2
INVARIANTS
  GainsAreExact
  OneDeckHeard
  CancelReachesLoad
PROPERTIES
  OldFadesChangeNothing
  ImplementsBackend
  FadesEnd
CHECK_DEADLOCK FALSE
