\* The daemon's own number of attempts, three revisions after the first.
CONSTANTS
  None = None
  MaxVisible = 2
  MaxAttempts = 6
  MaxDelay = 8
  MaxUpcoming = 3
  MaxRevision = 4
SPECIFICATION FairSpec
INVARIANTS
  CallsAreBounded
PROPERTIES
  AdvancesAtEnd
  EndIsActedOn
