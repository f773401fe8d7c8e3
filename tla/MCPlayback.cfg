\* Two clients and the tick over two overlapping requests, two revisions.
CONSTANTS
  c1 = c1
  c2 = c2
  Clients = {c1, c2}
  Ticker = Ticker
  Nobody = Nobody
  Sent <- QueueCommands
  MaxRequests = 2
  MaxRevision = 2
SPECIFICATION Spec
SYMMETRY ClientSymmetry
INVARIANTS
  PendingHasWorker
  TransitionsOwnSession
  StaleQueueIsExplained
PROPERTY ProjectionNeverRegresses
