\* One client with every command and the tick over two requests, with the fairness
\* of the runtime: audio, refinement and termination.
CONSTANTS
  c1 = c1
  c2 = c2
  Clients = {c1}
  Ticker = Ticker
  Nobody = Nobody
  Sent <- AllCommands
  MaxRequests = 2
  MaxRevision = 1
SPECIFICATION FairSpec
PROPERTIES
  NobodyWaitsForever
  AudioNeverGoesBack
  ImplementsLatestRequest
INVARIANTS
  DisplayMatchesAudio
