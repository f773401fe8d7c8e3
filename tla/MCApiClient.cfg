\* Two tasks of one daemon and one of another, which may share the file.
CONSTANTS
  d1 = d1  d2 = d2  c1 = c1  c2 = c2  c3 = c3
  Daemons = {d1, d2}
  Callers = {c1, c2, c3}
  Home <- Homes
  Installs = {1, 2}
  Devices = {1}
  Nobody = Nobody
  NoDevice = NoDevice
  MaxCounter = 2
SPECIFICATION FairSpec
INVARIANTS
  CountersAreFresh
  ConnectedIsProvisioned
PROPERTIES
  CredentialIsKept
  CallsReturn
CHECK_DEADLOCK FALSE
