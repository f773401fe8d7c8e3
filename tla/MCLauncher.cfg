\* Two launchers, a daemon of a replaced executable, and one for each launcher.
CONSTANTS
  l1 = l1  l2 = l2  d0 = d0  d1 = d1  d2 = d2
  Launchers = {l1, l2}
  Daemons = {d0, d1, d2}
  Old = {d0}
  NoDaemon = NoDaemon
  Tries = 2
SPECIFICATION LauncherFairSpec
INVARIANTS
  LiveSocketIsKept
  HandoverIsClean
PROPERTIES
  HandoversEnd
CHECK_DEADLOCK FALSE
