\* Two clients ask for one track; three tasks may be alive.
CONSTANTS
  Tracks = {t1}
  Clients = {c1, c2}
  Tasks = {j1, j2, j3}
  Chunk = 2
  Size <- MCSize
SPECIFICATION FairSpec
INVARIANTS
  TypeOK
  FilesAreWhole
  OneTaskAtWork
PROPERTIES
  SettledRowsStay
  DownloadsEnd
