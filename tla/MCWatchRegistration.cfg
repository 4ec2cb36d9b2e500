SPECIFICATION FairSpec
CONSTANTS
  home = home
  notes = notes
  work = work
  remote = remote
  Folders = {home, notes, work, remote}
  Local = {home, notes, work}
  MaxRoots = 2
  None = None
  MaxGeneration = 2
INVARIANTS
  NoWatchIsLost
PROPERTIES
  ImplementsFileWatch
  WatchesSettle
CHECK_DEADLOCK FALSE
