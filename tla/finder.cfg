CONSTANTS
  Dir <- Dirs
  File <- Files
  Root = "root"
  ParentOf <- Parents
  None = "none"
  RemoteVolume = FALSE
  MaxChanges = 1
  MaxClicks = 3
  MaxSyncs = 2
SPECIFICATION Spec
INVARIANTS TypeOK CacheAgrees HistoryAtCwd
PROPERTIES Navigates
CHECK_DEADLOCK FALSE
