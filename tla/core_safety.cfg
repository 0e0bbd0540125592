CONSTANTS
  Name = {"d", "e", "i"}
  Path <- DeepPath
  Content = {c1, c2}
  Key = {k1, k2, k3, k4, k5, k6, k7, k8}
  EventLimit = 3
  NoPath = NoPath
  HasWatchedType <- DeepPath
  Ignored = {}
  Routed <- DeepPath
  SshMayFail = TRUE
  MayStop = TRUE
  Deeds = {"create", "replace", "write", "delete", "mkdir", "rmdir"}
  MaxChanges = 5
  Piece = {a, b}
  Slash = Slash
  Roots <- AbsoluteRoots
  EventPaths <- NormalPaths
  Filters <- Relative
  MaxRoots = 2
SPECIFICATION CoreSpec
INVARIANTS TypeOK UploadPending RemovalPending HandlersFit DistinctRootsDisjoint CleanRootsFound PathsHold
PROPERTY RemovalsAreUndone
SYMMETRY Symmetry
CHECK_DEADLOCK FALSE
