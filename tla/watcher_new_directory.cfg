CONSTANTS
  Name = {"d", "g"}
  Path <- NestedPath
  Content = {c1, c2}
  Key = {k1, k2, k3, k4, k5, k6, k7, k8}
  EventLimit = 8
  NoPath = NoPath
  HasWatchedType <- NestedPath
  Ignored = {}
  Routed <- NestedPath
  SshMayFail = FALSE
  MayStop = FALSE
  Deeds = {"create", "replace", "write", "delete", "mkdir", "rmdir"}
  MaxChanges = 3
SPECIFICATION FairSpec
PROPERTY AllFilesSynchronized
CHECK_DEADLOCK FALSE
