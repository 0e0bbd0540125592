CONSTANTS
  Name = {"n", "r"}
  Path <- SmallPath
  Content = {"c"}
  Thread = {t1, t2}
  Server = server
  NoObject = NoObject
  Request <- Requests
  Found <- NewTrees
  Upload <- Uploads
  Volume <- SmallVolume
  PrefixOf = {}
  SshMayFail = FALSE
  MaxUploads = 1
  MaxRequests = 3
SPECIFICATION Spec
INVARIANT FilesShown
CHECK_DEADLOCK FALSE
