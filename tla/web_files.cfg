CONSTANTS
  Name = {"n", "r"}
  Path <- SmallPath
  Content = {"c"}
  Thread = {t1, t2}
  Server = server
  NoObject = NoObject
  Request <- Requests
  Found <- Trees
  Upload <- Removals
  Volume <- SmallVolume
  PrefixOf = {}
  SshMayFail = TRUE
  MaxUploads = 1
  MaxRequests = 3
SPECIFICATION Spec
INVARIANTS TypeOK ParentsAbove ListingsTrue DownloadsLeaveNothing
PROPERTY Answered
CHECK_DEADLOCK FALSE
