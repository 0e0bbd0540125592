CONSTANTS
  Name = {"a", "ab", "n", "r"}
  Path <- PrefixPath
  Content = {"c"}
  Thread = {t1, t2}
  Server = server
  NoObject = NoObject
  Request <- PrefixRequests
  Found <- PrefixTrees
  Upload = {}
  Volume <- SmallVolume
  PrefixOf <- NamePrefixes
  SshMayFail = FALSE
  MaxUploads = 0
  MaxRequests = 2
SPECIFICATION Spec
INVARIANT LookupsReturn
CHECK_DEADLOCK FALSE
