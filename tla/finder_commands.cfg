CONSTANTS
  Dir = {"top", "sub", "deep"}
  Top = "top"
  ParentOf <- MCParentOf
  FolderName <- MCFolderName
  Name = {"x", "y"}
  Held = {"c1", "c2"}
  FirstDisks <- MCFirstDisks
  MaxPastes = 2
  Midnights <- MCMidnights
  LastHour = 75
  Kilo = 8
  MaxTexts = 3
  Hash = {"a", "b", "c"}
  Here = {"a", "b"}
  NameOf <- Names
  Matching = {"b", "c"}
  Size = {0, 1}
  Page = 1
  Dest = {"here", "there"}
  Side <- Sides
  Locked = {"b"}
  MaxSteps = 5
  MaxJobs = 3
  MaxRenames = 2
  Photos = {1, 2, 3}
  ShowPhotos = 2
  TmbNum = 1
  MaxPhotoSteps = 4
  Place = {1, 2}
  Item = {"d", "f"}
  Folder = {"d"}
  Image = {"f"}
  Fixed = {"d"}
  MaxDeeds = 5
  MaxVisits = 3
  Pictures <- MCPictures
  PreviewW = 3
  PreviewH = 3
  Typed = {0, 1, 3, 6}
  Dragged = {1, 2, 4}
  Angles = {0, 30, 400}
  Turned <- MCTurned
  MaxMoves = 4
  Thing = {"i", "f", "d"}
  Folders = {"d"}
  Pictures2 = {"i"}
  MaxVersion = 2
  MaxInfos = 3
  MaxLoads = 3
  MaxTurns = 4
  MaxTasks = 3
  Amounts = {1, 2}
  Manager = {"local", "remote"}
  DirsOf <- MCDirsOf
  HomeOf <- MCHomeOf
  Sample <- MCSample
  SortType = {"name", "size"}
  Quota = 3
  LeftAt <- MCLeftAt
  OtherSorts <- MCOtherSorts
  MaxEntries = 4
  MaxSteps2 = 3
  Unset = Unset
  Spots = {"list1", "list2", "dir1", "dir2", "branch1", "branch2", "box1", "box2", "other"}
  TargetOf <- MCTargetOf
  NoTarget = "none"
  Listing = "list"
  Rows = {"dir"}
  Branches = {"branch"}
  Box = "box"
  Heights = {5, 7}
  Bars = {1, 2}
  Lengths2 = {2, 9}
  Widths2 = {20, 30}
  MaxShaped = 4
  TouchRows = {"a", "b"}
  TouchLinks = {"t"}
  ListArea = "list"
  Nothing = "nothing"
  MaxTouches = 4
  PictureLinks = {"p1", "p2"}
  PageLinks = {"h1"}
  FileLinks = {"f1"}
  MaxItems = 2
  Folder2 = {"r", "d", "e"}
  UpOf <- MCUpOf
  NoHash = "none"
  MaxNumber = 1
  MaxEvents2 = 5
  Listener = {"f"}
  EventName = {"open", "select"}
  MaxBound = 2
  MaxFired = 3
  MaxNested = 2
SPECIFICATION Spec
INVARIANTS WindowTypeOK ViewTrue LocksExplained OffersTrue 
CHECK_DEADLOCK FALSE
