CONSTANTS
  FileLists <- MCFileLists
  UplMaxFile = 1
  MaxConnections = 2
  RetryLimit = 0
  MaxUploads = 2
  Dirs = {1, 2}
  Listings <- MCListings
  Folders = {1, 2, 3, 4}
  FolderOf <- MCFolderOf
  MaxAsked = 2
  MaxUpsets = 2
  Branch = {1, 2, 3}
  Gone = 99
  MaxGrown = 4
  MaxEditors = 2
  MaxTyped = 2
  MaxSaves = 2
  MaxPopups = 2
  Previews = {"i", "t", "a", "v", "d"}
  PluginOf <- MCPluginOf
  Managers <- MCManagers
  Tabbed = {"remote"}
  MaxNames = 2
  Boxes = {1, 2}
  Tabs = {1, 2}
  MaxPlaces = 2
  MaxEvents = 1
  MaxExecs = 3
  MaxRequests = 3
  MaxKeyed = 2
  Lengths = {1, 3, 5}
  Sizes <- MCSizes
  MaxLines = 4
  Codes <- MCCodes
  MaxText = 4
  Widths = {1, 2, 3}
  Letter = {"a", "e"}
  Space = " "
  Comma = ","
  Backslash = "esc"
  Directories <- MCDirectories
  Clips <- MCClips
  MaxLine = 4
  MaxTabs = 3
SPECIFICATION Spec
INVARIANTS PageTypeOK UploadsWhole EditsKept CommandsTakeTurns FinderShown TerminalDrawn
CHECK_DEADLOCK FALSE
