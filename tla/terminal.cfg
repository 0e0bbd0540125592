CONSTANTS
  Dir = {"home", "tmp", "tmpx,yfalse"}
  Start = "home"
  Bare = {"tmp"}
  Command <- Commands
  Here = {"clear"}
  Received <- Takings
  Garbled <- NoTaking
  Parts <- Joined
  Detached = {"false&cd"}
  Login = "home"
  Blank = ""
  Failing = {"false"}
  Swallowing = {"#"}
  After <- Leaving
  Remote = FALSE
  SshMayFail = TRUE
  MaxRequests = 3
  None = "*NONE*"
  SearchPrompt = "search"
SPECIFICATION Spec
INVARIANTS TypeOK SessionShown
PROPERTIES ShellSession Answered
CHECK_DEADLOCK FALSE
