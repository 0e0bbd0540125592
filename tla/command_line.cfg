CONSTANTS
  Char = {" ", "nl", "esc"}
  Space = " "
  NewLine = "nl"
  Width <- Widths
  Pasted <- PastedTexts
  HistorySize = 2
  Operators = {"esc"}
  Refused <- RefusedTexts
  Matched <- MatchedTexts
  Entered <- SomeCommands
  MaxLength = 2
  MaxSought = 2
  MaxKilled = 2
  Undefined = Undefined
SPECIFICATION Spec
INVARIANTS TypeOK HistoryKept LineTrue
PROPERTY SearchesBackwards
CHECK_DEADLOCK FALSE
