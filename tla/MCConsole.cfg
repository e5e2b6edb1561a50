SPECIFICATION Spec
CONSTANTS
  VGA_WIDTH = 4
  VGA_HEIGHT = 2
  Glyphs <- AllGlyphs
  BLANK = " "
  NEWLINE = "nl"
  BACKSPACE = "bs"
  CMD_MAX = 2
  Banner <- BootMessages
  Responses <- Answers
  MaxKeys = 5
INVARIANTS TypeOK BlankAhead EchoExact
PROPERTY LineEditorSpec
CHECK_DEADLOCK FALSE
