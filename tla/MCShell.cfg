SPECIFICATION ShellSpec
CONSTANTS
  Inputs <- MCInputs
  Semicolon <- MCSemicolon
  Newline <- MCNewline
  Nul <- MCNul
  Eof <- MCEof
  LiteralOf <- StringOf
  Offered <- NoTokens
  Completions = {}
  MaxBuffer = 45
INVARIANTS
  ScansFitTheStorage
  ErrorsAreFoundEarly
PROPERTIES
  ImplementsDialogue
  EveryStatementIsAnswered
\* The shell has exited, or its buffer is full after the end of the input.
CHECK_DEADLOCK FALSE
