SPECIFICATION ReadSpec
CONSTANTS
  Inputs <- MCInputs
  Semicolon = ";"
  Newline = "newline"
  Nul = "NUL"
  Eof = "EOF"
  MaxBuffer = 8
INVARIANTS
  HandsOverTheInput
PROPERTIES
  EveryStatementIsHandedOver
\* The buffer is full after the end of the input, or the shell has exited.
CHECK_DEADLOCK FALSE
