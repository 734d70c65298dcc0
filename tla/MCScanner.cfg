SPECIFICATION ScannerSpec
CONSTANTS
  Texts <- MCTexts
  Newline = "newline"
INVARIANTS
  TokensAreWhole
  LiteralsAreOpaque
\* The text has an end.
CHECK_DEADLOCK FALSE
