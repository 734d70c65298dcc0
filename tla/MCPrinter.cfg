SPECIFICATION PrinterSpec
CONSTANTS
  Headers <- MCHeaders
  Results <- MCResults
  MaxResults = 2
INVARIANTS
  RowsAlign
  AllOrNothing
\* The results run out.
CHECK_DEADLOCK FALSE
