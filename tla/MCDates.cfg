SPECIFICATION DatesSpec
CONSTANTS
  Texts <- MCTexts
  Bytes <- MCBytes
  OtherDates <- MCOtherDates
INVARIANTS
  FormatIsDecidedByTheText
  AcceptsTheCalendar
  OrderIsChronological
\* A text is looked at once.
CHECK_DEADLOCK FALSE
