-------------------------------- MODULE Dates --------------------------------
(***************************************************************************)
(* Date (include/relation/value/date.h, src/relation/value/date.cpp): the  *)
(* check of a text of the form yyyy-mm-dd, and the date that is made of it.*)
(*                                                                         *)
(* Both callers run the same loop over ten characters: the preprocessor    *)
(* asks is_valid_date(str) before it replaces a text by a date, and the    *)
(* constructor throws on what is no date.  The loop does not stop at the   *)
(* end of a short text: the character at size() is a NUL, whatever lies    *)
(* beyond is undefined and modelled as any byte.                           *)
(*                                                                         *)
(* Characters are their codes, texts are sequences of them.                *)
(***************************************************************************)
EXTENDS Integers, Sequences

CONSTANTS
  Texts,       \* the texts the callers pass
  Bytes,       \* what may lie beyond the end of a text
  OtherDates   \* the dates a date is compared with

ASSUME TextsAssumption == Texts \subseteq Seq(0 .. 255) /\ Bytes \subseteq 0 .. 255

CORRECT_SIZE == 10
Dash == 45
Zero == 48

VARIABLES
  text,      \* the argument
  call,      \* "is_valid_date", or "Date" for the constructor
  i,         \* the loop of is_valid_format
  valid,     \* its result so far
  date,      \* year_, month_, day_
  outcome    \* "running", "true", "false", "built", "threw"

dateVars == <<text, call, i, valid, date, outcome>>

-----------------------------------------------------------------------------
is_digit(c) == Zero <= c /\ c <= Zero + 9
char2num(c) == c - Zero

\* operator[] of a string.
CharsAt(s, k) ==
  IF k < Len(s) THEN {s[k + 1]} ELSE IF k = Len(s) THEN {0} ELSE Bytes

Fits(c, k) == IF k \in {4, 7} THEN c = Dash ELSE is_digit(c)

\* Bug: a text of any length is looked at.
SizeOk_any(s) == TRUE

SizeOk(s) == Len(s) = CORRECT_SIZE

\* Year, month and day of a text in the right form; zeros otherwise.
parse(ok, s) ==
  LET digit(k) == char2num(s[k + 1])
  IN  IF ok
      THEN [year  |-> 1000 * digit(0) + 100 * digit(1) + 10 * digit(2) + digit(3),
            month |-> 10 * digit(5) + digit(6),
            day   |-> 10 * digit(8) + digit(9)]
      ELSE [year |-> 0, month |-> 0, day |-> 0]

\* Bug: every fourth year has a 29th of February.
is_leap_year_julian(y) == y % 4 = 0

is_leap_year(y) == y % 400 = 0 \/ (y % 4 = 0 /\ y % 100 # 0)

MonthLength(y, m) ==
  CASE m \in {4, 6, 9, 11} -> 30
    [] m = 2               -> IF is_leap_year(y) THEN 29 ELSE 28
    [] OTHER               -> 31

is_valid_date(d) ==
  /\ d.year >= 0 /\ d.month > 0 /\ d.day > 0
  /\ d.month <= 12 /\ d.day <= MonthLength(d.year, d.month)

\* setw and setfill: a year has four digits, since parse read four.
to_string(d) ==
  LET digit(n, unit) == Zero + ((n \div unit) % 10)
  IN  <<digit(d.year, 1000), digit(d.year, 100), digit(d.year, 10), digit(d.year, 1), Dash,
        digit(d.month, 10), digit(d.month, 1), Dash, digit(d.day, 10), digit(d.day, 1)>>

\* Bug: a smaller month decides whatever the year is.
Before_month(l, r) ==
  \/ l.year < r.year
  \/ l.month < r.month
  \/ l.year = r.year /\ l.month = r.month /\ l.day < r.day

\* operator< on two dates.
Before(l, r) ==
  IF l.year = r.year
  THEN IF l.month = r.month THEN l.day < r.day ELSE l.month < r.month
  ELSE l.year < r.year

-----------------------------------------------------------------------------
DatesInit ==
  /\ text \in Texts /\ call \in {"is_valid_date", "Date"}
  /\ i = 0 /\ valid = SizeOk(text)
  /\ date = parse(FALSE, text) /\ outcome = "running"

\* One turn of the loop of is_valid_format.
CheckChar ==
  /\ outcome = "running" /\ i < CORRECT_SIZE
  /\ \E c \in CharsAt(text, i) : valid' = (valid /\ Fits(c, i))
  /\ i' = i + 1
  /\ UNCHANGED <<text, call, date, outcome>>

Parsed == outcome = "running" /\ i = CORRECT_SIZE
ThisDate == parse(valid, text)
IsDate == valid /\ is_valid_date(ThisDate)

AnswerValid ==
  /\ Parsed /\ call = "is_valid_date"
  /\ outcome' = IF IsDate THEN "true" ELSE "false"
  /\ UNCHANGED <<text, call, i, valid, date>>

\* The constructor sets the members before it throws.
Construct ==
  /\ Parsed /\ call = "Date"
  /\ date' = ThisDate
  /\ outcome' = IF IsDate THEN "built" ELSE "threw"
  /\ UNCHANGED <<text, call, i, valid>>

DatesNext == CheckChar \/ AnswerValid \/ Construct

DatesSpec == DatesInit /\ [][DatesNext]_dateVars

-----------------------------------------------------------------------------
(***************************************************************************)
(* The calendar, counted in days: DaysUntil(y) days lie before the year y, *)
(* and a year has 30 or 31 days in every month, but what is left of it in  *)
(* February.                                                               *)
(***************************************************************************)
DaysUntil(y) == 365 * y + (y + 3) \div 4 - (y + 99) \div 100 + (y + 399) \div 400

DaysOf(y, m) ==
  IF m = 2 THEN DaysUntil(y + 1) - DaysUntil(y) - 337 ELSE 30 + ((m + m \div 8) % 2)

DayNumber(d) ==
  LET before[m \in 1 .. 12] == IF m = 1 THEN 0 ELSE before[m - 1] + DaysOf(d.year, m - 1)
  IN  DaysUntil(d.year) + before[d.month] + d.day

OnTheCalendar(d) == d.month \in 1 .. 12 /\ d.day \in 1 .. DaysOf(d.year, d.month)

\* A date is compared with dates that the constructor has not refused.
ASSUME OtherDatesAssumption ==
  \A d \in OtherDates : d \in [year : Nat, month : Nat, day : Nat] /\ OnTheCalendar(d)

(***************************************************************************)
(* What lies beyond the end of a short text never decides: whatever those  *)
(* bytes are, the loop accepts just the texts of ten characters that are   *)
(* digits and have a dash after the year and after the month.              *)
(***************************************************************************)
FormatIsDecidedByTheText ==
  i = CORRECT_SIZE =>
    valid = /\ Len(text) = 10 /\ text[5] = Dash /\ text[8] = Dash
            /\ \A k \in {1, 2, 3, 4, 6, 7, 9, 10} : text[k] \in 48 .. 57

(***************************************************************************)
(* is_valid_date and the constructor accept the same texts: those of the   *)
(* days of the Gregorian calendar.  A text that was accepted is the one    *)
(* that the date prints, so the date of a row is found by the text that    *)
(* the shell shows for it.                                                 *)
(***************************************************************************)
AcceptsTheCalendar ==
  /\ outcome \in {"true", "false", "built", "threw"} =>
       (outcome \in {"true", "built"}) =
         (valid /\ OnTheCalendar(ThisDate) /\ to_string(ThisDate) = text)
  /\ outcome = "built" => date = ThisDate

(***************************************************************************)
(* A date is before another one iff fewer days lie before it, across the   *)
(* ends of months, years and leap days.                                    *)
(***************************************************************************)
OrderIsChronological ==
  outcome = "built" =>
    \A d \in OtherDates :
      /\ Before(date, d) <=> DayNumber(date) < DayNumber(d)
      /\ Before(d, date) <=> DayNumber(d) < DayNumber(date)
=============================================================================
