------------------------------- MODULE MCDates -------------------------------
(* Every month and day, those that do not exist included, of years on both  *)
(* sides of the leap year rules; texts of every length and with one wrong   *)
(* character at each place.                                                 *)
EXTENDS Dates

D(y, m, d) == [year |-> y, month |-> m, day |-> d]

MCYears == {0, 4, 1900, 2000, 2023, 2024, 9999}

DayTexts == {to_string(D(y, m, d)) : y \in MCYears, m \in 0 .. 13, d \in 0 .. 32}

LeapDay == to_string(D(2024, 2, 29))

Garbled ==
  {SubSeq(LeapDay, 1, n) : n \in 0 .. 9} \cup {LeapDay \o <<c>> : c \in {Zero, Dash, 0}}
  \cup {[LeapDay EXCEPT ![k] = c] : k \in 1 .. 10, c \in {Zero - 1, Zero, Zero + 10, Dash, 97}}

MCTexts == DayTexts \cup Garbled
MCBytes == {0, Dash, Zero, Zero + 9, 255}

MCOtherDates ==
  {d \in {D(y, m, d) : y \in {1999, 2000, 2023, 2024}, m \in 1 .. 12, d \in {1, 28, 29, 31}} :
     OnTheCalendar(d)}
=============================================================================
