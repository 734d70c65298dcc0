---------------------------- MODULE DatesProofs ----------------------------
(***************************************************************************)
(* Proofs about Dates, for texts of any length and any bytes behind them.  *)
(***************************************************************************)
EXTENDS Dates, SequenceTheorems, TLAPS

-----------------------------------------------------------------------------
(* The calendar *)

(* A multiple of n is passed from one number to the next iff the first is one. *)
LEMMA LeapTerms ==
  ASSUME NEW y \in Nat
  PROVE  /\ (y + 4) \div 4 - (y + 3) \div 4 = IF y % 4 = 0 THEN 1 ELSE 0
         /\ (y + 100) \div 100 - (y + 99) \div 100 = IF y % 100 = 0 THEN 1 ELSE 0
         /\ (y + 400) \div 400 - (y + 399) \div 400 = IF y % 400 = 0 THEN 1 ELSE 0
         /\ y % 400 = 0 => y % 100 = 0
         /\ y % 100 = 0 => y % 4 = 0
<1>1. (y + 4) \div 4 - (y + 3) \div 4 = IF y % 4 = 0 THEN 1 ELSE 0
  OBVIOUS
<1>2. (y + 100) \div 100 - (y + 99) \div 100 = IF y % 100 = 0 THEN 1 ELSE 0
  OBVIOUS
<1>3. (y + 400) \div 400 - (y + 399) \div 400 = IF y % 400 = 0 THEN 1 ELSE 0
  OBVIOUS
<1>4. y % 400 = 0 => y % 100 = 0
  OBVIOUS
<1>5. y % 100 = 0 => y % 4 = 0
  OBVIOUS
<1> QED
  BY <1>1, <1>2, <1>3, <1>4, <1>5

(* The lengths of the months, counted in days, are those the code has. *)
LEMMA MonthsAreCounted ==
  ASSUME NEW y \in Nat, NEW m \in 1 .. 12
  PROVE  DaysOf(y, m) = MonthLength(y, m) /\ DaysOf(y, m) \in 28 .. 31
<1>1. CASE m = 2
  <2>1. DaysOf(y, m) = 28 + ((y + 4) \div 4 - (y + 3) \div 4)
                          - ((y + 100) \div 100 - (y + 99) \div 100)
                          + ((y + 400) \div 400 - (y + 399) \div 400)
    BY <1>1 DEF DaysOf, DaysUntil
  <2> QED
    BY <1>1, <2>1, LeapTerms DEF MonthLength, is_leap_year
<1>2. CASE m # 2
  BY <1>2 DEF DaysOf, MonthLength
<1> QED
  BY <1>1, <1>2

(* What is_valid_date checks is that the date is on the calendar. *)
LEMMA ValidIsOnTheCalendar ==
  ASSUME NEW d \in [year : Nat, month : Nat, day : Nat]
  PROVE  is_valid_date(d) <=> OnTheCalendar(d)
<1>1. CASE d.month \in 1 .. 12
  <2>1. MonthLength(d.year, d.month) = DaysOf(d.year, d.month)
    BY <1>1, MonthsAreCounted
  <2>2. DaysOf(d.year, d.month) \in Nat
    BY <1>1, MonthsAreCounted
  <2> QED
    BY <1>1, <2>1, <2>2 DEF is_valid_date, OnTheCalendar
<1>2. CASE d.month \notin 1 .. 12
  BY <1>2 DEF is_valid_date, OnTheCalendar
<1> QED
  BY <1>1, <1>2

(* The days of a year before each month: the recursion of DayNumber, unrolled. *)
DaysBefore(y, m) ==
  LET L == DaysOf(y, 2)
  IN  CASE m = 1 -> 0          [] m = 2 -> 31         [] m = 3 -> 31 + L
        [] m = 4 -> 62 + L     [] m = 5 -> 92 + L     [] m = 6 -> 123 + L
        [] m = 7 -> 153 + L    [] m = 8 -> 184 + L    [] m = 9 -> 215 + L
        [] m = 10 -> 245 + L   [] m = 11 -> 276 + L   [] m = 12 -> 306 + L

(* The days before a month grow by the length of the month before it. *)
LEMMA DaysBeforeSteps ==
  ASSUME NEW y \in Nat, NEW m \in 2 .. 12
  PROVE  DaysBefore(y, m) = DaysBefore(y, m - 1) + DaysOf(y, m - 1)
<1> DEFINE L == DaysOf(y, 2)
<1>1. L \in Nat
  BY MonthsAreCounted
<1>2. m - 1 # 2 => DaysOf(y, m - 1) = 30 + (((m - 1) + (m - 1) \div 8) % 2)
  BY DEF DaysOf
<1> HIDE DEF L
<1>3. CASE m = 3
  BY <1>1, <1>3 DEF DaysBefore, L
<1>4. CASE m # 3
  BY <1>1, <1>2, <1>4 DEF DaysBefore, L
<1> QED
  BY <1>3, <1>4

(* The number of a day: those of the years before, of the months before, and its own. *)
LEMMA DayNumberIs ==
  ASSUME NEW d \in [year : Nat, month : 1 .. 12, day : Nat]
  PROVE  DayNumber(d) = DaysUntil(d.year) + DaysBefore(d.year, d.month) + d.day
<1> DEFINE y == d.year
           rec(f) == [m \in 1 .. 12 |-> IF m = 1 THEN 0 ELSE f[m - 1] + DaysOf(y, m - 1)]
           before == CHOOSE f : f = rec(f)
           sums == [m \in 1 .. 12 |-> DaysBefore(y, m)]
<1>0. y \in Nat /\ d.month \in 1 .. 12
  OBVIOUS
<1> HIDE DEF y
<1>1. sums = rec(sums)
  <2>1. ASSUME NEW m \in 1 .. 12
        PROVE  DaysBefore(y, m) = IF m = 1 THEN 0 ELSE sums[m - 1] + DaysOf(y, m - 1)
    <3>1. CASE m = 1
      BY <3>1 DEF DaysBefore
    <3>2. CASE m # 1
      <4>1. m \in 2 .. 12 /\ m - 1 \in 1 .. 12
        BY <3>2
      <4> QED
        BY <1>0, <3>2, <4>1, DaysBeforeSteps
    <3> QED
      BY <3>1, <3>2
  <2> QED
    BY <2>1
<1>2. before = rec(before)
  <2> HIDE DEF rec, sums
  <2> QED
    BY <1>1
<1>3. ASSUME NEW m \in 1 .. 12
      PROVE  before[m] = IF m = 1 THEN 0 ELSE before[m - 1] + DaysOf(y, m - 1)
  <2> HIDE DEF before
  <2> QED
    BY <1>2
<1> HIDE DEF before
<1>4. before[1] = DaysBefore(y, 1)
  BY <1>3 DEF DaysBefore
<1>5. ASSUME NEW m \in 2 .. 12, before[m - 1] = DaysBefore(y, m - 1)
      PROVE  before[m] = DaysBefore(y, m)
  BY <1>0, <1>3, <1>5, DaysBeforeSteps
<1>6. before[2] = DaysBefore(y, 2) /\ before[3] = DaysBefore(y, 3)
      /\ before[4] = DaysBefore(y, 4) /\ before[5] = DaysBefore(y, 5)
  <2>1. 2 - 1 = 1 /\ 3 - 1 = 2 /\ 4 - 1 = 3 /\ 5 - 1 = 4
    OBVIOUS
  <2> QED
    BY <1>4, <1>5, <2>1
<1>7. before[6] = DaysBefore(y, 6) /\ before[7] = DaysBefore(y, 7)
      /\ before[8] = DaysBefore(y, 8) /\ before[9] = DaysBefore(y, 9)
  <2>1. 6 - 1 = 5 /\ 7 - 1 = 6 /\ 8 - 1 = 7 /\ 9 - 1 = 8
    OBVIOUS
  <2> QED
    BY <1>5, <1>6, <2>1
<1>8. before[10] = DaysBefore(y, 10) /\ before[11] = DaysBefore(y, 11)
      /\ before[12] = DaysBefore(y, 12)
  <2>1. 10 - 1 = 9 /\ 11 - 1 = 10 /\ 12 - 1 = 11
    OBVIOUS
  <2> QED
    BY <1>5, <1>7, <2>1
<1>9. before[d.month] = DaysBefore(y, d.month)
  <2>1. d.month \in {1, 2, 3, 4, 5, 6, 7, 8, 9, 10, 11, 12}
    BY <1>0
  <2> QED
    BY <1>4, <1>6, <1>7, <1>8, <2>1
<1> QED
  BY <1>9 DEF DayNumber, before, y

(* The date of a later year has more days before it than any of an earlier one. *)
LEMMA YearsAdvance ==
  ASSUME NEW y \in Nat, NEW z \in Nat, y < z
  PROVE  DaysUntil(y + 1) <= DaysUntil(z)
<1>1. (y + 1 + 3) \div 4 <= (z + 3) \div 4
  OBVIOUS
<1>2. (z + 99) \div 100 - (y + 1 + 99) \div 100 <= z - (y + 1)
  OBVIOUS
<1>3. (y + 1 + 399) \div 400 <= (z + 399) \div 400
  OBVIOUS
<1>4. 365 * z - 365 * (y + 1) >= z - (y + 1)
  OBVIOUS
<1> QED
  BY <1>1, <1>2, <1>3, <1>4 DEF DaysUntil

(* A day lies between the start of its month and the start of the next. *)
LEMMA MonthsAdvance ==
  ASSUME NEW y \in Nat
  PROVE  /\ \A m \in 1 .. 12 : DaysBefore(y, m) \in Nat
         /\ \A m, k \in 1 .. 12 :
              m < k => DaysBefore(y, m) + DaysOf(y, m) <= DaysBefore(y, k)
         /\ DaysUntil(y) + DaysBefore(y, 12) + 31 = DaysUntil(y + 1)
         /\ \A m \in 1 .. 12 : DaysBefore(y, m) + DaysOf(y, m) <= DaysBefore(y, 12) + 31
<1> DEFINE L == DaysOf(y, 2)
<1>1. L \in 28 .. 29
  BY MonthsAreCounted DEF MonthLength
<1>2. DaysUntil(y + 1) - DaysUntil(y) = L + 337 /\ DaysUntil(y) \in Int /\ DaysUntil(y + 1) \in Int
  BY DEF DaysOf, DaysUntil
<1>3. ASSUME NEW m \in 1 .. 12
      PROVE  DaysOf(y, m) = CASE m = 2 -> L [] m \in {4, 6, 9, 11} -> 30 [] OTHER -> 31
  BY MonthsAreCounted DEF MonthLength
<1> HIDE DEF L
<1>4. \A m \in 1 .. 12 : DaysBefore(y, m) \in Nat
  BY <1>1 DEF DaysBefore, L
<1>5. ASSUME NEW m \in 1 .. 12, NEW k \in 1 .. 12, m < k
      PROVE  DaysBefore(y, m) + DaysOf(y, m) <= DaysBefore(y, k)
  BY <1>1, <1>3, <1>5 DEF DaysBefore, L
<1>6. DaysBefore(y, 12) = 306 + L
  BY DEF DaysBefore, L
<1>7. ASSUME NEW m \in 1 .. 12
      PROVE  DaysBefore(y, m) + DaysOf(y, m) <= DaysBefore(y, 12) + 31
  BY <1>1, <1>3, <1>6 DEF DaysBefore, L
<1> QED
  BY <1>1, <1>2, <1>4, <1>5, <1>6, <1>7

(* operator< counts days. *)
LEMMA BeforeCountsDays ==
  ASSUME NEW l \in [year : Nat, month : Nat, day : Nat],
         NEW r \in [year : Nat, month : Nat, day : Nat],
         OnTheCalendar(l), OnTheCalendar(r)
  PROVE  Before(l, r) <=> DayNumber(l) < DayNumber(r)
<1>1. ASSUME NEW d \in [year : Nat, month : Nat, day : Nat], OnTheCalendar(d)
      PROVE  /\ d.year \in Nat /\ d.month \in 1 .. 12 /\ d.day \in 1 .. DaysOf(d.year, d.month)
             /\ d.day \in Nat /\ DaysBefore(d.year, d.month) \in Nat
             /\ DaysUntil(d.year) \in Int /\ DaysUntil(d.year + 1) \in Int
             /\ DaysOf(d.year, d.month) \in Nat
             /\ DayNumber(d) = DaysUntil(d.year) + DaysBefore(d.year, d.month) + d.day
  <2>1. d.year \in Nat /\ d.month \in 1 .. 12 /\ d.day \in 1 .. DaysOf(d.year, d.month)
    BY <1>1 DEF OnTheCalendar
  <2>2. d \in [year : Nat, month : 1 .. 12, day : Nat]
    BY <2>1
  <2>3. DaysUntil(d.year) \in Int /\ DaysUntil(d.year + 1) \in Int
    BY <2>1 DEF DaysUntil
  <2>4. DayNumber(d) = DaysUntil(d.year) + DaysBefore(d.year, d.month) + d.day
    BY <2>2, DayNumberIs
  <2>5. DaysBefore(d.year, d.month) \in Nat
    BY <2>1, MonthsAdvance
  <2>6. DaysOf(d.year, d.month) \in Nat
    BY <2>1, MonthsAreCounted
  <2> QED
    BY <2>1, <2>3, <2>4, <2>5, <2>6
<1>2. ASSUME NEW d \in [year : Nat, month : Nat, day : Nat],
             NEW e \in [year : Nat, month : Nat, day : Nat],
             OnTheCalendar(d), OnTheCalendar(e), Before(d, e)
      PROVE  DayNumber(d) < DayNumber(e)
  <2>1. CASE d.year < e.year
    <3>1. DayNumber(d) <= DaysUntil(d.year) + DaysBefore(d.year, 12) + 31
      <4>1. DaysBefore(d.year, d.month) + DaysOf(d.year, d.month) <= DaysBefore(d.year, 12) + 31
        BY <1>1, <1>2, MonthsAdvance
      <4>2. DaysBefore(d.year, 12) \in Nat
        BY <1>1, <1>2, MonthsAdvance
      <4> QED
        BY <1>1, <1>2, <4>1, <4>2
    <3>2. DayNumber(d) <= DaysUntil(d.year + 1)
      BY <1>1, <1>2, <3>1, MonthsAdvance
    <3>3. DaysUntil(d.year + 1) <= DaysUntil(e.year)
      BY <1>1, <1>2, <2>1, YearsAdvance
    <3> QED
      BY <1>1, <1>2, <3>2, <3>3
  <2>2. CASE d.year = e.year /\ d.month < e.month
    <3>1. DaysBefore(d.year, d.month) + DaysOf(d.year, d.month) <= DaysBefore(d.year, e.month)
      BY <1>1, <1>2, <2>2, MonthsAdvance
    <3> QED
      BY <1>1, <1>2, <2>2, <3>1
  <2>3. CASE d.year = e.year /\ d.month = e.month /\ d.day < e.day
    BY <1>1, <1>2, <2>3
  <2> QED
    BY <1>1, <1>2, <2>1, <2>2, <2>3 DEF Before
<1>3. CASE Before(l, r)
  BY <1>2, <1>3
<1>4. CASE Before(r, l)
  <2>1. ~ Before(l, r)
    BY <1>1, <1>4 DEF Before
  <2> QED
    BY <1>1, <1>2, <1>4, <2>1
<1>5. CASE ~ Before(l, r) /\ ~ Before(r, l)
  <2>1. l.year = r.year /\ l.month = r.month /\ l.day = r.day
    BY <1>1, <1>5 DEF Before
  <2> QED
    BY <1>1, <1>5, <2>1
<1> QED
  BY <1>3, <1>4, <1>5

-----------------------------------------------------------------------------
(* The form of a text *)

Digits == {1, 2, 3, 4, 6, 7, 9, 10}

IsFormatted(s) ==
  /\ Len(s) = 10 /\ s[5] = Dash /\ s[8] = Dash
  /\ \A k \in Digits : s[k] \in 48 .. 57

(* The digits of a number that was made of two digits. *)
LEMMA TwoDigits ==
  ASSUME NEW a \in 0 .. 9, NEW b \in 0 .. 9
  PROVE  /\ 10 * a + b \in Nat
         /\ ((10 * a + b) \div 10) % 10 = a
         /\ ((10 * a + b) \div 1) % 10 = b
OBVIOUS

(* A date prints the text that it was read from. *)
LEMMA PrintsWhatWasRead ==
  ASSUME NEW s \in Seq(0 .. 255), IsFormatted(s)
  PROVE  /\ parse(TRUE, s) \in [year : Nat, month : Nat, day : Nat]
         /\ to_string(parse(TRUE, s)) = s
<1> DEFINE a == s[1] - 48    b == s[2] - 48    c == s[3] - 48    e == s[4] - 48
           m == s[6] - 48    n == s[7] - 48    t == s[9] - 48    u == s[10] - 48
           y == 1000 * a + 100 * b + 10 * c + e
           p == parse(TRUE, s)
<1>1. /\ Len(s) = 10 /\ s[5] = 45 /\ s[8] = 45
      /\ s[1] \in 48 .. 57 /\ s[2] \in 48 .. 57 /\ s[3] \in 48 .. 57 /\ s[4] \in 48 .. 57
      /\ s[6] \in 48 .. 57 /\ s[7] \in 48 .. 57 /\ s[9] \in 48 .. 57 /\ s[10] \in 48 .. 57
  BY DEF IsFormatted, Digits, Dash
<1>2. s = <<s[1], s[2], s[3], s[4], 45, s[6], s[7], 45, s[9], s[10]>>
  BY <1>1
<1>3. /\ a \in 0 .. 9 /\ b \in 0 .. 9 /\ c \in 0 .. 9 /\ e \in 0 .. 9
      /\ m \in 0 .. 9 /\ n \in 0 .. 9 /\ t \in 0 .. 9 /\ u \in 0 .. 9
  BY <1>1
<1>4. /\ s[1] = 48 + a /\ s[2] = 48 + b /\ s[3] = 48 + c /\ s[4] = 48 + e
      /\ s[6] = 48 + m /\ s[7] = 48 + n /\ s[9] = 48 + t /\ s[10] = 48 + u
  <2>1. \A x \in 48 .. 57 : x = 48 + (x - 48)
    OBVIOUS
  <2> QED
    BY <1>1, <2>1, Zenon
<1>5. p = [year |-> y, month |-> 10 * m + n, day |-> 10 * t + u]
  BY DEF parse, char2num, Zero
<1> HIDE DEF a, b, c, e, m, n, t, u, p
<1>6. y \in Nat /\ 10 * m + n \in Nat /\ 10 * t + u \in Nat
  BY <1>3
<1>7. p \in [year : Nat, month : Nat, day : Nat]
  BY <1>5, <1>6
<1>9. /\ (y \div 1000) % 10 = a /\ (y \div 100) % 10 = b
      /\ (y \div 10) % 10 = c /\ (y \div 1) % 10 = e
  <2>1. y \div 1000 = a /\ y \div 100 = 10 * a + b /\ y \div 1 = y
    BY <1>3
  <2>2. y \div 10 = 100 * a + 10 * b + c
    BY <1>3
  <2>3. a % 10 = a /\ (10 * a + b) % 10 = b
    BY <1>3
  <2>4. (100 * a + 10 * b + c) % 10 = c
    BY <1>3
  <2>5. y % 10 = e
    BY <1>3
  <2> QED
    BY <2>1, <2>2, <2>3, <2>4, <2>5
<1>10. /\ ((10 * m + n) \div 10) % 10 = m /\ ((10 * m + n) \div 1) % 10 = n
       /\ ((10 * t + u) \div 10) % 10 = t /\ ((10 * t + u) \div 1) % 10 = u
  BY <1>3, TwoDigits, Zenon
<1> HIDE DEF y
<1>11. p.year = y /\ p.month = 10 * m + n /\ p.day = 10 * t + u
  BY <1>5
<1>12. to_string(p) = <<48 + a, 48 + b, 48 + c, 48 + e, 45, 48 + m, 48 + n, 45, 48 + t, 48 + u>>
  BY <1>9, <1>10, <1>11 DEF to_string, Zero, Dash
<1> QED
  BY <1>2, <1>4, <1>7, <1>12 DEF p

-----------------------------------------------------------------------------
(***************************************************************************)
(* The inductive invariant: `valid' is the form of what the loop has       *)
(* passed, and the outcome and the date are made of it at the end.         *)
(***************************************************************************)
DatesInv ==
  /\ text \in Seq(0 .. 255)
  /\ i \in 0 .. CORRECT_SIZE
  /\ valid = (Len(text) = CORRECT_SIZE /\ \A k \in 0 .. i - 1 : Fits(text[k + 1], k))
  /\ outcome \in {"running", "true", "false", "built", "threw"}
  /\ outcome # "running" =>
       i = CORRECT_SIZE /\ (outcome \in {"true", "built"} <=> IsDate)
  /\ outcome = "built" => date = ThisDate

(* The loop accepts a formatted text and no other. *)
LEMMA LoopDecidesFormat ==
  ASSUME DatesInv, i = CORRECT_SIZE
  PROVE  valid = IsFormatted(text)
<1>1. \A k \in 0 .. 9 : k + 1 \in Digits <=> k \notin {4, 7}
  BY DEF Digits
<1>2. \A k \in Digits : k - 1 \in 0 .. 9 /\ (k - 1) + 1 = k /\ k - 1 \notin {4, 7}
  BY DEF Digits
<1>3. CASE Len(text) = 10
  <2>1. ASSUME NEW k \in 0 .. 9 PROVE text[k + 1] \in Nat
    <3>1. k + 1 \in 1 .. Len(text)
      BY <1>3
    <3>2. text \in Seq(0 .. 255)
      BY DEF DatesInv
    <3>3. text[k + 1] \in 0 .. 255
      BY <3>1, <3>2, ElementOfSeq
    <3> QED
      BY <3>3
  <2>2. ASSUME NEW k \in 0 .. 9, k \notin {4, 7}
        PROVE  Fits(text[k + 1], k) <=> text[k + 1] \in 48 .. 57
    BY <2>1, <2>2 DEF Fits, is_digit, Zero
  <2>3. Fits(text[5], 4) <=> text[5] = Dash
    BY DEF Fits
  <2>4. Fits(text[8], 7) <=> text[8] = Dash
    BY DEF Fits
  <2>5. valid = \A k \in 0 .. 9 : Fits(text[k + 1], k)
    <3>1. 0 .. i - 1 = 0 .. 9
      BY DEF CORRECT_SIZE
    <3> QED
      BY <1>3, <3>1 DEF DatesInv, CORRECT_SIZE
  <2>6. ASSUME \A k \in 0 .. 9 : Fits(text[k + 1], k) PROVE IsFormatted(text)
    <3>1. text[5] = Dash /\ text[8] = Dash
      <4>1. Fits(text[4 + 1], 4) /\ Fits(text[7 + 1], 7)
        BY <2>6
      <4> QED
        BY <2>3, <2>4, <4>1
    <3>2. ASSUME NEW k \in Digits PROVE text[k] \in 48 .. 57
      BY <1>2, <2>2, <2>6
    <3> QED
      BY <1>3, <3>1, <3>2 DEF IsFormatted
  <2>7. ASSUME IsFormatted(text), NEW k \in 0 .. 9 PROVE Fits(text[k + 1], k)
    <3>1. CASE k = 4
      BY <2>3, <2>7, <3>1 DEF IsFormatted
    <3>2. CASE k = 7
      BY <2>4, <2>7, <3>2 DEF IsFormatted
    <3>3. CASE k \notin {4, 7}
      BY <1>1, <2>2, <2>7, <3>3 DEF IsFormatted
    <3> QED
      BY <3>1, <3>2, <3>3
  <2> QED
    BY <2>5, <2>6, <2>7 DEF IsFormatted
<1>4. CASE Len(text) # 10
  BY <1>4 DEF DatesInv, CORRECT_SIZE, IsFormatted
<1> QED
  BY <1>3, <1>4

(* The check starts before the first character. *)
LEMMA InitEstablishes == DatesInit => DatesInv
<1> SUFFICES ASSUME DatesInit PROVE DatesInv
  OBVIOUS
<1>1. text \in Seq(0 .. 255)
  BY TextsAssumption DEF DatesInit
<1> QED
  BY <1>1 DEF DatesInit, DatesInv, SizeOk, CORRECT_SIZE

(* Each character that is checked tells the loop what IsFormatted asks of it. *)
LEMMA StepKeeps == DatesInv /\ [DatesNext]_dateVars => DatesInv'
<1> SUFFICES ASSUME DatesInv, [DatesNext]_dateVars PROVE DatesInv'
  OBVIOUS
<1>1. CASE CheckChar
  <2>1. /\ i \in 0 .. 9 /\ i' = i + 1 /\ text' = text /\ outcome' = "running"
        /\ outcome = "running"
    BY <1>1 DEF CheckChar, DatesInv, CORRECT_SIZE
  <2>2. PICK c \in CharsAt(text, i) : valid' = (valid /\ Fits(c, i))
    BY <1>1 DEF CheckChar
  <2>3. valid' = (Len(text) = CORRECT_SIZE /\ \A k \in 0 .. i : Fits(text[k + 1], k))
    <3>1. CASE Len(text) = CORRECT_SIZE
      <4>1. c = text[i + 1]
        BY <2>1, <2>2, <3>1 DEF CharsAt, CORRECT_SIZE
      <4>2. valid' = ((\A k \in 0 .. i - 1 : Fits(text[k + 1], k)) /\ Fits(text[i + 1], i))
        BY <2>2, <3>1, <4>1 DEF DatesInv
      <4>3. 0 .. i = (0 .. i - 1) \cup {i}
        BY <2>1
      <4> QED
        BY <3>1, <4>2, <4>3
    <3>2. CASE Len(text) # CORRECT_SIZE
      BY <2>2, <3>2 DEF DatesInv
    <3> QED
      BY <3>1, <3>2
  <2>4. 0 .. i' - 1 = 0 .. i
    BY <2>1
  <2> QED
    BY <2>1, <2>3, <2>4 DEF DatesInv, CORRECT_SIZE
<1>2. CASE AnswerValid
  <2>1. /\ text' = text /\ i' = i /\ valid' = valid /\ date' = date /\ i = CORRECT_SIZE
        /\ outcome' = IF IsDate THEN "true" ELSE "false"
    BY <1>2 DEF AnswerValid, Parsed
  <2>2. IsDate' = IsDate
    BY <2>1 DEF IsDate, ThisDate
  <2> QED
    BY <2>1, <2>2 DEF DatesInv
<1>3. CASE Construct
  <2>1. /\ text' = text /\ i' = i /\ valid' = valid /\ date' = ThisDate /\ i = CORRECT_SIZE
        /\ outcome' = IF IsDate THEN "built" ELSE "threw"
    BY <1>3 DEF Construct, Parsed
  <2>2. IsDate' = IsDate /\ ThisDate' = ThisDate
    BY <2>1 DEF IsDate, ThisDate
  <2> QED
    BY <2>1, <2>2 DEF DatesInv
<1>4. CASE UNCHANGED dateVars
  BY <1>4 DEF dateVars, DatesInv, IsDate, ThisDate
<1> QED
  BY <1>1, <1>2, <1>3, <1>4 DEF DatesNext

(* So the invariant holds throughout. *)
LEMMA Invariance == DatesSpec => []DatesInv
BY InitEstablishes, StepKeeps, PTL DEF DatesSpec

-----------------------------------------------------------------------------
(* The loop of is_valid_format accepts the texts of the form dddd-dd-dd, and *)
(* only them, whatever it finds behind the end of a shorter text.            *)
THEOREM FormatDecided == DatesSpec => []FormatIsDecidedByTheText
<1>1. DatesInv => FormatIsDecidedByTheText
  BY LoopDecidesFormat DEF FormatIsDecidedByTheText, IsFormatted, Digits
<1> QED
  BY <1>1, Invariance, PTL

(* What is accepted is a day of the Gregorian calendar, and the text that is *)
(* printed for the date is the one it was made of.                           *)
THEOREM CalendarAccepted == DatesSpec => []AcceptsTheCalendar
<1>1. ASSUME DatesInv PROVE AcceptsTheCalendar
  <2>1. CASE outcome \in {"true", "false", "built", "threw"}
    <3>1. i = CORRECT_SIZE /\ (outcome \in {"true", "built"} <=> IsDate)
      BY <1>1, <2>1 DEF DatesInv
    <3>2. CASE valid = TRUE
      <4>1. IsFormatted(text) /\ text \in Seq(0 .. 255)
        BY <1>1, <3>1, <3>2, LoopDecidesFormat DEF DatesInv
      <4>2. ThisDate = parse(TRUE, text)
        BY <3>2 DEF ThisDate
      <4>3. ThisDate \in [year : Nat, month : Nat, day : Nat] /\ to_string(ThisDate) = text
        BY <4>1, <4>2, PrintsWhatWasRead
      <4>4. IsDate <=> OnTheCalendar(ThisDate)
        BY <3>2, <4>3, ValidIsOnTheCalendar DEF IsDate
      <4> QED
        BY <1>1, <3>1, <3>2, <4>3, <4>4 DEF AcceptsTheCalendar, DatesInv
    <3>3. CASE valid = FALSE
      BY <1>1, <3>1, <3>3 DEF AcceptsTheCalendar, DatesInv, IsDate
    <3> QED
      BY <1>1, <3>2, <3>3 DEF DatesInv
  <2>2. CASE outcome = "running"
    BY <2>2 DEF AcceptsTheCalendar
  <2> QED
    BY <1>1, <2>1, <2>2 DEF DatesInv
<1> QED
  BY <1>1, Invariance, PTL

(* operator< orders the dates that were built as the days follow each other. *)
THEOREM OrderCountsDays == DatesSpec => []OrderIsChronological
<1>1. ASSUME DatesInv, outcome = "built", NEW d \in OtherDates
      PROVE  /\ Before(date, d) <=> DayNumber(date) < DayNumber(d)
             /\ Before(d, date) <=> DayNumber(d) < DayNumber(date)
  <2>1. i = CORRECT_SIZE /\ IsDate /\ date = ThisDate /\ valid = TRUE
    BY <1>1 DEF DatesInv, IsDate
  <2>2. ThisDate = parse(TRUE, text)
    BY <2>1 DEF ThisDate
  <2>3. IsFormatted(text) /\ text \in Seq(0 .. 255)
    BY <1>1, <2>1, LoopDecidesFormat DEF DatesInv
  <2>4. date \in [year : Nat, month : Nat, day : Nat]
    BY <2>1, <2>2, <2>3, PrintsWhatWasRead
  <2>5. OnTheCalendar(date)
    BY <2>1, <2>4, ValidIsOnTheCalendar DEF IsDate
  <2>6. d \in [year : Nat, month : Nat, day : Nat] /\ OnTheCalendar(d)
    BY OtherDatesAssumption
  <2> QED
    BY <2>4, <2>5, <2>6, BeforeCountsDays
<1>2. DatesInv => OrderIsChronological
  BY <1>1 DEF OrderIsChronological
<1> QED
  BY <1>2, Invariance, PTL
=============================================================================
