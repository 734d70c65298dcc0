---------------------------- MODULE ConsoleProofs ----------------------------
(***************************************************************************)
(* Proofs about the two ends of the shell, whatever is typed and printed:  *)
(* the table (module Printer) and the loop of main (module ReadLoop).      *)
(***************************************************************************)
EXTENDS Printer, ReadLoop, SequenceTheorems, Induction, TLAPS

-----------------------------------------------------------------------------
(* Sums of widths *)

(* SumsOf is a solution of its recursion, and its values are naturals. *)
LEMMA SumsOfUnfolds ==
  ASSUME NEW w \in Seq(Nat)
  PROVE  /\ SumsOf(w)[0] = 0
         /\ \A k \in 1 .. Len(w) : SumsOf(w)[k] = SumsOf(w)[k - 1] + w[k]
         /\ \A k \in 0 .. Len(w) : SumsOf(w)[k] \in Nat
<1> DEFINE N == Len(w)
           step == [k \in 1 .. N |-> [s \in Nat |-> s + w[k]]]
<1>1. N \in Nat /\ \A k \in 1 .. N : w[k] \in Nat
  OBVIOUS
<1>2. step \in Steps(N, Nat)
  BY <1>1 DEF Steps
<1>3. \A k \in 1 .. N, s \in Nat : step[k][s] = s + w[k]
  BY <1>1
<1>4. Solutions(N, Nat, 0, step) # {}
  <2> HIDE DEF step, N
  <2>1. 0 \in Nat /\ N \in Nat
    BY <1>1
  <2> QED
    BY <1>2, <2>1, RecursionExists
<1> HIDE DEF step, N
<1>5. PICK f \in [0 .. N -> Nat] : f[0] = 0 /\ \A k \in 1 .. N : f[k] = step[k][f[k - 1]]
  BY <1>4 DEF Solutions
<1>6. ASSUME NEW k \in 1 .. N PROVE f[k] = f[k - 1] + w[k]
  <2>1. f[k - 1] \in Nat
    BY <1>1
  <2>2. f[k] = step[k][f[k - 1]]
    BY <1>5
  <2> QED
    BY <1>3, <2>1, <2>2
<1>7. f = [k \in 0 .. N |-> IF k = 0 THEN 0 ELSE f[k - 1] + w[k]]
  BY <1>1, <1>5, <1>6
<1>8. SumsOf(w) = [k \in 0 .. N |-> IF k = 0 THEN 0 ELSE SumsOf(w)[k - 1] + w[k]]
  BY <1>7 DEF SumsOf, N
<1> DEFINE g == SumsOf(w)
<1> HIDE DEF g
<1>9. g[0] = 0 /\ \A k \in 1 .. N : g[k] = g[k - 1] + w[k]
  <2>1. g = [k \in 0 .. N |-> IF k = 0 THEN 0 ELSE g[k - 1] + w[k]]
    BY <1>8 DEF g
  <2>2. ASSUME NEW k \in 1 .. N PROVE g[k] = g[k - 1] + w[k]
    <3>1. k \in 0 .. N /\ k # 0
      BY <1>1
    <3> QED
      BY <2>1, <3>1
  <2>3. 0 \in 0 .. N
    BY <1>1
  <2> QED
    BY <2>1, <2>2, <2>3
<1>10. ASSUME NEW k \in 1 .. N, g[k - 1] \in Nat PROVE g[k] \in Nat
  <2>1. g[k] = g[k - 1] + w[k] /\ w[k] \in Nat
    BY <1>1, <1>9
  <2> QED
    BY <1>10, <2>1
<1>11. \A k \in 0 .. N : g[k] \in Nat
  <2>1. g[0] \in Nat
    BY <1>9
  <2> QED
    BY <1>1, <1>10, <2>1, RecursionTyped
<1> QED
  BY <1>9, <1>11 DEF g, N

(* A sum is a natural. *)
LEMMA SumTyped ==
  ASSUME NEW w \in Seq(Nat)
  PROVE  Sum(w) \in Nat
BY SumsOfUnfolds DEF Sum

(* Two in front and behind of every cell add up. *)
LEMMA SumOfPadded ==
  ASSUME NEW w \in Seq(Nat)
  PROVE  /\ [k \in DOMAIN w |-> w[k] + 2] \in Seq(Nat)
         /\ Len([k \in DOMAIN w |-> w[k] + 2]) = Len(w)
         /\ Sum([k \in DOMAIN w |-> w[k] + 2]) = Sum(w) + 2 * Len(w)
<1> DEFINE v == [k \in DOMAIN w |-> w[k] + 2]
           N == Len(w)
           T == {k \in 0 .. N : SumsOf(v)[k] = SumsOf(w)[k] + 2 * k}
<1>1. N \in Nat /\ DOMAIN w = 1 .. N /\ \A k \in 1 .. N : w[k] \in Nat
  OBVIOUS
<1>2. v \in Seq(Nat) /\ Len(v) = N /\ \A k \in 1 .. N : v[k] = w[k] + 2
  BY <1>1
<1> HIDE DEF v, N
<1>3. 0 \in T
  <2>1. SumsOf(v)[0] = 0 /\ SumsOf(w)[0] = 0
    BY <1>2, SumsOfUnfolds
  <2> QED
    BY <1>1, <2>1
<1>4. ASSUME NEW k \in 0 .. N - 1, k \in T PROVE k + 1 \in T
  <2>1. k + 1 \in 1 .. N /\ (k + 1) - 1 = k /\ k \in 0 .. N
    BY <1>1
  <2>2. SumsOf(v)[k + 1] = SumsOf(v)[k] + v[k + 1]
    BY <1>2, <2>1, SumsOfUnfolds
  <2>3. SumsOf(w)[k + 1] = SumsOf(w)[k] + w[k + 1] /\ SumsOf(w)[k] \in Nat
    BY <2>1, SumsOfUnfolds DEF N
  <2>4. SumsOf(v)[k] = SumsOf(w)[k] + 2 * k
    BY <1>4
  <2>5. v[k + 1] = w[k + 1] + 2 /\ w[k + 1] \in Nat
    BY <1>1, <1>2, <2>1
  <2>6. SumsOf(v)[k + 1] = SumsOf(w)[k + 1] + 2 * (k + 1)
    <3> DEFINE a == SumsOf(v)[k + 1]
               b == SumsOf(v)[k]
               c == SumsOf(w)[k + 1]
               d == SumsOf(w)[k]
               x == v[k + 1]
               y == w[k + 1]
    <3>1. a = b + x /\ c = d + y /\ d \in Nat /\ b = d + 2 * k /\ x = y + 2 /\ y \in Nat /\ k \in Int
      BY <2>1, <2>2, <2>3, <2>4, <2>5
    <3> HIDE DEF a, b, c, d, x, y
    <3>2. a = c + 2 * (k + 1)
      BY <3>1
    <3> QED
      BY <3>2 DEF a, c
  <2> QED
    BY <2>1, <2>6, <1>1
<1>5. N \in T
  <2> HIDE DEF T
  <2>1. 0 .. N \subseteq T
    BY <1>1, <1>3, <1>4, IntervalInductionSet
  <2> QED
    BY <1>1, <2>1
<1>6. Sum(v) = Sum(w) + 2 * N
  BY <1>2, <1>5 DEF Sum, N
<1> QED
  BY <1>2, <1>6 DEF v, N

(* A sum of smaller widths is smaller. *)
LEMMA SumMonotone ==
  ASSUME NEW v \in Seq(Nat), NEW w \in Seq(Nat), Len(v) = Len(w),
         \A k \in 1 .. Len(w) : v[k] <= w[k]
  PROVE  Sum(v) <= Sum(w)
<1> DEFINE N == Len(w)
           T == {k \in 0 .. N : SumsOf(v)[k] <= SumsOf(w)[k]}
<1>1. N \in Nat /\ Len(v) = N /\ \A k \in 1 .. N : w[k] \in Nat /\ v[k] \in Nat /\ v[k] <= w[k]
  OBVIOUS
<1>2. /\ SumsOf(v)[0] = 0
      /\ \A k \in 1 .. N : SumsOf(v)[k] = SumsOf(v)[k - 1] + v[k]
      /\ \A k \in 0 .. N : SumsOf(v)[k] \in Nat
  BY <1>1, SumsOfUnfolds
<1>3. /\ SumsOf(w)[0] = 0
      /\ \A k \in 1 .. N : SumsOf(w)[k] = SumsOf(w)[k - 1] + w[k]
      /\ \A k \in 0 .. N : SumsOf(w)[k] \in Nat
  BY SumsOfUnfolds
<1> HIDE DEF N
<1>4. 0 \in T
  BY <1>1, <1>2, <1>3
<1>5. ASSUME NEW k \in 0 .. N - 1, k \in T PROVE k + 1 \in T
  <2>1. k + 1 \in 1 .. N /\ (k + 1) - 1 = k /\ k \in 0 .. N /\ k + 1 \in 0 .. N
    BY <1>1
  <2>2. SumsOf(v)[k + 1] = SumsOf(v)[k] + v[k + 1] /\ SumsOf(w)[k + 1] = SumsOf(w)[k] + w[k + 1]
    BY <1>2, <1>3, <2>1
  <2>3. SumsOf(v)[k] \in Nat /\ SumsOf(w)[k] \in Nat /\ SumsOf(v)[k] <= SumsOf(w)[k]
    BY <1>2, <1>3, <1>5, <2>1
  <2>4. w[k + 1] \in Nat /\ v[k + 1] \in Nat /\ v[k + 1] <= w[k + 1]
    BY <1>1, <2>1
  <2>5. SumsOf(v)[k + 1] <= SumsOf(w)[k + 1]
    <3> DEFINE a == SumsOf(v)[k]
               b == SumsOf(w)[k]
               x == v[k + 1]
               y == w[k + 1]
    <3>1. a \in Nat /\ b \in Nat /\ x \in Nat /\ y \in Nat /\ a <= b /\ x <= y
      BY <2>3, <2>4
    <3>2. SumsOf(v)[k + 1] = a + x /\ SumsOf(w)[k + 1] = b + y
      BY <2>2
    <3> HIDE DEF a, b, x, y
    <3> QED
      BY <3>1, <3>2
  <2> QED
    BY <2>1, <2>5
<1>6. N \in T
  <2> HIDE DEF T
  <2>1. 0 .. N \subseteq T
    BY <1>1, <1>4, <1>5, IntervalInductionSet
  <2> QED
    BY <1>1, <2>1
<1> QED
  BY <1>1, <1>6 DEF Sum, N

(* The length of a line is that of its cells and one more bar than those. *)
LEMMA LineIs ==
  ASSUME NEW w \in Seq(Nat)
  PROVE  /\ Line(w) \in [length : Nat, bars : SUBSET Nat]
         /\ Line(w).length = 1 + Sum(w) + Len(w)
<1>1. ASSUME NEW k \in 0 .. Len(w)
      PROVE  1 + Sum(SubSeq(w, 1, k)) + k \in Nat
  <2>1. SubSeq(w, 1, k) \in Seq(Nat)
    <3>1. \A i \in 1 .. k : w[i] \in Nat
      OBVIOUS
    <3> QED
      BY <3>1
  <2>2. Sum(SubSeq(w, 1, k)) \in Nat
    BY <2>1, SumTyped
  <2> QED
    BY <2>2
<1>2. SubSeq(w, 1, Len(w)) = w
  OBVIOUS
<1>3. Len(w) \in 0 .. Len(w)
  OBVIOUS
<1> QED
  BY <1>1, <1>2, <1>3 DEF Line

-----------------------------------------------------------------------------
(* The table *)

(* A width for each element of a sequence makes a sequence of widths. *)
LEMMA WidthsAreASequence ==
  ASSUME NEW s \in Seq(Nat), NEW f \in [DOMAIN s -> Nat]
  PROVE  f \in Seq(Nat) /\ Len(f) = Len(s) /\ DOMAIN f = DOMAIN s
<1>1. Len(s) \in Nat /\ DOMAIN s = 1 .. Len(s)
  OBVIOUS
<1>2. f \in [1 .. Len(s) -> Nat]
  BY <1>1
<1> QED
  BY <1>1, <1>2

(* A line of padded cells is as long as the line of dashes. *)
LEMMA DashesAreAsLong ==
  ASSUME PrinterTypes
  PROVE  /\ Padded \in Seq(Nat)
         /\ Line(Padded) \in [length : Nat, bars : SUBSET Nat]
         /\ Line(Padded).length = line_length
         /\ line_length \in Nat
<1>1. column_width \in Seq(Nat)
  BY DEF PrinterTypes
<1>2. /\ Padded \in Seq(Nat)
      /\ Len(Padded) = Len(column_width)
      /\ Sum(Padded) = Sum(column_width) + 2 * Len(column_width)
  BY <1>1, SumOfPadded DEF Padded
<1>3. /\ Line(Padded) \in [length : Nat, bars : SUBSET Nat]
      /\ Line(Padded).length = 1 + Sum(Padded) + Len(Padded)
  BY <1>2, LineIs
<1>4. Sum(column_width) \in Nat
  BY <1>1, SumTyped
<1>5. Len(column_width) \in Nat
  BY <1>1
<1> DEFINE S == Sum(column_width)
           N == Len(column_width)
<1>6. line_length = S + N * 3 + 1
  BY DEF line_length, min_distance
<1>7. Line(Padded).length = 1 + (S + 2 * N) + N
  BY <1>2, <1>3
<1>8. S \in Nat /\ N \in Nat
  BY <1>4, <1>5
<1> HIDE DEF S, N
<1>9. Line(Padded).length = line_length /\ line_length \in Nat
  BY <1>6, <1>7, <1>8
<1> QED
  BY <1>2, <1>3, <1>9

(* A header that fits the columns is no longer than the dashes. *)
LEMMA HeaderIsNoLonger ==
  ASSUME PrinterTypes, Fits(attributes)
  PROVE  /\ Line([k \in DOMAIN attributes |-> attributes[k] + 2]) \in [length : Nat, bars : SUBSET Nat]
         /\ Line([k \in DOMAIN attributes |-> attributes[k] + 2]).length <= line_length
<1> DEFINE cells == [k \in DOMAIN attributes |-> attributes[k] + 2]
<1>1. /\ attributes \in Seq(Nat) /\ column_width \in Seq(Nat)
      /\ Len(attributes) = Len(column_width)
      /\ \A k \in 1 .. Len(column_width) : attributes[k] <= column_width[k]
  <2>1. column_width \in Seq(Nat) /\ attributes \in Seq(Nat)
    BY DEF PrinterTypes
  <2>2. DOMAIN column_width = 1 .. Len(column_width)
    BY <2>1
  <2> QED
    BY <2>1, <2>2 DEF Fits
<1>2. cells \in Seq(Nat) /\ Len(cells) = Len(attributes) /\ Sum(cells) = Sum(attributes) + 2 * Len(attributes)
  BY <1>1, SumOfPadded
<1> HIDE DEF cells
<1>3. Line(cells) \in [length : Nat, bars : SUBSET Nat] /\ Line(cells).length = 1 + Sum(cells) + Len(cells)
  BY <1>2, LineIs
<1>4. Sum(attributes) <= Sum(column_width)
  BY <1>1, SumMonotone
<1>5. Sum(attributes) \in Nat /\ Sum(column_width) \in Nat
  BY <1>1, SumTyped
<1> DEFINE S == Sum(attributes)
           W == Sum(column_width)
           N == Len(column_width)
<1>6. line_length = W + N * 3 + 1
  BY DEF line_length, min_distance
<1>7. Line(cells).length = 1 + (S + 2 * N) + N
  BY <1>1, <1>2, <1>3
<1>8. S \in Nat /\ W \in Nat /\ N \in Nat /\ S <= W
  BY <1>1, <1>4, <1>5
<1> HIDE DEF S, W, N
<1>9. Line(cells).length <= line_length
  BY <1>6, <1>7, <1>8
<1> QED
  BY <1>3, <1>9 DEF cells

(* The printer starts with nothing written and nothing measured. *)
LEMMA PrinterInitKeeps == PrinterInit => PrinterInv
<1> SUFFICES ASSUME PrinterInit PROVE PrinterInv
  OBVIOUS
<1>1. attributes \in Seq(Nat)
  BY PrinterAssumption DEF PrinterInit
<1>2. PrinterTypes
  BY <1>1 DEF PrinterInit, PrinterTypes
<1>3. Measured /\ Printed /\ RowsAlign /\ AllOrNothing
  BY DEF PrinterInit, Measured, Printed, RowsAlign, AllOrNothing
<1> QED
  BY <1>2, <1>3 DEF PrinterInv

(* output_result makes every column as wide as its name. *)
LEMMA OutputKeeps == PrinterInv /\ output_result => PrinterInv'
<1> SUFFICES ASSUME PrinterInv, output_result PROVE PrinterInv'
  OBVIOUS
<1>1. PrinterTypes
  BY DEF PrinterInv
<1>2. attributes \in Seq(Nat) /\ column_width \in Seq(Nat)
  BY <1>1 DEF PrinterTypes
<1>3. \A k \in DOMAIN attributes : Resized[k] \in Nat
  BY <1>2 DEF Resized
<1>4. \A k \in DOMAIN attributes :
        MaxOf(Resized[k], attributes[k]) \in Nat /\ attributes[k] <= MaxOf(Resized[k], attributes[k])
  BY <1>2, <1>3 DEF MaxOf
<1>5. /\ column_width' = [k \in DOMAIN attributes |-> MaxOf(Resized[k], attributes[k])]
      /\ attributes' = attributes /\ result' \in Results
      /\ at' = "widths" /\ todo' = 0 /\ lines' = <<>> /\ calls' = calls + 1
  BY DEF output_result
<1>6. column_width' \in Seq(Nat) /\ Len(column_width') = Len(attributes)
  <2>1. column_width' \in [DOMAIN attributes -> Nat]
    BY <1>4, <1>5
  <2> QED
    BY <1>2, <2>1, WidthsAreASequence
<1>7. \A k \in DOMAIN attributes : attributes[k] <= column_width'[k]
  BY <1>4, <1>5
<1>8. PrinterTypes'
  <2>1. result' \in Seq(Seq(Nat))
    BY <1>5, PrinterAssumption
  <2>2. calls' \in Nat
    BY <1>1, <1>5 DEF PrinterTypes
  <2> QED
    BY <1>2, <1>5, <1>6, <2>1, <2>2 DEF PrinterTypes
<1>9. Measured'
  <2>1. Fits(attributes)'
    BY <1>2, <1>5, <1>6, <1>7 DEF Fits
  <2> QED
    BY <1>5, <2>1 DEF Measured
<1>10. Printed' /\ RowsAlign' /\ AllOrNothing'
  BY <1>5 DEF Printed, RowsAlign, AllOrNothing
<1> QED
  BY <1>8, <1>9, <1>10 DEF PrinterInv

(* A measured row fits, and so does all that fitted before. *)
LEMMA MeasureKeeps == PrinterInv /\ MeasureRow => PrinterInv'
<1> SUFFICES ASSUME PrinterInv, MeasureRow PROVE PrinterInv'
  OBVIOUS
<1>1. PrinterTypes /\ Measured /\ Printed
  BY DEF PrinterInv
<1>2. /\ attributes \in Seq(Nat) /\ column_width \in Seq(Nat) /\ result \in Seq(Seq(Nat))
      /\ todo \in Nat /\ todo + 1 \in DOMAIN result
  BY <1>1 DEF PrinterTypes, MeasureRow, MoreRows
<1>3. /\ column_width' = [k \in DOMAIN column_width |-> MaxOf(column_width[k], Row[k])]
      /\ at = "widths" /\ at' = "widths" /\ todo' = todo + 1 /\ Len(Row) = Len(attributes)
      /\ attributes' = attributes /\ result' = result /\ lines' = lines /\ calls' = calls
  BY DEF MeasureRow
<1>4. Row \in Seq(Nat)
  BY <1>2 DEF Row
<1>5. Fits(attributes) /\ \A i \in 1 .. todo : Fits(result[i])
  BY <1>1, <1>3 DEF Measured
<1>6. Len(column_width) = Len(attributes)
  BY <1>5 DEF Fits
<1>7. /\ column_width' \in Seq(Nat) /\ Len(column_width') = Len(column_width)
      /\ DOMAIN column_width' = DOMAIN column_width
      /\ \A k \in DOMAIN column_width :
           column_width[k] <= column_width'[k] /\ Row[k] <= column_width'[k]
  <2>1. \A k \in DOMAIN column_width : column_width[k] \in Nat /\ Row[k] \in Nat
    <3> DEFINE row == Row
    <3>1. row \in Seq(Nat) /\ Len(row) = Len(column_width)
      BY <1>3, <1>4, <1>6
    <3> HIDE DEF row
    <3>2. DOMAIN row = DOMAIN column_width
      BY <1>2, <3>1
    <3>3. \A k \in DOMAIN column_width : column_width[k] \in Nat /\ row[k] \in Nat
      BY <1>2, <3>1, <3>2
    <3> QED
      BY <3>3 DEF row
  <2>2. \A k \in DOMAIN column_width :
          /\ MaxOf(column_width[k], Row[k]) \in Nat
          /\ column_width[k] <= MaxOf(column_width[k], Row[k])
          /\ Row[k] <= MaxOf(column_width[k], Row[k])
    BY <2>1 DEF MaxOf
  <2>3. column_width' \in [DOMAIN column_width -> Nat]
    BY <1>3, <2>2
  <2>4. column_width' \in Seq(Nat) /\ Len(column_width') = Len(column_width)
    BY <1>2, <2>3, WidthsAreASequence
  <2>5. \A k \in DOMAIN column_width : column_width'[k] = MaxOf(column_width[k], Row[k])
    BY <1>3
  <2> QED
    BY <2>2, <2>3, <2>4, <2>5
<1>8. ASSUME NEW row \in Seq(Nat), Fits(row) PROVE Fits(row)'
  <2>1. Len(row) = Len(column_width) /\ \A k \in DOMAIN column_width : row[k] <= column_width[k]
    BY <1>8 DEF Fits
  <2>2. ASSUME NEW k \in DOMAIN column_width PROVE row[k] <= column_width'[k]
    <3>1. DOMAIN row = 1 .. Len(row) /\ DOMAIN column_width = 1 .. Len(column_width)
      BY <1>2
    <3>2. k \in DOMAIN row /\ k \in DOMAIN column_width'
      BY <1>7, <2>1, <3>1
    <3>3. row[k] \in Nat
      BY <3>2
    <3>4. column_width[k] \in Nat
      BY <1>2
    <3>5. column_width'[k] \in Nat
      BY <1>7, <3>2
    <3>6. row[k] <= column_width[k] /\ column_width[k] <= column_width'[k]
      BY <1>7, <2>1
    <3> QED
      BY <3>3, <3>4, <3>5, <3>6
  <2> QED
    BY <1>7, <2>1, <2>2 DEF Fits
<1>9. \A row : row = Row => Fits(row)'
  <2>1. Len(Row) = Len(column_width') /\ \A k \in DOMAIN column_width' : Row[k] <= column_width'[k]
    BY <1>3, <1>6, <1>7
  <2> DEFINE fresh == Row
  <2>2. Len(fresh) = Len(column_width') /\ \A k \in DOMAIN column_width' : fresh[k] <= column_width'[k]
    BY <2>1
  <2> QED
    BY <2>1 DEF Fits
<1>10. PrinterTypes'
  <2>1. todo + 1 \in 0 .. Len(result)
    BY <1>2
  <2> QED
    BY <1>1, <1>3, <1>7, <2>1 DEF PrinterTypes
<1>11. Measured'
  <2>1. \A row \in Seq(Nat) : Fits(row) => Fits(row)'
    BY <1>8
  <2>2. Fits(attributes)'
    <3>1. PICK a : a = attributes
      OBVIOUS
    <3>2. Fits(a)'
      BY <1>2, <1>5, <2>1, <3>1
    <3>3. attributes' = a
      BY <1>3, <3>1
    <3> QED
      BY <3>2, <3>3 DEF Fits
  <2>3. ASSUME NEW i \in 1 .. todo + 1 PROVE Fits(result[i])'
    <3>1. PICK row : row = result[i]
      OBVIOUS
    <3>2. Fits(row)'
      <4>1. CASE i = todo + 1
        BY <1>9, <3>1, <4>1 DEF Row
      <4>2. CASE i # todo + 1
        <5>1. i \in 1 .. todo /\ i \in DOMAIN result
          BY <1>2, <4>2
        <5>2. row \in Seq(Nat) /\ Fits(row)
          BY <1>2, <1>5, <3>1, <5>1
        <5> QED
          BY <2>1, <5>2
      <4> QED
        BY <4>1, <4>2
    <3>3. result'[i] = row
      BY <1>3, <3>1
    <3> QED
      BY <3>2, <3>3 DEF Fits
  <2> QED
    BY <1>3, <2>2, <2>3 DEF Measured
<1>12. Printed' /\ RowsAlign' /\ AllOrNothing'
  BY <1>1, <1>3 DEF Printed, RowsAlign, AllOrNothing
<1> QED
  BY <1>10, <1>11, <1>12 DEF PrinterInv

(* The header is written, and the dashes, when every row fits. *)
LEMMA HeaderKeeps == PrinterInv /\ PrintHeader => PrinterInv'
<1> SUFFICES ASSUME PrinterInv, PrintHeader PROVE PrinterInv'
  OBVIOUS
<1>1. PrinterTypes /\ Measured
  BY DEF PrinterInv
<1> DEFINE header == Line([k \in DOMAIN attributes |-> attributes[k] + 2])
           dashes == [length |-> line_length, bars |-> {}]
<1>2. /\ lines' = <<header, dashes>> /\ at = "widths" /\ at' = "rows" /\ todo' = 0
      /\ attributes' = attributes /\ column_width' = column_width /\ result' = result
      /\ calls' = calls /\ ~ MoreRows
  BY DEF PrintHeader
<1>3. Fits(attributes) /\ \A i \in 1 .. todo : Fits(result[i])
  BY <1>1, <1>2 DEF Measured
<1>4. header \in [length : Nat, bars : SUBSET Nat] /\ header.length <= line_length
  BY <1>1, <1>3, HeaderIsNoLonger
<1>5. dashes \in [length : Nat, bars : SUBSET Nat] /\ dashes.length = line_length
  BY <1>1, DashesAreAsLong
<1> HIDE DEF header, dashes
<1>6. /\ lines' \in Seq([length : Nat, bars : SUBSET Nat]) /\ Len(lines') = 2
      /\ DOMAIN lines' = 1 .. 2 /\ lines'[1] = header /\ lines'[2] = dashes
  BY <1>2, <1>4, <1>5
<1>7. line_length' = line_length
  BY <1>2 DEF line_length
<1>8. PrinterTypes'
  <2>1. 0 \in 0 .. Len(result)
    BY <1>1 DEF PrinterTypes
  <2> QED
    BY <1>1, <1>2, <1>6, <2>1 DEF PrinterTypes
<1>9. Measured'
  <2>1. Fits(attributes)'
    BY <1>2, <1>3 DEF Fits
  <2>2. DOMAIN result = 1 .. todo
    BY <1>1, <1>2 DEF PrinterTypes, MoreRows
  <2>3. \A i \in DOMAIN result' : Fits(result[i])'
    BY <1>2, <1>3, <2>2 DEF Fits
  <2> QED
    BY <1>2, <2>1, <2>3 DEF Measured
<1>10. Printed'
  <2>1. lines'[2].length = line_length'
    BY <1>5, <1>6, <1>7
  <2> QED
    BY <1>2, <1>6, <2>1 DEF Printed
<1>11. RowsAlign'
  <2>1. line_length \in Nat
    BY <1>1, DashesAreAsLong
  <2>2. lines'[1].length <= lines'[2].length /\ lines'[2].length <= lines'[2].length
    BY <1>4, <1>5, <1>6, <2>1
  <2> QED
    BY <1>6, <2>2 DEF RowsAlign
<1>12. AllOrNothing'
  BY <1>2 DEF AllOrNothing
<1> QED
  BY <1>8, <1>9, <1>10, <1>11, <1>12 DEF PrinterInv

(* A row that fits is padded to the widths, and never throws. *)
LEMMA RowKeeps == PrinterInv /\ PrintRow => PrinterInv'
<1> SUFFICES ASSUME PrinterInv, PrintRow PROVE PrinterInv'
  OBVIOUS
<1>1. PrinterTypes /\ Measured /\ Printed /\ RowsAlign
  BY DEF PrinterInv
<1>2. /\ at = "rows" /\ todo < Len(result) /\ attributes' = attributes
      /\ column_width' = column_width /\ result' = result /\ calls' = calls
  BY DEF PrintRow, MoreRows
<1>3. /\ column_width \in Seq(Nat) /\ result \in Seq(Seq(Nat)) /\ todo \in Nat
      /\ todo + 1 \in DOMAIN result
  BY <1>1, <1>2 DEF PrinterTypes
<1>4. Row \in Seq(Nat) /\ Fits(Row)
  BY <1>1, <1>2, <1>3 DEF Row, Measured
<1>5. DOMAIN Row = DOMAIN column_width /\ DOMAIN column_width = 1 .. Len(column_width)
  BY <1>3, <1>4 DEF Fits
<1>6. ASSUME NEW k \in DOMAIN Row
      PROVE  Spaces(k, Row[k]) >= 0 /\ Spaces(k, Row[k]) + Row[k] + 1 = column_width[k] + 2
  <2>1. Row[k] \in Nat /\ column_width[k] \in Nat /\ Row[k] <= column_width[k]
    BY <1>3, <1>4, <1>5 DEF Fits
  <2> QED
    BY <2>1 DEF Spaces, min_distance
<1>7. [k \in DOMAIN Row |-> Spaces(k, Row[k]) + Row[k] + 1] = Padded
  BY <1>5, <1>6 DEF Padded
<1>8. ~ \E k \in DOMAIN Row : Spaces(k, Row[k]) < 0
  <2>1. ASSUME NEW k \in DOMAIN Row PROVE ~ (Spaces(k, Row[k]) < 0)
    <3>1. Row[k] \in Nat /\ column_width[k] \in Nat
      BY <1>3, <1>4, <1>5
    <3>2. Spaces(k, Row[k]) \in Int
      BY <3>1 DEF Spaces, min_distance
    <3> QED
      BY <1>6, <3>2
  <2> QED
    BY <2>1
<1>9. lines' = Append(lines, Line(Padded)) /\ todo' = todo + 1 /\ at' = "rows"
  BY <1>2, <1>7, <1>8 DEF PrintRow
<1>10. /\ Line(Padded) \in [length : Nat, bars : SUBSET Nat]
       /\ Line(Padded).length = line_length /\ line_length \in Nat
  BY <1>1, DashesAreAsLong
<1>11. /\ lines \in Seq([length : Nat, bars : SUBSET Nat]) /\ Len(lines) = todo + 2
       /\ lines[2].length = line_length
       /\ \A i \in 3 .. Len(lines) : lines[i] = Line(Padded)
  BY <1>1, <1>2 DEF PrinterTypes, Printed
<1> DEFINE last == Line(Padded)
<1>12. /\ lines' \in Seq([length : Nat, bars : SUBSET Nat])
       /\ DOMAIN lines' = 1 .. todo + 3 /\ Len(lines') = todo + 3 /\ lines'[todo + 3] = last
       /\ \A i \in 1 .. todo + 2 : lines'[i] = lines[i]
  <2>1. last \in [length : Nat, bars : SUBSET Nat]
    BY <1>10
  <2>2. lines' = Append(lines, last)
    BY <1>9
  <2> HIDE DEF last
  <2> QED
    BY <1>3, <1>11, <2>1, <2>2
<1>13. Padded' = Padded /\ line_length' = line_length
  BY <1>2 DEF Padded, line_length
<1>14. PrinterTypes'
  <2>1. todo + 1 \in 0 .. Len(result)
    BY <1>3
  <2> QED
    BY <1>1, <1>2, <1>9, <1>12, <2>1 DEF PrinterTypes
<1>15. Measured'
  BY <1>1, <1>2, <1>9 DEF Measured, Fits
<1>16. \A i \in 3 .. todo + 3 : lines'[i] = last
  <2>1. ASSUME NEW i \in 3 .. todo + 3 PROVE lines'[i] = last
    <3>1. CASE i = todo + 3
      BY <1>12, <3>1
    <3>2. CASE i # todo + 3
      <4>1. i \in 1 .. todo + 2 /\ i \in 3 .. Len(lines)
        BY <1>3, <1>11, <3>2
      <4> QED
        BY <1>11, <1>12, <4>1
    <3> QED
      BY <3>1, <3>2
  <2> QED
    BY <2>1
<1>17. lines'[2].length = line_length
  <2>1. 2 \in 1 .. todo + 2
    BY <1>3
  <2>2. lines'[2] = lines[2]
    BY <1>12, <2>1
  <2> QED
    BY <1>11, <2>2
<1>18. Printed'
  <2>1. Line(Padded)' = last
    <3>1. Padded' = Padded
      BY <1>13
    <3> QED
      BY <3>1 DEF Line
  <2>2. Len(lines') = todo' + 2
    BY <1>3, <1>9, <1>12
  <2> HIDE DEF last
  <2> QED
    BY <1>9, <1>12, <1>13, <1>16, <1>17, <2>1, <2>2 DEF Printed
<1>19. RowsAlign'
  <2>1. lines[1].length <= line_length
    <3>1. 1 \in DOMAIN lines
      BY <1>3, <1>11
    <3>2. lines[1].length <= lines[2].length
      BY <1>1, <3>1 DEF RowsAlign
    <3> QED
      BY <1>11, <3>2
  <2>2. lines'[1].length <= lines'[2].length /\ lines'[2].length <= lines'[2].length
    <3>1. 1 \in 1 .. todo + 2
      BY <1>3
    <3>2. lines'[1] = lines[1]
      BY <1>12, <3>1
    <3>3. line_length <= line_length
      BY <1>10
    <3> QED
      BY <1>17, <2>1, <3>2, <3>3
  <2>3. last.length = line_length
    BY <1>10
  <2> HIDE DEF last
  <2>4. ASSUME NEW i \in 3 .. todo + 3
        PROVE  /\ lines'[i].length <= lines'[2].length
               /\ lines'[i].length = lines'[2].length /\ lines'[i].bars = lines'[3].bars
    <3>1. lines'[i] = last /\ lines'[3] = last
      BY <1>3, <1>16
    <3> QED
      BY <1>10, <1>17, <2>3, <3>1
  <2>5. \A i \in 1 .. todo + 3 : i = 1 \/ i = 2 \/ i \in 3 .. todo + 3
    BY <1>3
  <2> QED
    BY <1>12, <2>2, <2>4, <2>5 DEF RowsAlign
<1>20. AllOrNothing'
  BY <1>9 DEF AllOrNothing
<1> QED
  BY <1>14, <1>15, <1>18, <1>19, <1>20 DEF PrinterInv

(* Every step keeps the invariant: the other steps write nothing. *)
LEMMA PrinterStepKeeps == PrinterInv /\ [PrinterNext]_printerVars => PrinterInv'
<1> SUFFICES ASSUME PrinterInv, [PrinterNext]_printerVars PROVE PrinterInv'
  OBVIOUS
<1>1. PrinterTypes /\ Measured /\ Printed /\ RowsAlign /\ AllOrNothing
  BY DEF PrinterInv
<1>2. CASE set_attributes
  <2>1. PrinterTypes'
    BY <1>1, <1>2, PrinterAssumption DEF set_attributes, PrinterTypes
  <2>2. Measured' /\ Printed' /\ RowsAlign' /\ AllOrNothing'
    BY <1>1, <1>2 DEF set_attributes, Measured, Printed, RowsAlign, AllOrNothing
  <2> QED
    BY <2>1, <2>2 DEF PrinterInv
<1>3. CASE output_result
  BY <1>3, OutputKeeps
<1>4. CASE MeasureRow
  BY <1>4, MeasureKeeps
<1>5. CASE MeasureShortRow
  <2>1. /\ at = "widths" /\ at' = "threw" /\ todo < Len(result) /\ Len(Row) < Len(attributes)
        /\ attributes' = attributes /\ column_width' = column_width /\ result' = result
        /\ todo' = todo /\ lines' = lines /\ calls' = calls
    BY <1>5 DEF MeasureShortRow, MoreRows
  <2>2. PrinterTypes'
    BY <1>1, <2>1 DEF PrinterTypes
  <2>3. Measured' /\ Printed' /\ RowsAlign'
    BY <1>1, <2>1 DEF Measured, Printed, RowsAlign
  <2>4. todo + 1 \in DOMAIN result
    BY <1>1, <2>1 DEF PrinterTypes
  <2>5. AllOrNothing'
    BY <1>1, <2>1, <2>4 DEF AllOrNothing, Printed, Row
  <2> QED
    BY <2>2, <2>3, <2>5 DEF PrinterInv
<1>6. CASE PrintHeader
  BY <1>6, HeaderKeeps
<1>7. CASE PrintRow
  BY <1>7, RowKeeps
<1>8. CASE PrintEnd
  <2>1. /\ at = "rows" /\ at' = "idle" /\ ~ (todo < Len(result))
        /\ attributes' = attributes /\ column_width' = column_width /\ result' = result
        /\ todo' = todo /\ lines' = lines /\ calls' = calls
    BY <1>8 DEF PrintEnd, MoreRows
  <2>2. PrinterTypes'
    BY <1>1, <2>1 DEF PrinterTypes
  <2>3. Measured' /\ Printed' /\ RowsAlign'
    BY <1>1, <2>1 DEF Measured, Printed, RowsAlign
  <2>4. todo = Len(result)
    BY <1>1, <2>1 DEF PrinterTypes
  <2>5. AllOrNothing'
    BY <1>1, <2>1, <2>4 DEF AllOrNothing, Printed
  <2> QED
    BY <2>2, <2>3, <2>5 DEF PrinterInv
<1>9. CASE UNCHANGED printerVars
  <2>1. /\ attributes' = attributes /\ column_width' = column_width /\ result' = result
        /\ at' = at /\ todo' = todo /\ lines' = lines /\ calls' = calls
    BY <1>9 DEF printerVars
  <2>2. PrinterTypes' /\ RowsAlign' /\ AllOrNothing'
    BY <1>1, <2>1 DEF PrinterTypes, RowsAlign, AllOrNothing
  <2>3. Measured'
    BY <1>1, <2>1 DEF Measured, Fits
  <2>4. line_length' = line_length /\ Line(Padded)' = Line(Padded)
    BY <2>1 DEF line_length, Line, Padded
  <2>5. Printed'
    BY <1>1, <2>1, <2>4 DEF Printed
  <2> QED
    BY <2>2, <2>3, <2>5 DEF PrinterInv
<1> QED
  BY <1>2, <1>3, <1>4, <1>5, <1>6, <1>7, <1>8, <1>9 DEF PrinterNext

(* The invariant holds throughout, for any attribute lists and results. *)
THEOREM PrinterInvariance == PrinterSpec => []PrinterInv
<1>1. PrinterInit => PrinterInv
  BY PrinterInitKeeps
<1>2. PrinterInv /\ [PrinterNext]_printerVars => PrinterInv'
  BY PrinterStepKeeps
<1> QED
  BY <1>1, <1>2, PTL DEF PrinterSpec

(* The rows of every table that is printed have their bars in line. *)
THEOREM TablesAlign == PrinterSpec => []RowsAlign
<1>1. PrinterInv => RowsAlign
  BY DEF PrinterInv
<1> QED
  BY <1>1, PrinterInvariance, PTL

(* A result is printed whole, or nothing of it is written. *)
THEOREM TablesAreWhole == PrinterSpec => []AllOrNothing
<1>1. PrinterInv => AllOrNothing
  BY DEF PrinterInv
<1> QED
  BY <1>1, PrinterInvariance, PTL

-----------------------------------------------------------------------------
(* Where statements end *)

(* EndsUpto is a solution of its recursion. *)
LEMMA EndsUnfold ==
  ASSUME NEW s, Len(s) \in Nat
  PROVE  /\ EndsUpto(s)[0] = <<0>>
         /\ \A n \in 1 .. Len(s) :
              EndsUpto(s)[n] = IF EndsStatement(s, n) THEN Append(EndsUpto(s)[n - 1], n)
                               ELSE EndsUpto(s)[n - 1]
         /\ \A n \in 0 .. Len(s) : EndsUpto(s)[n] \in Seq(Nat)
<1> DEFINE N == Len(s)
           next(n, e) == IF EndsStatement(s, n) THEN Append(e, n) ELSE e
           step == [n \in 1 .. N |-> [e \in Seq(Nat) |-> next(n, e)]]
<1>1. N \in Nat
  OBVIOUS
<1>2. \A n \in 1 .. N, e \in Seq(Nat) : next(n, e) \in Seq(Nat)
  <2>1. ASSUME NEW n \in 1 .. N, NEW e \in Seq(Nat) PROVE Append(e, n) \in Seq(Nat)
    OBVIOUS
  <2> QED
    BY <2>1
<1> HIDE DEF next, N
<1>3. step \in Steps(N, Seq(Nat))
  BY <1>2 DEF Steps
<1>4. \A n \in 1 .. N, e \in Seq(Nat) : step[n][e] = next(n, e)
  OBVIOUS
<1> HIDE DEF step
<1>5. Solutions(N, Seq(Nat), <<0>>, step) # {}
  <2>1. <<0>> \in Seq(Nat)
    OBVIOUS
  <2> QED
    BY <1>1, <1>3, <2>1, RecursionExists
<1>6. PICK f \in [0 .. N -> Seq(Nat)] : f[0] = <<0>> /\ \A n \in 1 .. N : f[n] = step[n][f[n - 1]]
  BY <1>5 DEF Solutions
<1>7. ASSUME NEW n \in 1 .. N PROVE f[n] = next(n, f[n - 1])
  <2>1. f[n - 1] \in Seq(Nat)
    BY <1>1
  <2>2. f[n] = step[n][f[n - 1]]
    BY <1>6
  <2> QED
    BY <1>4, <2>1, <2>2
<1>8. f = [n \in 0 .. N |-> IF n = 0 THEN <<0>> ELSE next(n, f[n - 1])]
  <2>1. f = [n \in 0 .. N |-> f[n]]
    OBVIOUS
  <2>2. \A n \in 0 .. N : f[n] = IF n = 0 THEN <<0>> ELSE next(n, f[n - 1])
    BY <1>1, <1>6, <1>7
  <2> QED
    BY <2>1, <2>2
<1>9. EndsUpto(s) = [n \in 0 .. N |-> IF n = 0 THEN <<0>> ELSE next(n, EndsUpto(s)[n - 1])]
  BY <1>8 DEF EndsUpto, N, next
<1> DEFINE g == EndsUpto(s)
<1>10. g = [n \in 0 .. N |-> IF n = 0 THEN <<0>> ELSE next(n, g[n - 1])]
  BY <1>9
<1> HIDE DEF g
<1>11. g[0] = <<0>> /\ \A n \in 1 .. N : g[n] = next(n, g[n - 1])
  <2>1. ASSUME NEW n \in 1 .. N PROVE g[n] = next(n, g[n - 1])
    <3>1. n \in 0 .. N /\ n # 0
      BY <1>1
    <3> QED
      BY <1>10, <3>1
  <2>2. 0 \in 0 .. N
    BY <1>1
  <2> QED
    BY <1>10, <2>1, <2>2
<1>12. \A n \in 0 .. N : g[n] \in Seq(Nat)
  <2>1. g[0] \in Seq(Nat)
    BY <1>11
  <2>2. \A n \in 1 .. N : g[n - 1] \in Seq(Nat) => g[n] \in Seq(Nat)
    BY <1>2, <1>11
  <2> QED
    BY <1>1, <2>1, <2>2, RecursionTyped
<1> QED
  BY <1>11, <1>12 DEF g, N, next

(* They are newlines (or 0) in what was read, the last one the highest. *)
LEMMA EndsAreNewlines ==
  ASSUME NEW s, Len(s) \in Nat
  PROVE  \A n \in 0 .. Len(s) :
           /\ EndsUpto(s)[n] \in Seq(Nat) /\ Len(EndsUpto(s)[n]) >= 1
           /\ \A k \in 1 .. Len(EndsUpto(s)[n]) :
                /\ EndsUpto(s)[n][k] \in 0 .. n
                /\ EndsUpto(s)[n][k] = 0 \/ s[EndsUpto(s)[n][k]] = Newline
<1> DEFINE N == Len(s)
           E == EndsUpto(s)
           Good(e, n) == /\ e \in Seq(Nat) /\ Len(e) >= 1
                         /\ \A k \in 1 .. Len(e) : e[k] \in 0 .. n /\ (e[k] = 0 \/ s[e[k]] = Newline)
           T == {n \in 0 .. N : Good(E[n], n)}
<1>1. /\ E[0] = <<0>>
      /\ \A n \in 1 .. N : E[n] = IF EndsStatement(s, n) THEN Append(E[n - 1], n) ELSE E[n - 1]
  BY EndsUnfold
<1>2. N \in Nat
  OBVIOUS
<1> HIDE DEF N, E
<1>3. 0 \in T
  <2>1. Good(<<0>>, 0)
    OBVIOUS
  <2> HIDE DEF Good
  <2> QED
    BY <1>1, <1>2, <2>1
<1>4. ASSUME NEW n \in 0 .. N - 1, n \in T PROVE n + 1 \in T
  <2>1. n + 1 \in 1 .. N /\ (n + 1) - 1 = n /\ n + 1 \in 0 .. N /\ n \in Nat
    BY <1>2
  <2>2. E[n + 1] = IF EndsStatement(s, n + 1) THEN Append(E[n], n + 1) ELSE E[n]
    BY <1>1, <2>1
  <2>3. PICK e : e = E[n]
    OBVIOUS
  <2>4. Good(e, n)
    BY <1>4, <2>3
  <2>5. Good(e, n + 1)
    BY <2>1, <2>4
  <2>6. ASSUME EndsStatement(s, n + 1) PROVE Good(Append(e, n + 1), n + 1)
    <3>1. s[n + 1] = Newline
      BY <2>6 DEF EndsStatement
    <3>2. /\ Append(e, n + 1) \in Seq(Nat) /\ Len(Append(e, n + 1)) = Len(e) + 1
          /\ \A k \in 1 .. Len(e) : Append(e, n + 1)[k] = e[k]
          /\ Append(e, n + 1)[Len(e) + 1] = n + 1
      BY <2>1, <2>4
    <3>3. ASSUME NEW k \in 1 .. Len(e) + 1
          PROVE  /\ Append(e, n + 1)[k] \in 0 .. n + 1
                 /\ Append(e, n + 1)[k] = 0 \/ s[Append(e, n + 1)[k]] = Newline
      <4>1. CASE k = Len(e) + 1
        BY <2>1, <3>1, <3>2, <4>1
      <4>2. CASE k # Len(e) + 1
        <5>1. k \in 1 .. Len(e)
          BY <2>4, <4>2
        <5>2. Append(e, n + 1)[k] = e[k]
          BY <3>2, <5>1
        <5> QED
          BY <2>5, <5>1, <5>2
      <4> QED
        BY <4>1, <4>2
    <3> QED
      BY <2>4, <3>2, <3>3
  <2> HIDE DEF Good
  <2>7. Good(E[n + 1], n + 1)
    BY <2>2, <2>3, <2>5, <2>6
  <2> QED
    BY <2>1, <2>7
<1>5. 0 .. N \subseteq T
  <2> HIDE DEF T
  <2> QED
    BY <1>2, <1>3, <1>4, IntervalInductionSet
<1> QED
  BY <1>5 DEF N, E

(* Those of the first characters are the first of all. *)
LEMMA EndsAreKept ==
  ASSUME NEW s, Len(s) \in Nat, NEW n \in 0 .. Len(s)
  PROVE  /\ Len(EndsUpto(s)[n]) <= Len(StatementEnds(s))
         /\ \A k \in 1 .. Len(EndsUpto(s)[n]) : EndsUpto(s)[n][k] = StatementEnds(s)[k]
<1> DEFINE N == Len(s)
           E == EndsUpto(s)
           T == {d \in 0 .. N - n :
                   /\ Len(E[n]) <= Len(E[n + d])
                   /\ \A k \in 1 .. Len(E[n]) : E[n][k] = E[n + d][k]}
<1>1. \A m \in 1 .. N : E[m] = IF EndsStatement(s, m) THEN Append(E[m - 1], m) ELSE E[m - 1]
  BY EndsUnfold
<1>2. \A m \in 0 .. N : E[m] \in Seq(Nat)
  BY EndsUnfold
<1>3. N \in Nat /\ n \in 0 .. N
  OBVIOUS
<1> HIDE DEF N, E
<1>4. 0 \in T
  <2>1. Len(E[n]) \in Nat /\ n + 0 = n
    BY <1>2, <1>3
  <2> QED
    BY <1>3, <2>1
<1>5. ASSUME NEW d \in 0 .. (N - n) - 1, d \in T PROVE d + 1 \in T
  <2>1. /\ n + d \in 0 .. N /\ n + (d + 1) \in 1 .. N /\ (n + (d + 1)) - 1 = n + d
        /\ d + 1 \in 0 .. N - n
    BY <1>3
  <2>2. E[n + (d + 1)] = IF EndsStatement(s, n + (d + 1)) THEN Append(E[n + d], n + (d + 1)) ELSE E[n + d]
    BY <1>1, <2>1
  <2>3. PICK e \in Seq(Nat) : e = E[n + d]
    BY <1>2, <2>1
  <2>4. PICK b \in Seq(Nat) : b = E[n]
    BY <1>2, <1>3
  <2>5. Len(b) <= Len(e) /\ \A k \in 1 .. Len(b) : b[k] = e[k]
    BY <1>5, <2>3, <2>4
  <2>6. PICK m \in Nat : m = n + (d + 1)
    BY <2>1
  <2>7. /\ Len(Append(e, m)) = Len(e) + 1
        /\ \A k \in 1 .. Len(e) : Append(e, m)[k] = e[k]
    OBVIOUS
  <2>8. /\ Len(b) <= Len(Append(e, m))
        /\ \A k \in 1 .. Len(b) : b[k] = Append(e, m)[k]
    BY <2>5, <2>7
  <2>9. E[m] = Append(e, m) \/ E[m] = e
    BY <2>2, <2>3, <2>6
  <2>10. Len(E[n]) <= Len(E[m]) /\ \A k \in 1 .. Len(E[n]) : E[n][k] = E[m][k]
    BY <2>4, <2>5, <2>8, <2>9
  <2> QED
    BY <2>1, <2>6, <2>10
<1>6. N - n \in T
  <2> HIDE DEF T
  <2>1. N - n \in Nat
    BY <1>3
  <2>2. 0 .. N - n \subseteq T
    BY <1>4, <1>5, <2>1, IntervalInductionSet
  <2> QED
    BY <2>1, <2>2
<1>7. n + (N - n) = N
  BY <1>3
<1> QED
  BY <1>6, <1>7 DEF StatementEnds, N, E

(* A C string is the part of its buffer before the first NUL or the end. *)
LEMMA CStringTyped ==
  ASSUME NEW S, NEW s \in Seq(S), s # <<>>
  PROVE  CString(s) \in Seq(S)
<1> DEFINE nuls == {k \in DOMAIN s : s[k] = Nul} \cup {Len(s)}
<1>1. nuls \subseteq 1 .. Len(s) /\ nuls # {} /\ nuls \subseteq Nat
  OBVIOUS
<1> HIDE DEF nuls
<1>2. \E k \in nuls : \A j \in nuls : k <= j
  BY <1>1, LeastNatural
<1>3. PICK k \in nuls : CString(s) = SubSeq(s, 1, k - 1)
  <2>1. (CHOOSE k \in nuls : \A j \in nuls : k <= j) \in nuls
    BY <1>2
  <2> QED
    BY <2>1 DEF CString, nuls
<1>4. k \in 1 .. Len(s)
  BY <1>1
<1>5. \A i \in 1 .. k - 1 : s[i] \in S
  BY <1>4
<1> QED
  BY <1>3, <1>4, <1>5

-----------------------------------------------------------------------------
(* The loop of main *)

(* What is known of the input and of where statements end in it. *)
LEMMA InputFacts ==
  ASSUME ReadTypes
  PROVE  /\ typed \in Seq(CharactersOf(typed)) /\ Len(typed) \in Nat
         /\ Len(input) \in Nat /\ Got \in 0 .. Len(typed) /\ Len(typed) = Got + Len(input)
         /\ EndsUpto(typed)[Got] \in Seq(Nat) /\ Len(EndsUpto(typed)[Got]) >= 1
         /\ Start \in 0 .. Got /\ (Start = 0 \/ typed[Start] = Newline)
<1>1. typed \in Seq(CharactersOf(typed)) /\ Len(typed) \in Nat
  BY ReadAssumption DEF ReadTypes
<1>2. Len(input) \in Nat /\ Got \in 0 .. Len(typed) /\ Len(typed) = Got + Len(input)
  BY <1>1 DEF ReadTypes, Got
<1> DEFINE g == Got
           e == EndsUpto(typed)[g]
<1>3. /\ e \in Seq(Nat) /\ Len(e) >= 1
      /\ \A k \in 1 .. Len(e) : e[k] \in 0 .. g /\ (e[k] = 0 \/ typed[e[k]] = Newline)
  BY <1>1, <1>2, EndsAreNewlines
<1> HIDE DEF e
<1>4. Len(e) \in 1 .. Len(e)
  BY <1>3
<1>5. Start = e[Len(e)]
  BY DEF Start, e
<1>6. Start \in 0 .. g /\ (Start = 0 \/ typed[Start] = Newline)
  BY <1>3, <1>4, <1>5
<1> QED
  BY <1>1, <1>2, <1>3, <1>6 DEF e

(* The loop starts at the first character. *)
LEMMA ReadInitKeeps == ReadInit => ReadInv
<1> SUFFICES ASSUME ReadInit PROVE ReadInv
  OBVIOUS
<1>1. /\ typed \in Inputs /\ input = typed /\ sql = <<>> /\ semi = FALSE /\ handed = <<>>
      /\ turn = "reading"
  BY DEF ReadInit
<1>2. typed \in Seq(CharactersOf(typed)) /\ Len(typed) \in Nat
  BY <1>1, ReadAssumption
<1>3. ReadTypes
  <2>1. sql \in Seq(CharactersOf(typed) \cup {Eof})
    BY <1>1
  <2>2. handed \in Seq(Seq(CharactersOf(typed) \cup {Eof}))
    BY <1>1
  <2>3. input \in Seq(CharactersOf(typed)) /\ Len(input) <= Len(typed)
    BY <1>1, <1>2
  <2> QED
    BY <1>1, <2>1, <2>2, <2>3 DEF ReadTypes
<1>4. Got = 0
  BY <1>1, <1>2 DEF Got
<1>5. EndsUpto(typed)[Got] = <<0>>
  BY <1>2, <1>4, EndsUnfold
<1>6. Start = 0
  BY <1>5 DEF Start
<1>7. HandedSoFar
  BY <1>1, <1>2, <1>4, <1>5 DEF HandedSoFar
<1>8. Buffered /\ SemicolonSeen
  BY <1>1, <1>4, <1>6 DEF Buffered, SemicolonSeen
<1> QED
  BY <1>1, <1>3, <1>7, <1>8 DEF ReadInv

(* A newline ends a statement iff the loop has seen a semicolon. *)
LEMMA NewlineEnds ==
  ASSUME ReadInv, turn = "reading", input # <<>>
  PROVE  EndsStatement(typed, Got + 1) <=> (typed[Got + 1] = Newline /\ semi)
<1>1. ReadTypes /\ SemicolonSeen
  BY DEF ReadInv
<1>2. /\ Got \in Nat /\ Start \in 0 .. Got /\ (Start = 0 \/ typed[Start] = Newline)
  BY <1>1, InputFacts
<1> DEFINE g == Got
           b == Start
<1>3. /\ semi <=> \E k \in b + 1 .. g : typed[k] = Semicolon
      /\ semi => \E k \in b + 1 .. g :
                   typed[k] = Semicolon /\ \A j \in k + 1 .. g : typed[j] # Newline
  BY <1>1 DEF SemicolonSeen
<1>4. g \in Nat /\ b \in 0 .. g /\ (b = 0 \/ typed[b] = Newline)
  BY <1>2
<1> HIDE DEF g, b
<1>5. (g + 1) - 1 = g
  BY <1>4
<1>6. ASSUME NEW k \in 1 .. g, typed[k] = Semicolon, \A j \in k + 1 .. g : typed[j] # Newline
      PROVE  semi
  <2>1. ~ (k < b)
    <3>1. k < b => b \in k + 1 .. g /\ b # 0
      BY <1>4
    <3> QED
      BY <1>4, <1>6, <3>1
  <2>2. k # b
    BY <1>4, <1>6, ReadAssumption
  <2>3. k \in b + 1 .. g
    BY <1>4, <2>1, <2>2
  <2> QED
    BY <1>3, <1>6, <2>3
<1>7. ASSUME semi
      PROVE  \E k \in 1 .. g : typed[k] = Semicolon /\ \A j \in k + 1 .. g : typed[j] # Newline
  <2>1. PICK k \in b + 1 .. g : typed[k] = Semicolon /\ \A j \in k + 1 .. g : typed[j] # Newline
    BY <1>3, <1>7
  <2>2. k \in 1 .. g
    BY <1>4
  <2> QED
    BY <2>1, <2>2
<1>8. EndsStatement(typed, g + 1) <=>
        /\ typed[g + 1] = Newline
        /\ \E k \in 1 .. g : typed[k] = Semicolon /\ \A j \in k + 1 .. g : typed[j] # Newline
  BY <1>5 DEF EndsStatement
<1> QED
  BY <1>6, <1>7, <1>8 DEF g

(* Behind the end of the input the buffer gets an EOF. *)
LEMMA EofKeeps ==
  ASSUME ReadInv, ReadChar, input = <<>>
  PROVE  ReadInv'
<1>1. ReadTypes /\ HandedSoFar /\ Buffered /\ SemicolonSeen
  BY DEF ReadInv
<1>2. turn = "reading" /\ semi \in BOOLEAN
  BY <1>1 DEF ReadChar, ReadTypes
<1>3. /\ semi' = semi /\ turn' = turn /\ handed' = handed /\ sql' = Append(sql, Eof)
      /\ input' = input /\ typed' = typed
  BY <1>2, ReadAssumption DEF ReadChar, SemiAfter
<1>4. Got' = Got /\ Start' = Start
  BY <1>3 DEF Got, Start
<1>5. Got \in Nat /\ Start \in 0 .. Got
  BY <1>1, InputFacts
<1> DEFINE S == CharactersOf(typed) \cup {Eof}
           n == Len(sql)
<1>6. sql \in Seq(S) /\ Eof \in S
  BY <1>1 DEF ReadTypes
<1> HIDE DEF S
<1>7. /\ sql' \in Seq(S) /\ Len(sql') = n + 1 /\ n \in Nat /\ sql'[n + 1] = Eof
      /\ \A k \in 1 .. n : sql'[k] = sql[k]
  BY <1>3, <1>6
<1>8. ReadTypes'
  BY <1>1, <1>3, <1>7 DEF ReadTypes, S
<1>9. HandedSoFar'
  BY <1>1, <1>3, <1>4 DEF HandedSoFar
<1> DEFINE g == Got
           b == Start
<1>10. /\ g - b <= n /\ (\A k \in 1 .. g - b : sql[k] = typed[b + k])
       /\ \A k \in g - b + 1 .. n : sql[k] = Eof
  BY <1>1, <1>2 DEF Buffered
<1>11. g \in Nat /\ b \in 0 .. g
  BY <1>5
<1> HIDE DEF n, g, b
<1>12. /\ g - b <= n + 1 /\ (\A k \in 1 .. g - b : sql'[k] = typed[b + k])
       /\ \A k \in g - b + 1 .. n + 1 : sql'[k] = Eof
  <2>1. ASSUME NEW k \in g - b + 1 .. n + 1 PROVE sql'[k] = Eof
    <3>1. k = n + 1 \/ (k \in g - b + 1 .. n /\ k \in 1 .. n)
      BY <1>7, <1>11
    <3> QED
      BY <1>7, <1>10, <3>1
  <2>2. ASSUME NEW k \in 1 .. g - b PROVE sql'[k] = typed[b + k]
    <3>1. k \in 1 .. n
      BY <1>7, <1>10, <1>11
    <3> QED
      BY <1>7, <1>10, <3>1
  <2> QED
    BY <1>7, <1>10, <1>11, <2>1, <2>2
<1>13. Buffered'
  BY <1>3, <1>4, <1>7, <1>12 DEF Buffered, g, b, n
<1>14. SemicolonSeen'
  BY <1>1, <1>3, <1>4 DEF SemicolonSeen
<1> QED
  BY <1>2, <1>3, <1>8, <1>9, <1>13, <1>14 DEF ReadInv

(* A character goes from the input to the buffer. *)
LEMMA CharacterMoves ==
  ASSUME ReadInv, ReadChar, input # <<>>
  PROVE  /\ turn = "reading" /\ typed' = typed /\ Got' = Got + 1 /\ Got + 1 \in 1 .. Len(typed)
         /\ sql' = Append(sql, typed[Got + 1]) /\ semi' = (semi \/ typed[Got + 1] = Semicolon)
         /\ Len(sql) = Got - Start /\ typed[Got + 1] \in CharactersOf(typed)
         /\ input' \in Seq(CharactersOf(typed)) /\ Len(input') = Len(input) - 1
         /\ \A k \in 1 .. Len(input') : input'[k] = typed[Got' + k]
<1>1. ReadTypes /\ HandedSoFar /\ Buffered
  BY DEF ReadInv
<1>2. turn = "reading" /\ typed' = typed /\ input' = Tail(input)
      /\ sql' = Append(sql, Head(input)) /\ semi' = (semi \/ Head(input) = Semicolon)
  BY DEF ReadChar, SemiAfter
<1> DEFINE S == CharactersOf(typed)
<1>3. input \in Seq(S) /\ Len(input) \in Nat \ {0}
  BY <1>1 DEF ReadTypes
<1>4. /\ Got \in Nat /\ Start \in 0 .. Got /\ Len(typed) \in Nat /\ Len(typed) = Got + Len(input)
  BY <1>1, InputFacts
<1> HIDE DEF S
<1>5. /\ input' \in Seq(S) /\ Len(input') = Len(input) - 1 /\ Head(input) = input[1]
      /\ \A k \in 1 .. Len(input) - 1 : input'[k] = input[k + 1]
      /\ input[1] \in S
  BY <1>2, <1>3
<1>6. Got' = Got + 1
  BY <1>2, <1>3, <1>4, <1>5 DEF Got
<1>7. \A k \in 1 .. Len(input) : input[k] = typed[Got + k]
  BY <1>1 DEF HandedSoFar
<1>8. input[1] = typed[Got + 1]
  BY <1>3, <1>7
<1>9. Len(sql) = Got - Start
  <2>1. Got - Start <= Len(sql) /\ ~ (Len(sql) > Got - Start)
    BY <1>1, <1>2 DEF Buffered
  <2>2. Len(sql) \in Nat
    BY <1>1 DEF ReadTypes
  <2> QED
    BY <1>4, <2>1, <2>2
<1>10. ASSUME NEW k \in 1 .. Len(input') PROVE input'[k] = typed[Got' + k]
  <2> DEFINE g == Got
  <2>1. k \in 1 .. Len(input) - 1 /\ k + 1 \in 1 .. Len(input) /\ g + (k + 1) = (g + 1) + k
    BY <1>3, <1>4, <1>5
  <2>2. input'[k] = typed[g + (k + 1)]
    BY <1>5, <1>7, <2>1
  <2> QED
    BY <1>6, <2>1, <2>2
<1>11. Got + 1 \in 1 .. Len(typed)
  BY <1>3, <1>4
<1> QED
  BY <1>2, <1>5, <1>6, <1>8, <1>9, <1>10, <1>11 DEF S

(* The newline that ends a statement: what is handed over is the statement. *)
LEMMA StatementKeeps ==
  ASSUME ReadInv, ReadChar, input # <<>>, semi', typed[Got + 1] = Newline
  PROVE  ReadInv'
<1>1. ReadTypes /\ HandedSoFar /\ Buffered
  BY DEF ReadInv
<1>2. /\ turn = "reading" /\ typed' = typed /\ Got' = Got + 1 /\ Got + 1 \in 1 .. Len(typed)
      /\ sql' = Append(sql, typed[Got + 1]) /\ semi' = (semi \/ typed[Got + 1] = Semicolon)
      /\ Len(sql) = Got - Start /\ typed[Got + 1] \in CharactersOf(typed)
      /\ input' \in Seq(CharactersOf(typed)) /\ Len(input') = Len(input) - 1
      /\ \A k \in 1 .. Len(input') : input'[k] = typed[Got' + k]
  BY CharacterMoves
<1>3. /\ typed \in Seq(CharactersOf(typed)) /\ Len(typed) \in Nat /\ Len(input) \in Nat
      /\ Got \in 0 .. Len(typed) /\ Len(input) <= Len(typed)
      /\ EndsUpto(typed)[Got] \in Seq(Nat) /\ Len(EndsUpto(typed)[Got]) >= 1
      /\ Start \in 0 .. Got
  BY <1>1, InputFacts DEF ReadTypes
<1>4. Head(input) = typed[Got + 1]
  <2>1. input \in Seq(CharactersOf(typed)) /\ 1 \in 1 .. Len(input)
    BY <1>1 DEF ReadTypes
  <2> QED
    BY <1>1, <2>1 DEF HandedSoFar
<1>5. turn' = "running" /\ handed' = Append(handed, CString(sql'))
  BY <1>2, <1>4 DEF ReadChar, SemiAfter
<1>6. semi
  BY <1>2, ReadAssumption
<1>7. EndsStatement(typed, Got + 1)
  BY <1>2, <1>6, NewlineEnds
<1> DEFINE g == Got
           b == Start
           e == EndsUpto(typed)[g]
           f == EndsUpto(typed)[g + 1]
           all == StatementEnds(typed)
           S == CharactersOf(typed) \cup {Eof}
<1>8. f = Append(e, g + 1)
  <2>1. g + 1 \in 1 .. Len(typed) /\ (g + 1) - 1 = g
    BY <1>2, <1>3
  <2> QED
    BY <1>3, <1>7, <2>1, EndsUnfold
<1>9. e \in Seq(Nat) /\ Len(e) >= 1 /\ b = e[Len(e)]
  BY <1>3 DEF Start
<1>10. g \in Nat /\ b \in 0 .. g
  BY <1>3
<1>11. /\ Len(f) <= Len(all)
       /\ \A k \in 1 .. Len(f) : f[k] = all[k]
  <2>1. g + 1 \in 0 .. Len(typed)
    BY <1>2
  <2> QED
    BY <1>3, <2>1, EndsAreKept
<1>12. sql' = SubSeq(typed, b + 1, g + 1)
  <2>1. sql \in Seq(S) /\ typed[g + 1] \in S
    BY <1>1, <1>2 DEF ReadTypes
  <2>2. \A k \in 1 .. g - b : sql[k] = typed[b + k]
    BY <1>1, <1>2 DEF Buffered
  <2>3. sql' = Append(sql, typed[g + 1]) /\ Len(sql) = g - b
    BY <1>2
  <2>4. typed \in Seq(S) /\ g + 1 <= Len(typed)
    BY <1>2, <1>3
  <2> HIDE DEF g, b, S, e, f, all
  <2>5. sql' \in Seq(S) /\ Len(sql') = (g + 1) - b /\ sql'[(g + 1) - b] = typed[g + 1]
        /\ \A k \in 1 .. g - b : sql'[k] = sql[k]
    BY <1>10, <2>1, <2>3
  <2>6. /\ SubSeq(typed, b + 1, g + 1) \in Seq(S) /\ Len(SubSeq(typed, b + 1, g + 1)) = (g + 1) - b
        /\ \A k \in 1 .. (g + 1) - b : SubSeq(typed, b + 1, g + 1)[k] = typed[b + k]
    <3>1. \A k \in b + 1 .. g + 1 : typed[k] \in S
      BY <1>10, <2>4
    <3>2. b + 1 \in Int /\ g + 1 \in Int /\ b + 1 <= g + 1 /\ (g + 1) - (b + 1) + 1 = (g + 1) - b
      BY <1>10
    <3>3. /\ SubSeq(typed, b + 1, g + 1) \in Seq(S)
          /\ Len(SubSeq(typed, b + 1, g + 1)) = (g + 1) - (b + 1) + 1
          /\ \A k \in 1 .. (g + 1) - (b + 1) + 1 :
               SubSeq(typed, b + 1, g + 1)[k] = typed[(b + 1) + k - 1]
      BY <3>1, <3>2, SubSeqProperties
    <3>4. \A k \in 1 .. (g + 1) - b : (b + 1) + k - 1 = b + k
      BY <1>10
    <3> QED
      BY <3>2, <3>3, <3>4
  <2>7. ASSUME NEW k \in 1 .. (g + 1) - b PROVE sql'[k] = typed[b + k]
    <3>1. CASE k = (g + 1) - b
      <4>1. b + k = g + 1
        BY <1>10, <3>1
      <4> QED
        BY <2>5, <3>1, <4>1
    <3>2. CASE k # (g + 1) - b
      <4>1. k \in 1 .. g - b
        BY <1>10, <3>2
      <4> QED
        BY <2>2, <2>5, <4>1
    <3> QED
      BY <3>1, <3>2
  <2> DEFINE x == sql'
             y == SubSeq(typed, b + 1, g + 1)
  <2>8. x \in Seq(S) /\ y \in Seq(S) /\ Len(x) = Len(y) /\ \A k \in 1 .. Len(x) : x[k] = y[k]
    BY <2>5, <2>6, <2>7
  <2> HIDE DEF x, y
  <2>9. x = y
    BY <2>8
  <2> QED
    BY <2>9 DEF x, y
<1>13. sql' \in Seq(S) /\ sql' # <<>>
  <2>1. sql \in Seq(S) /\ typed[g + 1] \in S
    BY <1>1, <1>2 DEF ReadTypes
  <2> QED
    BY <1>2, <2>1
<1>14. CString(sql') \in Seq(S)
  <2>1. \A s \in Seq(S) : s # <<>> => CString(s) \in Seq(S)
    BY CStringTyped
  <2>2. PICK s : s = sql'
    OBVIOUS
  <2>3. CString(s) \in Seq(S)
    BY <1>13, <2>1, <2>2
  <2> QED
    BY <2>2, <2>3
<1>15. handed \in Seq(Seq(S)) /\ Len(handed) = Len(e) - 1
       /\ \A k \in 1 .. Len(handed) : handed[k] = StatementsIn(typed)[k]
  BY <1>1 DEF ReadTypes, HandedSoFar
<1>16. StatementsIn(typed)[Len(e)] = CString(sql')
  <2>1. Len(e) \in 1 .. Len(all) - 1 /\ Len(f) = Len(e) + 1 /\ f[Len(e)] = b /\ f[Len(e) + 1] = g + 1
    <3> HIDE DEF e, f, all, b
    <3>1. Len(f) = Len(e) + 1 /\ f[Len(e)] = b /\ f[Len(e) + 1] = g + 1
      BY <1>8, <1>9, <1>10
    <3>2. Len(all) \in Nat
      <4>1. Len(typed) \in 0 .. Len(typed)
        BY <1>3
      <4>2. all \in Seq(Nat)
        BY <1>3, <4>1, EndsUnfold DEF StatementEnds, all
      <4> QED
        BY <4>2
    <3> QED
      BY <1>9, <1>11, <3>1, <3>2
  <2>2. all[Len(e)] = b /\ all[Len(e) + 1] = g + 1
    <3>1. Len(e) \in 1 .. Len(f) /\ Len(e) + 1 \in 1 .. Len(f)
      BY <1>9, <2>1
    <3> QED
      BY <1>11, <2>1, <3>1
  <2>3. StatementsIn(typed)[Len(e)] = CString(SubSeq(typed, all[Len(e)] + 1, all[Len(e) + 1]))
    BY <2>1 DEF StatementsIn
  <2> QED
    BY <1>12, <2>2, <2>3
<1>17. /\ handed' \in Seq(Seq(S)) /\ Len(handed') = Len(e)
       /\ \A k \in 1 .. Len(e) : handed'[k] = StatementsIn(typed)[k]
  <2> DEFINE x == CString(sql')
  <2> HIDE DEF x, e, S
  <2>1. handed' = Append(handed, x) /\ x \in Seq(S) /\ StatementsIn(typed)[Len(e)] = x
    BY <1>5, <1>14, <1>16 DEF x
  <2>2. /\ handed' \in Seq(Seq(S)) /\ Len(handed') = Len(e) /\ handed'[Len(e)] = x
        /\ \A k \in 1 .. Len(e) - 1 : handed'[k] = handed[k]
    BY <1>9, <1>15, <2>1
  <2>3. ASSUME NEW k \in 1 .. Len(e) PROVE handed'[k] = StatementsIn(typed)[k]
    <3>1. k = Len(e) \/ k \in 1 .. Len(e) - 1
      BY <1>9
    <3> QED
      BY <1>15, <2>1, <2>2, <3>1
  <2> QED
    BY <2>2, <2>3
<1>18. EndsUpto(typed)'[Got'] = f
  BY <1>2
<1>19. Len(f) = Len(e) + 1 /\ f[Len(f)] = g + 1
  <2> HIDE DEF e, f
  <2> QED
    BY <1>8, <1>9, <1>10
<1>20. Start' = Got'
  BY <1>2, <1>18, <1>19 DEF Start
<1>21. ReadTypes'
  BY <1>1, <1>2, <1>3, <1>5, <1>6, <1>13, <1>17 DEF ReadTypes
<1>22. HandedSoFar'
  <2>1. StatementsIn(typed)' = StatementsIn(typed)
    BY <1>2
  <2>2. Len(handed') = Len(f) - 1
    BY <1>9, <1>17, <1>19
  <2>3. \A k \in 1 .. Len(handed') : handed'[k] = StatementsIn(typed)'[k]
    BY <1>17, <2>1
  <2> QED
    BY <1>2, <1>18, <2>2, <2>3 DEF HandedSoFar
<1>23. Buffered' /\ SemicolonSeen'
  BY <1>5 DEF Buffered, SemicolonSeen
<1> QED
  BY <1>20, <1>21, <1>22, <1>23 DEF ReadInv

(* Any other character: the statement goes on. *)
LEMMA OtherKeeps ==
  ASSUME ReadInv, ReadChar, input # <<>>, ~ (semi' /\ typed[Got + 1] = Newline)
  PROVE  ReadInv'
<1>1. ReadTypes /\ HandedSoFar /\ Buffered /\ SemicolonSeen
  BY DEF ReadInv
<1>2. /\ turn = "reading" /\ typed' = typed /\ Got' = Got + 1 /\ Got + 1 \in 1 .. Len(typed)
      /\ sql' = Append(sql, typed[Got + 1]) /\ semi' = (semi \/ typed[Got + 1] = Semicolon)
      /\ Len(sql) = Got - Start /\ typed[Got + 1] \in CharactersOf(typed)
      /\ input' \in Seq(CharactersOf(typed)) /\ Len(input') = Len(input) - 1
      /\ \A k \in 1 .. Len(input') : input'[k] = typed[Got' + k]
  BY CharacterMoves
<1>3. /\ Len(typed) \in Nat /\ Len(input) \in Nat /\ Got \in 0 .. Len(typed)
      /\ Len(input) <= Len(typed) /\ Start \in 0 .. Got
  BY <1>1, InputFacts DEF ReadTypes
<1>4. Head(input) = typed[Got + 1]
  <2>1. input \in Seq(CharactersOf(typed)) /\ 1 \in 1 .. Len(input)
    BY <1>1 DEF ReadTypes
  <2> QED
    BY <1>1, <2>1 DEF HandedSoFar
<1>5. turn' = turn /\ handed' = handed
  BY <1>2, <1>4 DEF ReadChar, SemiAfter
<1>6. ~ EndsStatement(typed, Got + 1)
  BY <1>2, NewlineEnds
<1> DEFINE g == Got
           b == Start
           S == CharactersOf(typed) \cup {Eof}
<1>7. EndsUpto(typed)[g + 1] = EndsUpto(typed)[g]
  <2>1. g + 1 \in 1 .. Len(typed) /\ (g + 1) - 1 = g
    BY <1>2, <1>3
  <2> QED
    BY <1>3, <1>6, <2>1, EndsUnfold
<1>8. EndsUpto(typed)'[Got'] = EndsUpto(typed)[Got]
  BY <1>2, <1>7
<1>9. Start' = Start
  BY <1>8 DEF Start
<1>10. sql' \in Seq(S) /\ Len(sql') = (g + 1) - b /\ sql'[(g + 1) - b] = typed[g + 1]
       /\ \A k \in 1 .. g - b : sql'[k] = sql[k]
  <2>1. sql \in Seq(S) /\ typed[g + 1] \in S
    BY <1>1, <1>2 DEF ReadTypes
  <2>2. sql' = Append(sql, typed[g + 1]) /\ Len(sql) = g - b
    BY <1>2
  <2>3. g \in Nat /\ b \in 0 .. g
    BY <1>3
  <2> HIDE DEF g, b, S
  <2> QED
    BY <2>1, <2>2, <2>3
<1>11. ReadTypes'
  <2>1. semi' \in BOOLEAN
    BY <1>2
  <2>2. Len(input') <= Len(typed)
    BY <1>2, <1>3
  <2> QED
    BY <1>1, <1>2, <1>5, <1>10, <2>1, <2>2 DEF ReadTypes
<1>12. HandedSoFar'
  BY <1>1, <1>2, <1>5, <1>8 DEF HandedSoFar
<1>13. Buffered'
  <2>1. ASSUME NEW k \in 1 .. (g + 1) - b PROVE sql'[k] = typed[b + k]
    <3>1. g \in Nat /\ b \in 0 .. g
      BY <1>3
    <3>2. \A i \in 1 .. g - b : sql[i] = typed[b + i]
      BY <1>1, <1>2 DEF Buffered
    <3> HIDE DEF g, b
    <3>3. CASE k = (g + 1) - b
      <4>1. b + k = g + 1
        BY <3>1, <3>3
      <4> QED
        BY <1>10, <3>3, <4>1
    <3>4. CASE k # (g + 1) - b
      <4>1. k \in 1 .. g - b
        BY <3>1, <3>4
      <4> QED
        BY <1>10, <3>2, <4>1
    <3> QED
      BY <3>3, <3>4
  <2>2. \A k \in 1 .. Got' - Start' : sql'[k] = typed'[Start' + k]
    BY <1>2, <1>9, <2>1
  <2>3. Len(sql') = Got' - Start' /\ Len(sql') \in Nat
    BY <1>2, <1>3, <1>9, <1>10
  <2>4. \A k \in Got' - Start' + 1 .. Len(sql') : sql'[k] = Eof
    BY <2>3
  <2> QED
    BY <2>2, <2>3, <2>4 DEF Buffered
<1>14. SemicolonSeen'
  <2>1. /\ semi <=> \E k \in b + 1 .. g : typed[k] = Semicolon
        /\ semi => \E k \in b + 1 .. g :
                     typed[k] = Semicolon /\ \A j \in k + 1 .. g : typed[j] # Newline
    BY <1>1, <1>2 DEF SemicolonSeen
  <2>2. g \in Nat /\ b \in 0 .. g /\ g + 1 \in b + 1 .. g + 1
    BY <1>3
  <2>3. semi' <=> (semi \/ typed[g + 1] = Semicolon)
    BY <1>2
  <2>4. ~ (semi' /\ typed[g + 1] = Newline)
    OBVIOUS
  <2> HIDE DEF g, b
  <2>5. \A k : k \in b + 1 .. g + 1 <=> (k \in b + 1 .. g \/ k = g + 1)
    BY <2>2
  <2>6. semi' <=> \E k \in b + 1 .. g + 1 : typed[k] = Semicolon
    BY <2>1, <2>3, <2>5
  <2>7. ASSUME semi'
        PROVE  \E k \in b + 1 .. g + 1 :
                 typed[k] = Semicolon /\ \A j \in k + 1 .. g + 1 : typed[j] # Newline
    <3>1. CASE semi
      <4>1. PICK k \in b + 1 .. g : typed[k] = Semicolon /\ \A j \in k + 1 .. g : typed[j] # Newline
        BY <2>1, <3>1
      <4>2. \A j \in k + 1 .. g + 1 : j \in k + 1 .. g \/ j = g + 1
        BY <2>2
      <4>3. typed[g + 1] # Newline
        BY <2>4, <2>7
      <4> QED
        BY <2>5, <4>1, <4>2, <4>3
    <3>2. CASE ~ semi
      <4>1. typed[g + 1] = Semicolon
        BY <2>3, <2>7, <3>2
      <4>2. (g + 1) + 1 .. g + 1 = {}
        BY <2>2
      <4> QED
        BY <2>2, <4>1, <4>2
    <3> QED
      BY <3>1, <3>2
  <2> QED
    BY <1>2, <1>9, <2>6, <2>7 DEF SemicolonSeen, g, b
<1> QED
  BY <1>2, <1>5, <1>11, <1>12, <1>13, <1>14 DEF ReadInv

(* Every step keeps the invariant: a turn starts where the last one ended. *)
LEMMA ReadStepKeeps == ReadInv /\ [ReadNext]_readVars => ReadInv'
<1> SUFFICES ASSUME ReadInv, [ReadNext]_readVars PROVE ReadInv'
  OBVIOUS
<1>1. ReadTypes /\ HandedSoFar /\ Buffered /\ SemicolonSeen /\ (turn = "running" => Start = Got)
  BY DEF ReadInv
<1>2. CASE ReadChar
  <2>1. CASE input = <<>>
    BY <1>2, <2>1, EofKeeps
  <2>2. CASE input # <<>> /\ semi' /\ typed[Got + 1] = Newline
    BY <1>2, <2>2, StatementKeeps
  <2>3. CASE input # <<>> /\ ~ (semi' /\ typed[Got + 1] = Newline)
    BY <1>2, <2>3, OtherKeeps
  <2> QED
    BY <2>1, <2>2, <2>3
<1>3. CASE NextTurn
  <2>1. /\ turn = "running" /\ turn' = "reading" /\ sql' = <<>> /\ semi' = FALSE
        /\ typed' = typed /\ input' = input /\ handed' = handed
    BY <1>3 DEF NextTurn
  <2>2. Got' = Got /\ Start' = Start /\ Start = Got /\ Got \in Nat
    BY <1>1, <2>1, InputFacts DEF Got, Start
  <2>3. ReadTypes'
    <3>1. sql' \in Seq(CharactersOf(typed) \cup {Eof})
      BY <2>1
    <3> QED
      BY <1>1, <2>1, <3>1 DEF ReadTypes
  <2>4. HandedSoFar'
    BY <1>1, <2>1, <2>2 DEF HandedSoFar
  <2>5. Got' - Start' = 0 /\ Start' + 1 .. Got' = {} /\ Len(sql') = 0
    BY <2>1, <2>2
  <2>6. Buffered' /\ SemicolonSeen'
    BY <2>1, <2>2, <2>5 DEF Buffered, SemicolonSeen
  <2> QED
    BY <2>1, <2>3, <2>4, <2>6 DEF ReadInv
<1>4. CASE ExitTurn
  <2>1. /\ turn' = "exited" /\ sql' = sql /\ semi' = semi
        /\ typed' = typed /\ input' = input /\ handed' = handed
    BY <1>4 DEF ExitTurn
  <2>2. Got' = Got
    BY <2>1 DEF Got
  <2>3. ReadTypes' /\ HandedSoFar' /\ Buffered' /\ SemicolonSeen'
    BY <1>1, <2>1, <2>2 DEF ReadTypes, HandedSoFar, Buffered, SemicolonSeen
  <2> QED
    BY <2>1, <2>3 DEF ReadInv
<1>5. CASE UNCHANGED readVars
  <2>1. /\ turn' = turn /\ sql' = sql /\ semi' = semi
        /\ typed' = typed /\ input' = input /\ handed' = handed
    BY <1>5 DEF readVars
  <2>2. Got' = Got /\ Start' = Start
    BY <2>1 DEF Got, Start
  <2>3. ReadTypes' /\ HandedSoFar' /\ Buffered' /\ SemicolonSeen'
    BY <1>1, <2>1, <2>2 DEF ReadTypes, HandedSoFar, Buffered, SemicolonSeen
  <2> QED
    BY <1>1, <2>1, <2>2, <2>3 DEF ReadInv
<1> QED
  BY <1>2, <1>3, <1>4, <1>5 DEF ReadNext

(* The invariant holds throughout, whatever is typed. *)
THEOREM ReadInvariance == ReadSpec => []ReadInv
<1>1. ReadInit => ReadInv
  BY ReadInitKeeps
<1>2. ReadInv /\ [ReadNext]_readVars => ReadInv'
  BY ReadStepKeeps
<1> QED
  BY <1>1, <1>2, PTL DEF ReadSpec

(* A part of a sequence. *)
LEMMA Cut ==
  ASSUME NEW S, NEW s \in Seq(S), NEW a \in Nat, NEW b \in Nat, a <= b, b <= Len(s)
  PROVE  /\ SubSeq(s, a + 1, b) \in Seq(S) /\ Len(SubSeq(s, a + 1, b)) = b - a
         /\ \A k \in 1 .. b - a : SubSeq(s, a + 1, b)[k] = s[a + k]
<1> DEFINE y == SubSeq(s, a + 1, b)
<1>1. \A k \in a + 1 .. b : s[k] \in S
  OBVIOUS
<1>2. a + 1 \in Int /\ b \in Int
  OBVIOUS
<1>3. /\ y \in Seq(S)
      /\ Len(y) = IF a + 1 <= b THEN b - (a + 1) + 1 ELSE 0
      /\ \A k \in 1 .. b - (a + 1) + 1 : y[k] = s[(a + 1) + k - 1]
  BY <1>1, <1>2, SubSeqProperties
<1> HIDE DEF y
<1>4. b - (a + 1) + 1 = b - a /\ (IF a + 1 <= b THEN b - (a + 1) + 1 ELSE 0) = b - a
  OBVIOUS
<1>5. \A k \in 1 .. b - a : (a + 1) + k - 1 = a + k
  OBVIOUS
<1>6. Len(y) = b - a
  BY <1>3, <1>4
<1>7. \A k \in 1 .. b - a : y[k] = s[a + k]
  BY <1>3, <1>4, <1>5
<1> QED
  BY <1>3, <1>6, <1>7 DEF y

(* A sequence that is a part of another, and c from there on. *)
LEMMA CutAndFill ==
  ASSUME NEW S, NEW s \in Seq(S), NEW t \in Seq(S), NEW c \in S, NEW a \in Nat, NEW b \in Nat,
         a <= b, b <= Len(t), b - a <= Len(s),
         \A k \in 1 .. b - a : s[k] = t[a + k],
         \A k \in b - a + 1 .. Len(s) : s[k] = c
  PROVE  s = SubSeq(t, a + 1, b) \o [k \in 1 .. Len(s) - (b - a) |-> c]
<1> DEFINE y == SubSeq(t, a + 1, b)
<1>1. y \in Seq(S) /\ Len(y) = b - a /\ \A k \in 1 .. b - a : y[k] = t[a + k]
  BY Cut
<1> HIDE DEF y
<1>2. PICK d \in Nat : d = b - a
  OBVIOUS
<1>3. PICK m \in Nat : m = Len(s) - d
  BY <1>2
<1> DEFINE z == [k \in 1 .. m |-> c]
<1>4. z \in Seq(S) /\ Len(z) = m /\ \A k \in 1 .. m : z[k] = c
  OBVIOUS
<1> HIDE DEF z
<1>5. /\ y \o z \in Seq(S) /\ Len(y \o z) = d + m
      /\ \A k \in 1 .. d + m : (y \o z)[k] = IF k <= d THEN y[k] ELSE z[k - d]
  <2>1. Len(y) = d /\ Len(z) = m
    BY <1>1, <1>2, <1>4
  <2>2. /\ y \o z \in Seq(S) /\ Len(y \o z) = Len(y) + Len(z)
        /\ \A k \in 1 .. Len(y) + Len(z) :
             (y \o z)[k] = IF k <= Len(y) THEN y[k] ELSE z[k - Len(y)]
    BY <1>1, <1>4, ConcatProperties
  <2> DEFINE x == y \o z
  <2>3. /\ x \in Seq(S) /\ Len(x) = Len(y) + Len(z)
        /\ \A k \in 1 .. Len(y) + Len(z) : x[k] = IF k <= Len(y) THEN y[k] ELSE z[k - Len(y)]
    BY <2>2
  <2> HIDE DEF x
  <2>4. /\ x \in Seq(S) /\ Len(x) = d + m
        /\ \A k \in 1 .. d + m : x[k] = IF k <= d THEN y[k] ELSE z[k - d]
    BY <2>1, <2>3
  <2> QED
    BY <2>4 DEF x
<1>6. Len(s) = d + m
  BY <1>2, <1>3
<1>7. ASSUME NEW k \in 1 .. d + m PROVE (y \o z)[k] = s[k]
  <2>1. CASE k <= d
    BY <1>1, <1>2, <1>5, <2>1
  <2>2. CASE ~ (k <= d)
    <3>1. k - d \in 1 .. m /\ k \in b - a + 1 .. Len(s)
      BY <1>2, <1>6, <2>2
    <3> QED
      BY <1>4, <1>5, <2>2, <3>1
  <2> QED
    BY <2>1, <2>2
<1>8. y \o z = s
  <2> DEFINE x == y \o z
  <2>1. x \in Seq(S) /\ Len(x) = Len(s) /\ \A k \in 1 .. Len(x) : x[k] = s[k]
    BY <1>5, <1>6, <1>7
  <2> HIDE DEF x
  <2>2. x = s
    BY <2>1, SeqEqual
  <2> QED
    BY <2>2 DEF x
<1> QED
  BY <1>2, <1>3, <1>8 DEF y, z

(* The invariant says that the input is handed over. *)
LEMMA NothingIsSkipped == ReadInv => HandsOverTheInput
<1> SUFFICES ASSUME ReadInv PROVE HandsOverTheInput
  OBVIOUS
<1>1. ReadTypes /\ HandedSoFar /\ Buffered
  BY DEF ReadInv
<1> DEFINE g == Got
           b == Start
           e == EndsUpto(typed)[g]
           all == StatementEnds(typed)
           given == StatementsIn(typed)
           S == CharactersOf(typed) \cup {Eof}
<1>2. /\ typed \in Seq(S) /\ Len(typed) \in Nat
      /\ Len(input) \in Nat /\ g \in 0 .. Len(typed) /\ Len(typed) = g + Len(input)
      /\ e \in Seq(Nat) /\ Len(e) >= 1 /\ b \in 0 .. g /\ b = e[Len(e)]
  <2>1. typed \in Seq(CharactersOf(typed)) => typed \in Seq(S)
    OBVIOUS
  <2> QED
    BY <1>1, <2>1, InputFacts DEF Start
<1>3. /\ input \in Seq(S) /\ sql \in Seq(S) /\ handed \in Seq(Seq(S)) /\ Eof \in S
      /\ turn \in {"reading", "running", "exited"}
  <2>1. input \in Seq(CharactersOf(typed)) => input \in Seq(S)
    OBVIOUS
  <2> QED
    BY <1>1, <2>1 DEF ReadTypes
<1>4. /\ \A k \in 1 .. Len(input) : input[k] = typed[g + k]
      /\ Len(handed) = Len(e) - 1
      /\ \A k \in 1 .. Len(handed) : handed[k] = given[k]
  BY <1>1 DEF HandedSoFar
<1>5. turn = "reading" =>
        /\ g - b <= Len(sql)
        /\ \A k \in 1 .. g - b : sql[k] = typed[b + k]
        /\ \A k \in g - b + 1 .. Len(sql) : sql[k] = Eof
        /\ Len(sql) > g - b => input = <<>>
  BY <1>1 DEF Buffered
<1>6. Len(e) <= Len(all) /\ \A k \in 1 .. Len(e) : e[k] = all[k]
  BY <1>2, EndsAreKept
<1>7. Len(all) \in Nat
  <2>1. Len(typed) \in 0 .. Len(typed)
    BY <1>2
  <2>2. all \in Seq(Nat)
    BY <1>2, <2>1, EndsUnfold DEF StatementEnds
  <2> QED
    BY <2>2
<1>8. Len(given) = Len(all) - 1
  <2>1. given = [k \in 1 .. Len(all) - 1 |-> CString(SubSeq(typed, all[k] + 1, all[k + 1]))]
    BY DEF StatementsIn
  <2>2. Len(all) - 1 \in Nat
    BY <1>2, <1>6, <1>7
  <2> HIDE DEF all, given
  <2>3. PICK n \in Nat : n = Len(all) - 1
    BY <2>2
  <2> QED
    BY <2>1, <2>3
<1> HIDE DEF g, b, e, all, given, S
<1>9. Len(handed) <= Len(given) /\ all[Len(handed) + 1] = b
  <2>1. Len(e) \in 1 .. Len(e) /\ Len(handed) + 1 = Len(e)
    BY <1>2, <1>4
  <2> QED
    BY <1>2, <1>4, <1>6, <1>7, <1>8, <2>1
<1>10. handed = SubSeq(given, 1, Len(handed))
  <2>1. \A k \in 1 .. Len(handed) : given[k] \in Seq(S)
    <3>1. \A k \in 1 .. Len(handed) : handed[k] \in Seq(S)
      BY <1>3
    <3> QED
      BY <1>4, <3>1
  <2>2. PICK n \in Nat : n = Len(handed)
    BY <1>3
  <2> DEFINE y == SubSeq(given, 1, n)
  <2>3. /\ y \in Seq(Seq(S))
        /\ Len(y) = IF 1 <= n THEN n - 1 + 1 ELSE 0
        /\ \A k \in 1 .. n - 1 + 1 : y[k] = given[1 + k - 1]
    <3>1. \A k \in 1 .. n : given[k] \in Seq(S)
      BY <2>1, <2>2
    <3>2. 1 \in Int /\ n \in Int
      BY <2>2
    <3> QED
      BY <3>1, <3>2, SubSeqProperties
  <2> HIDE DEF y
  <2>4. Len(y) = n /\ \A k \in 1 .. n : y[k] = given[k]
    BY <2>3
  <2>5. handed = y
    BY <1>3, <1>4, <2>2, <2>3, <2>4, SeqEqual
  <2> QED
    BY <2>2, <2>5 DEF y
<1>11. input = SubSeq(typed, g + 1, Len(typed))
  <2>1. PICK n \in Nat : n = Len(typed) /\ Len(input) = n - g /\ g <= n /\ g \in Nat
    BY <1>2
  <2> DEFINE y == SubSeq(typed, g + 1, n)
  <2>2. y \in Seq(S) /\ Len(y) = n - g /\ \A k \in 1 .. n - g : y[k] = typed[g + k]
    <3>1. n <= Len(typed)
      BY <1>2, <2>1
    <3> QED
      BY <1>2, <2>1, <3>1, Cut
  <2> HIDE DEF y
  <2>3. input = y
    BY <1>3, <1>4, <2>1, <2>2, SeqEqual
  <2> QED
    BY <2>1, <2>3 DEF y
<1>12. ASSUME turn = "reading"
       PROVE  sql = SubSeq(typed, b + 1, g) \o [k \in 1 .. Len(sql) - (g - b) |-> Eof]
  <2>1. b \in Nat /\ g \in Nat /\ b <= g /\ g <= Len(typed)
    BY <1>2
  <2>2. sql \in Seq(S) /\ typed \in Seq(S) /\ Eof \in S
    BY <1>2, <1>3
  <2>3. /\ g - b <= Len(sql)
        /\ \A k \in 1 .. g - b : sql[k] = typed[b + k]
        /\ \A k \in g - b + 1 .. Len(sql) : sql[k] = Eof
    BY <1>5, <1>12
  <2> QED
    BY <2>1, <2>2, <2>3, CutAndFill
<1>13. b <= g
  BY <1>2
<1> QED
  BY <1>5, <1>9, <1>10, <1>11, <1>12, <1>13 DEF HandsOverTheInput, g, b, all, given

(* What the parser is given is the input, cut at the right newlines. *)
THEOREM InputIsHandedOver == ReadSpec => []HandsOverTheInput
BY ReadInvariance, NothingIsSkipped, PTL
=============================================================================
