------------------------------- MODULE Printer -------------------------------
(***************************************************************************)
(* MockResultPrinter (src/standalone/mock_result_printer.h) over           *)
(* ResultPrinter (include/common/result_printer.h): a table with columns   *)
(* as wide as the widest cell.  The printer keeps its widths from one      *)
(* result to the next.                                                     *)
(*                                                                         *)
(* Abstracted: a text is its length; a line is its length and the places   *)
(* of its bars.  A row with more cells than the header has attributes is   *)
(* read beyond the widths: no caller makes one (Shell!ImplementsDialogue). *)
(***************************************************************************)
EXTENDS Integers, Sequences, FiniteSets

CONSTANTS
  Headers,      \* attribute lists: the lengths of the names
  Results,      \* results: the rows, each the lengths of its cells
  MaxResults    \* how many results are printed (TLC)

ASSUME PrinterAssumption == Headers \subseteq Seq(Nat) /\ Results \subseteq Seq(Seq(Nat))

min_distance == 1

VARIABLES
  attributes,      \* ResultPrinter::attributes_
  column_width,    \* column_width_
  result,          \* the argument of output_result
  at,              \* "idle", "widths", "rows", "threw"
  todo,            \* how many rows a loop of it has done
  lines,           \* what this call has written
  calls

printerVars == <<attributes, column_width, result, at, todo, lines, calls>>

MaxOf(x, y) == IF x >= y THEN x ELSE y

\* The sum of the first k, for each k.
SumsOf(widths) ==
  LET upto[k \in 0 .. Len(widths)] == IF k = 0 THEN 0 ELSE upto[k - 1] + widths[k]
  IN  upto

Sum(widths) == SumsOf(widths)[Len(widths)]

line_length == Sum(column_width) + Len(column_width) * (min_distance * 2 + 1) + 1

\* A line of cells: a bar, then each cell with its padding and a bar behind it.
Line(widths) ==
  LET bar(k) == 1 + Sum(SubSeq(widths, 1, k)) + k
  IN  [length |-> bar(Len(widths)), bars |-> {bar(k) : k \in 0 .. Len(widths)}]

\* output_spaces: std::string throws on a negative size.
Spaces(k, cell) == column_width[k] + min_distance * 2 - cell - min_distance

-----------------------------------------------------------------------------
set_attributes ==
  /\ at = "idle"
  /\ attributes' \in Headers
  /\ UNCHANGED <<column_width, result, at, todo, lines, calls>>

\* resize() keeps the widths there are and adds zeros.
Resized == [k \in DOMAIN attributes |-> IF k \in DOMAIN column_width THEN column_width[k] ELSE 0]

\* Bug: the names of the columns are not measured.
output_result_cells ==
  /\ at = "idle" /\ calls < MaxResults
  /\ \E rows \in Results :
       /\ \A i \in DOMAIN rows : Len(rows[i]) <= Len(attributes)
       /\ result' = rows
  /\ column_width' = Resized
  /\ at' = "widths" /\ todo' = 0 /\ lines' = <<>> /\ calls' = calls + 1
  /\ UNCHANGED attributes

\* The first half of calc_column_width.
output_result ==
  /\ at = "idle" /\ calls < MaxResults
  /\ \E rows \in Results :
       /\ \A i \in DOMAIN rows : Len(rows[i]) <= Len(attributes)
       /\ result' = rows
  /\ column_width' = [k \in DOMAIN attributes |-> MaxOf(Resized[k], attributes[k])]
  /\ at' = "widths" /\ todo' = 0 /\ lines' = <<>> /\ calls' = calls + 1
  /\ UNCHANGED attributes

Row == result[todo + 1]
MoreRows == todo < Len(result)

\* Bug: a column is as wide as its last cell.
MeasureRow_last ==
  /\ at = "widths" /\ MoreRows /\ Len(Row) = Len(attributes)
  /\ column_width' = Row
  /\ todo' = todo + 1
  /\ UNCHANGED <<attributes, result, at, lines, calls>>

MeasureRow ==
  /\ at = "widths" /\ MoreRows /\ Len(Row) = Len(attributes)
  /\ column_width' = [k \in DOMAIN column_width |-> MaxOf(column_width[k], Row[k])]
  /\ todo' = todo + 1
  /\ UNCHANGED <<attributes, result, at, lines, calls>>

\* at() throws on a row that is too short.
MeasureShortRow ==
  /\ at = "widths" /\ MoreRows /\ Len(Row) < Len(attributes)
  /\ at' = "threw"
  /\ UNCHANGED <<attributes, column_width, result, todo, lines, calls>>

\* The header is not padded, and the line of dashes below it has no bars.
PrintHeader ==
  /\ at = "widths" /\ ~MoreRows
  /\ lines' = <<Line([k \in DOMAIN attributes |-> attributes[k] + 2]),
                [length |-> line_length, bars |-> {}]>>
  /\ at' = "rows" /\ todo' = 0
  /\ UNCHANGED <<attributes, column_width, result, calls>>

PrintRow ==
  /\ at = "rows" /\ MoreRows
  /\ IF \E k \in DOMAIN Row : Spaces(k, Row[k]) < 0
     THEN at' = "threw" /\ UNCHANGED <<lines, todo>>
     ELSE /\ lines' = Append(lines, Line([k \in DOMAIN Row |-> Spaces(k, Row[k]) + Row[k] + 1]))
          /\ todo' = todo + 1 /\ UNCHANGED at
  /\ UNCHANGED <<attributes, column_width, result, calls>>

PrintEnd ==
  /\ at = "rows" /\ ~MoreRows
  /\ at' = "idle"
  /\ UNCHANGED <<attributes, column_width, result, todo, lines, calls>>

PrinterInit ==
  /\ attributes \in Headers
  /\ column_width = <<>> /\ result = <<>> /\ at = "idle" /\ todo = 0
  /\ lines = <<>> /\ calls = 0

PrinterNext ==
  \/ set_attributes \/ output_result \/ MeasureRow \/ MeasureShortRow
  \/ PrintHeader \/ PrintRow \/ PrintEnd

PrinterSpec == PrinterInit /\ [][PrinterNext]_printerVars

-----------------------------------------------------------------------------
(***************************************************************************)
(* The rows of a table are as long as the line of dashes above them, and   *)
(* have their bars at the same places; the header is no longer than they.  *)
(* Also after another result was printed, with more or fewer columns.      *)
(***************************************************************************)
RowsAlign ==
  \A k \in DOMAIN lines :
    /\ lines[k].length <= lines[2].length
    /\ k >= 3 => lines[k].length = lines[2].length /\ lines[k].bars = lines[3].bars

(***************************************************************************)
(* A result is printed whole or not at all: the widths are measured first, *)
(* so a row that is too short throws before any line is written, and       *)
(* nothing else throws.                                                    *)
(***************************************************************************)
AllOrNothing ==
  /\ at = "threw" => lines = <<>> /\ \E k \in DOMAIN result : Len(result[k]) < Len(attributes)
  /\ (at = "idle" /\ calls > 0) => Len(lines) = Len(result) + 2

-----------------------------------------------------------------------------
(***************************************************************************)
(* The inductive invariant of the two: a column is at least as wide as     *)
(* what was measured of it, the rows that are measured are complete, and   *)
(* every line written below the dashes is the line of the widths alone.    *)
(***************************************************************************)
PrinterTypes ==
  /\ attributes \in Seq(Nat) /\ column_width \in Seq(Nat) /\ result \in Seq(Seq(Nat))
  /\ at \in {"idle", "widths", "rows", "threw"} /\ todo \in 0 .. Len(result) /\ calls \in Nat
  /\ lines \in Seq([length : Nat, bars : SUBSET Nat])

Fits(row) ==
  /\ Len(row) = Len(column_width)
  /\ \A k \in DOMAIN column_width : row[k] <= column_width[k]

Measured ==
  /\ at \in {"widths", "rows"} => Fits(attributes)
  /\ at = "widths" => \A i \in 1 .. todo : Fits(result[i])
  /\ at = "rows" => \A i \in DOMAIN result : Fits(result[i])

Padded == [k \in DOMAIN column_width |-> column_width[k] + 2]

Printed ==
  /\ at = "widths" => lines = <<>>
  /\ at = "rows" => /\ Len(lines) = todo + 2
                    /\ lines[2].length = line_length
                    /\ \A i \in 3 .. Len(lines) : lines[i] = Line(Padded)

PrinterInv == PrinterTypes /\ Measured /\ Printed /\ RowsAlign /\ AllOrNothing
=============================================================================
