------------------------------- MODULE Cursor -------------------------------
(***************************************************************************)
(* What a PhysicalOperator promises its caller (include/executor/          *)
(* operator.h), whatever tree of operators is behind it: it is a cursor    *)
(* over a fixed sequence of rows.  open() rewinds it, each get_next()      *)
(* returns the next row until there is none, close() may come at any time. *)
(* open() may return false only if there is no row; the tree may throw     *)
(* only if it holds a filter that its input cannot satisfy.                *)
(*                                                                         *)
(* Written by hand as the specification Operators is checked against; it   *)
(* translates no code.                                                     *)
(***************************************************************************)
EXTENDS Integers, Sequences

CONSTANT RowSeqs     \* the sequences of rows a cursor may stand for

VARIABLES
  rows,     \* the rows, fixed
  faulty,   \* whether the tree behind may throw, fixed
  live,     \* open returned true and the end was not reached since
  pos,      \* rows returned since the last open
  busy,     \* the method being executed, or "none"
  out       \* what the last method returned, Pending while one executes

vars == <<rows, faulty, live, pos, busy, out>>

Methods == {"open", "get_next", "close"}
Pending == [ok |-> FALSE, tp |-> <<>>, threw |-> FALSE]

Init ==
  /\ rows \in RowSeqs
  /\ faulty \in BOOLEAN
  /\ live = FALSE
  /\ pos = 0
  /\ busy = "none"
  /\ out = Pending

Invoke(m) ==
  /\ busy = "none"
  /\ m = "get_next" => live
  /\ busy' = m
  /\ out' = Pending
  /\ UNCHANGED <<rows, faulty, live, pos>>

Reply(ok, tp, threw) ==
  /\ busy' = "none"
  /\ out' = [ok |-> ok, tp |-> tp, threw |-> threw]
  /\ UNCHANGED <<rows, faulty>>

Open ==
  /\ busy = "open"
  /\ \E ok \in BOOLEAN :
       /\ ok \/ rows = <<>>
       /\ live' = ok
       /\ Reply(ok, <<>>, FALSE)
  /\ pos' = 0

NextRow ==
  /\ busy = "get_next" /\ pos < Len(rows)
  /\ pos' = pos + 1
  /\ Reply(TRUE, rows[pos + 1], FALSE)
  /\ UNCHANGED live

NextEnd ==
  /\ busy = "get_next" /\ pos = Len(rows)
  /\ live' = FALSE
  /\ Reply(FALSE, <<>>, FALSE)
  /\ UNCHANGED pos

Close ==
  /\ busy = "close"
  /\ live' = FALSE
  /\ Reply(FALSE, <<>>, FALSE)
  /\ UNCHANGED pos

Fail ==
  /\ faulty /\ busy \in {"open", "get_next"}
  /\ live' = FALSE
  /\ Reply(FALSE, <<>>, TRUE)
  /\ UNCHANGED pos

Respond == Open \/ NextRow \/ NextEnd \/ Close \/ Fail

Next == Respond \/ \E m \in Methods : Invoke(m)

Spec == Init /\ [][Next]_vars /\ WF_vars(Respond)
=============================================================================
