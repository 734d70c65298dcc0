------------------------------ MODULE MCPrinter ------------------------------
(* Up to two columns and two rows, cells shorter and longer than the names. *)
EXTENDS Printer

Upto(n, S) == UNION {[1 .. k -> S] : k \in 0 .. n}

MCHeaders == Upto(2, {1, 3})
MCResults == Upto(2, Upto(2, {0, 2, 4}))
=============================================================================
