----------------------------- MODULE MCReadLoop -----------------------------
(* Every input of up to six characters of the kinds the loop tells apart. *)
EXTENDS ReadLoop

MCInputs == UNION {[1 .. n -> {";", "newline", "NUL", "x"}] : n \in 0 .. 6}
=============================================================================
