----------------------------- MODULE MCOperators -----------------------------
(* Operators on the plans and databases of MCPlans. *)
EXTENDS Operators, MCPlans
=============================================================================
