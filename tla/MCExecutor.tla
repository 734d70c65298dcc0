------------------------------ MODULE MCExecutor ------------------------------
(* Executor on the plans and databases of MCPlans. *)
EXTENDS Executor, MCPlans
=============================================================================
