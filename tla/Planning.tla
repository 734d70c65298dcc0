------------------------------ MODULE Planning ------------------------------
(***************************************************************************)
(* Planner and Optimizer one after the other on the same plan, as the      *)
(* shell runs them (src/standalone/shell.cpp): plan_stmt, then optimize.   *)
(***************************************************************************)
EXTENDS Planner, Optimizer

planningVars == <<heap, root, stmt, planning, pending, taken,
                  frames, ret, join_trie, custom_optimzers, passes, calls, given, outcome>>

PlanningInit ==
  /\ PlannerInit
  /\ OptimizerIdle
  /\ given = [heap |-> <<>>, root |-> Null, passes |-> <<>>]

OnlyOptimizer == UNCHANGED <<stmt, planning, pending, taken>>
OnlyPlanner == UNCHANGED <<frames, ret, join_trie, custom_optimzers, passes, calls, given, outcome>>

PlanningStep ==
  \/ PlannerStep /\ OnlyPlanner
  \/ planning = "done" /\ (optimize \/ OptimizerStep) /\ OnlyOptimizer

\* One thread runs the statement to its end.
PlanningSpec ==
  PlanningInit /\ [][PlanningStep]_planningVars /\ WF_planningVars(PlanningStep)

Optimized == planning = "done" /\ calls = 1 /\ ~Busy

(***************************************************************************)
(* Every statement ends up as a plan that operators can be built from, and *)
(* that they can run: optimize() does not throw on what the planner        *)
(* builds, and leaves whole nodes of the four kinds that have an operator, *)
(* the schemas that go with their children (operators find columns by      *)
(* them), and no filter that reads a column it does not have.              *)
(***************************************************************************)
ReadyToExecute ==
  Optimized =>
    /\ outcome = "push"
    /\ \A n \in Tree(heap, root) :
         /\ heap[n].kind \in {"TableScan", "Filter", "Projection", "BinaryJoin"}
         /\ Null \notin ChildrenOf(heap, n)
    /\ SchemasAreFresh
    /\ ~Faulty(heap)

=============================================================================
