------------------------------ MODULE Executor ------------------------------
(***************************************************************************)
(* Executor::execute (src/executor/executor.cpp): the only client of an    *)
(* operator tree.  It opens the root, pulls until get_next returns false   *)
(* and returns the rows it collected.  It never calls close(), and nothing *)
(* stops a caller from executing the same operators again.                 *)
(***************************************************************************)
EXTENDS Operators

CONSTANT MaxRuns      \* how often the caller executes the same operators

ASSUME MaxRunsAssumption == MaxRuns \in Nat \ {0}

VARIABLES
  exec,     \* "ready", "open" and "get_next" (the call made), "done", "threw"
  result,   \* the local vector of execute(), then what it returned
  runs      \* executions started

execVars == <<exec, result, runs>>
allVars == <<vars, execVars>>

\* Bug: the rows of the execution before are still there.
Execute_appends ==
  /\ exec \in {"ready", "done", "threw"} /\ runs < MaxRuns
  /\ exec' = "open" /\ runs' = runs + 1
  /\ InvokeRoot("open")
  /\ UNCHANGED result

Execute ==
  /\ exec \in {"ready", "done", "threw"} /\ runs < MaxRuns
  /\ exec' = "open" /\ result' = <<>> /\ runs' = runs + 1
  /\ InvokeRoot("open")

\* open() or get_next() returned true: pull the next row.
Pull ==
  /\ exec \in {"open", "get_next"} /\ Idle /\ ret.ok
  /\ result' = IF exec = "get_next" THEN Append(result, ret.tp) ELSE result
  /\ exec' = "get_next"
  /\ InvokeRoot("get_next")
  /\ UNCHANGED runs

\* Bug: open() is tried again until it returns true.
Finish_retries ==
  /\ exec \in {"open", "get_next"} /\ Idle /\ ~ret.ok /\ ~ret.threw
  /\ IF exec = "open" THEN InvokeRoot("open") /\ UNCHANGED execVars
     ELSE exec' = "done" /\ UNCHANGED <<vars, result, runs>>

Finish ==
  /\ exec \in {"open", "get_next"} /\ Idle /\ ~ret.ok /\ ~ret.threw
  /\ exec' = "done"
  /\ UNCHANGED <<vars, result, runs>>

\* The exception leaves execute() too; the rows collected are lost.
Propagate ==
  /\ exec \in {"open", "get_next"} /\ Idle /\ ret.threw
  /\ exec' = "threw" /\ result' = <<>>
  /\ UNCHANGED <<vars, runs>>

ExecutorInit ==
  /\ OperatorsInit
  /\ exec = "ready" /\ result = <<>> /\ runs = 0

ExecuteLoop == Pull \/ Finish \/ Propagate

ExecutorNext ==
  \/ Execute
  \/ ExecuteLoop
  \/ OperatorStep /\ UNCHANGED execVars

\* execute() and the operators run to completion on the caller's thread; the
\* caller need not execute anything.
ExecutorSpec ==
  /\ ExecutorInit /\ [][ExecutorNext]_allVars
  /\ WF_allVars(ExecuteLoop)
  /\ WF_allVars(OperatorStep /\ UNCHANGED execVars)

-----------------------------------------------------------------------------
(* Properties *)

(***************************************************************************)
(* execute() returns all the rows of the plan, in order and once each --   *)
(* also when the operators were executed before and never closed.  A plan  *)
(* whose filters find their columns is answered, never failed.             *)
(***************************************************************************)
ResultIsTheAnswer ==
  /\ exec = "done" => result = Denotation[plan][data][Root]
  /\ exec = "threw" => Faulty(plan)

\* What is known in between: result holds the rows the root has returned, and
\* after a call what the root answered.
ExecutorInv ==
  LET rows == Denotation[plan][data][Root]
      k    == fetched[Root]
  IN  /\ CursorInv
      /\ exec \in {"ready", "open", "get_next", "done", "threw"}
      /\ exec \in {"ready", "done", "threw"} => Idle
      /\ (exec \in {"open", "get_next"} /\ ~Idle) => MethodOf(pc[Root]) = exec
      /\ (exec \in {"open", "get_next"} /\ Idle /\ ret.threw) => Faulty(plan) /\ ~ret.ok
      /\ exec = "open" => result = <<>>
      /\ (exec = "open" /\ Idle /\ ~ret.threw) =>
           IF ret.ok THEN live[Root] /\ k = 0 ELSE rows = <<>>
      /\ (exec = "get_next" /\ ~Idle) => result = SubSeq(rows, 1, k)
      /\ (exec = "get_next" /\ Idle /\ ~ret.threw) =>
           IF ret.ok
           THEN /\ live[Root] /\ k \in 1 .. Len(rows)
                /\ ret.tp = rows[k] /\ result = SubSeq(rows, 1, k - 1)
           ELSE result = rows
      /\ ResultIsTheAnswer

(***************************************************************************)
(* Every execution ends: the filter's and the join's inner loops and the   *)
(* pull loop all run out of rows.                                          *)
(***************************************************************************)
ExecuteReturns == (exec = "open") ~> (exec \in {"done", "threw"})
=============================================================================
