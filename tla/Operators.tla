----------------------------- MODULE Operators -----------------------------
(***************************************************************************)
(* The pull ("volcano") operators of src/executor over a storage manager:  *)
(* TableScanOperator, FilterOperator, ProjectionOperator and               *)
(* NestLoopJoinOperator, one per plan node, each with the methods open,    *)
(* get_next and close.                                                     *)
(*                                                                         *)
(* Every method is executed statement by statement.  `stack' is the C++    *)
(* call stack, as the nodes whose methods have a frame on it, the root     *)
(* first; it is empty when control is with the client.  pc[n] is "idle",   *)
(* the method that n is about to execute, or the call it waits for.        *)
(*                                                                         *)
(* The client may call open and close at any time, and get_next as long as *)
(* the cursor is live (its last open returned true and nothing has ended   *)
(* it since), which is what Executor::execute does (module Executor).      *)
(***************************************************************************)
EXTENDS PlanNode

CONSTANT Plans       \* the plans that may be executed

\* A row has one value per column of the scans of its relation.
RowsFit(p, db) ==
  \A n \in DOMAIN p :
    (p[n].kind = "TableScan" /\ p[n].rel \in DOMAIN db) =>
      \A i \in DOMAIN db[p[n].rel] : Len(db[p[n].rel][i]) = Len(p[n].schema)

ASSUME PlansAssumption == \A p \in Plans : p \in Seq(PlanNodes) /\ WellFormed(p)

ASSUME DatabasesAssumption ==
  \A db \in Databases :
    /\ \A rel \in DOMAIN db : db[rel] \in Seq(Tuples)
    /\ \A p \in Plans : RowsFit(p, db)

VARIABLES
  plan,        \* the plan the operators were built from
  data,        \* MockStorageManager::data_
  p_next_id,   \* TableScanOperator::p_next_id_ of each scan: an offset or nullptr
  l_tp,        \* NestLoopJoinOperator::l_tp_ of each join
  pc,          \* per node: "idle", the method it enters, or the call it waits for
  stack,       \* the nodes that are executing a method, the caller first
  ret,         \* what the last method returned, or that it threw
  live,        \* history: the last open returned true, nothing ended it since
  fetched      \* history: rows returned since the last open

opVars == <<p_next_id, l_tp, pc, stack, ret, live, fetched>>
vars   == <<plan, data, p_next_id, l_tp, pc, stack, ret, live, fetched>>

-----------------------------------------------------------------------------
Nodes == DOMAIN plan
Root == RootOf(plan)
Kind(n) == plan[n].kind
Child(n) == plan[n].child[1]
LeftChild(n) == plan[n].child[1]
RightChild(n) == plan[n].child[2]
Schema(n) == plan[n].schema

Methods == {"open", "get_next", "close"}

\* The calls a node can be waiting for: in which method, to which child, what.
Waits == {"opening", "pulling", "closing",
          "open_left", "open_right", "open_first",
          "pull_right", "pull_left", "reopen_right",
          "close_left", "close_right"}

Labels == {"idle"} \cup Methods \cup Waits

\* The method that is executing when a node waits at w.
MethodOf(w) ==
  CASE w \in {"open", "opening", "open_left", "open_right", "open_first"} -> "open"
    [] w \in {"get_next", "pulling", "pull_right", "pull_left", "reopen_right"} -> "get_next"
    [] w \in {"close", "closing", "close_left", "close_right"} -> "close"

\* The method that was called, and the child it was called on.
Called(w) ==
  CASE w \in {"opening", "open_left", "open_right", "reopen_right"} -> "open"
    [] w \in {"pulling", "open_first", "pull_left", "pull_right"} -> "get_next"
    [] w \in {"closing", "close_left", "close_right"} -> "close"

Callee(n, w) ==
  IF w \in {"open_right", "pull_right", "reopen_right", "close_right"}
  THEN RightChild(n) ELSE Child(n)

NullId == -1

TableSize(rel) == IF rel \in DOMAIN data THEN Len(data[rel]) ELSE 0

\* MockStorageManager::get_start_id
StartId(rel) == IF TableSize(rel) = 0 THEN NullId ELSE 0

\* Bug: the end is noticed one row too late.
NextId_late(rel, off) == IF off >= TableSize(rel) THEN NullId ELSE off + 1

\* MockStorageManager::get_next_id
NextId(rel, off) == IF off + 1 >= TableSize(rel) THEN NullId ELSE off + 1

\* MockStorageManager::get_tuple
TupleAt(rel, off) == IF off >= TableSize(rel) THEN <<>> ELSE data[rel][off + 1]

-----------------------------------------------------------------------------
(* Calls and returns. *)

Idle == stack = <<>>
Top == stack[Len(stack)]
OnTop(n) == ~Idle /\ Top = n
At(n, label) == OnTop(n) /\ pc[n] = label

\* n, which waits at w from now on, calls method m of child c.
Call(n, w, c, m) ==
  /\ pc' = [pc EXCEPT ![n] = w, ![c] = m]
  /\ stack' = Append(stack, c)

Return(n, ok, tp) ==
  /\ pc' = [pc EXCEPT ![n] = "idle"]
  /\ stack' = SubSeq(stack, 1, Len(stack) - 1)
  /\ ret' = [ok |-> ok, tp |-> tp, threw |-> FALSE]

Opened(n, ok) ==
  /\ Return(n, ok, <<>>)
  /\ live' = [live EXCEPT ![n] = ok]
  /\ fetched' = [fetched EXCEPT ![n] = 0]

Yielded(n, tp) ==
  /\ Return(n, TRUE, tp)
  /\ fetched' = [fetched EXCEPT ![n] = @ + 1]
  /\ UNCHANGED live

Ended(n) ==
  /\ Return(n, FALSE, <<>>)
  /\ live' = [live EXCEPT ![n] = FALSE]
  /\ UNCHANGED fetched

Closed(n) == Ended(n)

\* An exception leaves every frame; no operator catches one.
Throw ==
  /\ pc' = [m \in Nodes |-> "idle"]
  /\ stack' = <<>>
  /\ ret' = [ok |-> FALSE, tp |-> <<>>, threw |-> TRUE]
  /\ live' = [m \in Nodes |-> FALSE]
  /\ UNCHANGED fetched

-----------------------------------------------------------------------------
(* TableScanOperator *)

ScanOpen(n) ==
  /\ Kind(n) = "TableScan" /\ At(n, "open")
  /\ p_next_id' = [p_next_id EXCEPT ![n] = StartId(plan[n].rel)]
  /\ Opened(n, p_next_id'[n] # NullId)
  /\ UNCHANGED l_tp

ScanNext(n) ==
  /\ Kind(n) = "TableScan" /\ At(n, "get_next")
  /\ p_next_id[n] # NullId
  /\ Yielded(n, TupleAt(plan[n].rel, p_next_id[n]))
  /\ p_next_id' = [p_next_id EXCEPT ![n] = NextId(plan[n].rel, p_next_id[n])]
  /\ UNCHANGED l_tp

ScanEnd(n) ==
  /\ Kind(n) = "TableScan" /\ At(n, "get_next")
  /\ p_next_id[n] = NullId
  /\ Ended(n)
  /\ UNCHANGED <<p_next_id, l_tp>>

ScanClose(n) ==
  /\ Kind(n) = "TableScan" /\ At(n, "close")
  /\ p_next_id' = [p_next_id EXCEPT ![n] = NullId]
  /\ Closed(n)
  /\ UNCHANGED l_tp

(* FilterOperator and ProjectionOperator: what they have in common. *)

\* Each method starts by calling the same method of child_.
Delegate(n) ==
  /\ Kind(n) \in {"Filter", "Projection"}
  /\ \/ At(n, "open")     /\ Call(n, "opening", Child(n), "open")
     \/ At(n, "get_next") /\ Call(n, "pulling", Child(n), "get_next")
     \/ At(n, "close")    /\ Call(n, "closing", Child(n), "close")
  /\ UNCHANGED <<p_next_id, l_tp, ret, live, fetched>>

\* return child_->open()
DelegateOpened(n) ==
  /\ Kind(n) \in {"Filter", "Projection"} /\ At(n, "opening")
  /\ Opened(n, ret.ok)
  /\ UNCHANGED <<p_next_id, l_tp>>

\* if (!not_end) return false
DelegateEnd(n) ==
  /\ Kind(n) \in {"Filter", "Projection"} /\ At(n, "pulling")
  /\ ~ret.ok
  /\ Ended(n)
  /\ UNCHANGED <<p_next_id, l_tp>>

DelegateClosed(n) ==
  /\ Kind(n) \in {"Filter", "Projection"} /\ At(n, "closing")
  /\ Closed(n)
  /\ UNCHANGED <<p_next_id, l_tp>>

(* FilterOperator::get_next *)

\* Schema::get_attribute_id uses at(), which throws when a column is missing.
FilterThrow(n) ==
  /\ Kind(n) = "Filter" /\ At(n, "pulling") /\ ret.ok
  /\ ~Resolvable(plan[n].cond, Schema(Child(n)))
  /\ Throw
  /\ UNCHANGED <<p_next_id, l_tp>>

FilterPass(n) ==
  /\ Kind(n) = "Filter" /\ At(n, "pulling") /\ ret.ok
  /\ Resolvable(plan[n].cond, Schema(Child(n)))
  /\ Evaluate(plan[n].cond, ret.tp, Schema(Child(n)))
  /\ Yielded(n, ret.tp)
  /\ UNCHANGED <<p_next_id, l_tp>>

\* Bug: `if' for `while': the first row that fails ends the filter.
FilterReject_ends(n) ==
  /\ Kind(n) = "Filter" /\ At(n, "pulling") /\ ret.ok
  /\ Resolvable(plan[n].cond, Schema(Child(n)))
  /\ ~Evaluate(plan[n].cond, ret.tp, Schema(Child(n)))
  /\ Ended(n)
  /\ UNCHANGED <<p_next_id, l_tp>>

FilterReject(n) ==
  /\ Kind(n) = "Filter" /\ At(n, "pulling") /\ ret.ok
  /\ Resolvable(plan[n].cond, Schema(Child(n)))
  /\ ~Evaluate(plan[n].cond, ret.tp, Schema(Child(n)))
  /\ Call(n, "pulling", Child(n), "get_next")
  /\ UNCHANGED <<p_next_id, l_tp, ret, live, fetched>>

(* ProjectionOperator::get_next *)

\* Bug: the tuple of the child is returned as it is.
ProjectionBuild_whole(n) ==
  /\ Kind(n) = "Projection" /\ At(n, "pulling") /\ ret.ok
  /\ Yielded(n, ret.tp)
  /\ UNCHANGED <<p_next_id, l_tp>>

ProjectionBuild(n) ==
  /\ Kind(n) = "Projection" /\ At(n, "pulling") /\ ret.ok
  /\ Yielded(n, ProjectRow(ret.tp, Schema(Child(n)), Schema(n)))
  /\ UNCHANGED <<p_next_id, l_tp>>

(***************************************************************************)
(* NestLoopJoinOperator.  open() is                                        *)
(*   lchild_->open() && rchild_->open() && lchild_->get_next(l_tp_)        *)
(* and get_next() keeps l_tp_ as the current outer tuple.  A get_next that *)
(* returns false leaves its argument alone.                                *)
(***************************************************************************)
JoinOpen(n) ==
  /\ Kind(n) = "BinaryJoin" /\ At(n, "open")
  /\ Call(n, "open_left", LeftChild(n), "open")
  /\ UNCHANGED <<p_next_id, l_tp, ret, live, fetched>>

\* Bug: what lchild_->open() returned is ignored.
JoinOpenRight_anyway(n) ==
  /\ Kind(n) = "BinaryJoin" /\ At(n, "open_left")
  /\ Call(n, "open_right", RightChild(n), "open")
  /\ UNCHANGED <<p_next_id, l_tp, ret, live, fetched>>

JoinOpenRight(n) ==
  /\ Kind(n) = "BinaryJoin" /\ At(n, "open_left") /\ ret.ok
  /\ Call(n, "open_right", RightChild(n), "open")
  /\ UNCHANGED <<p_next_id, l_tp, ret, live, fetched>>

JoinOpenFirst(n) ==
  /\ Kind(n) = "BinaryJoin" /\ At(n, "open_right") /\ ret.ok
  /\ Call(n, "open_first", LeftChild(n), "get_next")
  /\ UNCHANGED <<p_next_id, l_tp, ret, live, fetched>>

\* The conjunction is evaluated to the end, with l_tp_ set when it is true ...
JoinOpened(n) ==
  /\ Kind(n) = "BinaryJoin" /\ At(n, "open_first") /\ ret.ok
  /\ l_tp' = [l_tp EXCEPT ![n] = ret.tp]
  /\ Opened(n, TRUE)
  /\ UNCHANGED p_next_id

\* ... or cut short by the first conjunct that is false.
JoinOpenFailed(n) ==
  /\ Kind(n) = "BinaryJoin" /\ OnTop(n)
  /\ pc[n] \in {"open_left", "open_right", "open_first"} /\ ~ret.ok
  /\ Opened(n, FALSE)
  /\ UNCHANGED <<p_next_id, l_tp>>

JoinNext(n) ==
  /\ Kind(n) = "BinaryJoin" /\ At(n, "get_next")
  /\ Call(n, "pull_right", RightChild(n), "get_next")
  /\ UNCHANGED <<p_next_id, l_tp, ret, live, fetched>>

\* The inner side has a row: outer tuple first, then the inner one.
JoinEmit(n) ==
  /\ Kind(n) = "BinaryJoin" /\ At(n, "pull_right") /\ ret.ok
  /\ Yielded(n, l_tp[n] \o ret.tp)
  /\ UNCHANGED <<p_next_id, l_tp>>

\* The inner side is at its end, or could not be reopened: next outer tuple.
JoinPullOuter(n) ==
  /\ Kind(n) = "BinaryJoin" /\ OnTop(n)
  /\ pc[n] \in {"pull_right", "reopen_right"} /\ ~ret.ok
  /\ Call(n, "pull_left", LeftChild(n), "get_next")
  /\ UNCHANGED <<p_next_id, l_tp, ret, live, fetched>>

\* Bug: the new outer tuple is not kept.
JoinReopenInner_stale(n) ==
  /\ Kind(n) = "BinaryJoin" /\ At(n, "pull_left") /\ ret.ok
  /\ Call(n, "reopen_right", RightChild(n), "open")
  /\ UNCHANGED <<p_next_id, l_tp, ret, live, fetched>>

JoinReopenInner(n) ==
  /\ Kind(n) = "BinaryJoin" /\ At(n, "pull_left") /\ ret.ok
  /\ l_tp' = [l_tp EXCEPT ![n] = ret.tp]
  /\ Call(n, "reopen_right", RightChild(n), "open")
  /\ UNCHANGED <<p_next_id, ret, live, fetched>>

JoinEnd(n) ==
  /\ Kind(n) = "BinaryJoin" /\ At(n, "pull_left") /\ ~ret.ok
  /\ Ended(n)
  /\ UNCHANGED <<p_next_id, l_tp>>

JoinPullInner(n) ==
  /\ Kind(n) = "BinaryJoin" /\ At(n, "reopen_right") /\ ret.ok
  /\ Call(n, "pull_right", RightChild(n), "get_next")
  /\ UNCHANGED <<p_next_id, l_tp, ret, live, fetched>>

JoinClose(n) ==
  /\ Kind(n) = "BinaryJoin" /\ At(n, "close")
  /\ Call(n, "close_left", LeftChild(n), "close")
  /\ UNCHANGED <<p_next_id, l_tp, ret, live, fetched>>

\* Bug: only the left child is closed.
JoinCloseRight_not(n) ==
  /\ Kind(n) = "BinaryJoin" /\ At(n, "close_left")
  /\ Closed(n)
  /\ UNCHANGED <<p_next_id, l_tp>>

JoinCloseRight(n) ==
  /\ Kind(n) = "BinaryJoin" /\ At(n, "close_left")
  /\ Call(n, "close_right", RightChild(n), "close")
  /\ UNCHANGED <<p_next_id, l_tp, ret, live, fetched>>

JoinClosed(n) ==
  /\ Kind(n) = "BinaryJoin" /\ At(n, "close_right")
  /\ Closed(n)
  /\ UNCHANGED <<p_next_id, l_tp>>

-----------------------------------------------------------------------------
ScanStep(n) == ScanOpen(n) \/ ScanNext(n) \/ ScanEnd(n) \/ ScanClose(n)

UnaryStep(n) ==
  \/ Delegate(n) \/ DelegateOpened(n) \/ DelegateEnd(n) \/ DelegateClosed(n)
  \/ FilterThrow(n) \/ FilterPass(n) \/ FilterReject(n)
  \/ ProjectionBuild(n)

JoinStep(n) ==
  \/ JoinOpen(n) \/ JoinOpenRight(n) \/ JoinOpenFirst(n)
  \/ JoinOpened(n) \/ JoinOpenFailed(n)
  \/ JoinNext(n) \/ JoinEmit(n) \/ JoinPullOuter(n)
  \/ JoinReopenInner(n) \/ JoinEnd(n) \/ JoinPullInner(n)
  \/ JoinClose(n) \/ JoinCloseRight(n) \/ JoinClosed(n)

OperatorStep ==
  /\ \E n \in Nodes : ScanStep(n) \/ UnaryStep(n) \/ JoinStep(n)
  /\ UNCHANGED <<plan, data>>

\* The client calls a method of the operator at the root.
InvokeRoot(m) ==
  /\ stack' = <<Root>>
  /\ pc' = [pc EXCEPT ![Root] = m]
  /\ UNCHANGED <<plan, data, p_next_id, l_tp, ret, live, fetched>>

Invoke(m) ==
  /\ Idle
  /\ m = "get_next" => live[Root]
  /\ InvokeRoot(m)

\* Executor::build_physical_operator has built one operator per plan node.
OperatorsInit ==
  /\ plan \in Plans
  /\ data \in Databases
  /\ p_next_id = [n \in Nodes |-> NullId]
  /\ l_tp = [n \in Nodes |-> <<>>]
  /\ pc = [n \in Nodes |-> "idle"]
  /\ stack = <<>>
  /\ ret = [ok |-> FALSE, tp |-> <<>>, threw |-> FALSE]
  /\ live = [n \in Nodes |-> FALSE]
  /\ fetched = [n \in Nodes |-> 0]

Init == OperatorsInit

Next == OperatorStep \/ \E m \in Methods : Invoke(m)

\* Operators run on the caller's thread: a call that was made goes on.
Spec == Init /\ [][Next]_vars /\ WF_vars(OperatorStep)

-----------------------------------------------------------------------------
(* Properties *)

TypeOK ==
  /\ plan \in Plans
  /\ data \in Databases
  /\ p_next_id \in [Nodes -> {NullId} \cup Nat]
  /\ l_tp \in [Nodes -> Tuples]
  /\ pc \in [Nodes -> Labels]
  /\ stack \in Seq(Nodes)
  /\ ret \in [ok : BOOLEAN, tp : Tuples, threw : BOOLEAN]
  /\ live \in [Nodes -> BOOLEAN]
  /\ fetched \in [Nodes -> Nat]

(***************************************************************************)
(* No operator pulls from a child that is not open.  A join whose open()   *)
(* failed, or whose inner side was not reopened, still answers get_next(): *)
(* it would pair rows with a stale or empty l_tp_ (nest_loop_join.cpp:10). *)
(* The operators only stay correct because nobody ever asks.               *)
(***************************************************************************)
GuardedGetNext == \A n \in Nodes : pc[n] = "get_next" => live[n]

(***************************************************************************)
(* Tuples and schemas stay aligned: what a child hands to its parent, and  *)
(* the outer tuple a join keeps between two calls, has one value for each  *)
(* column of the child's output schema.  get_tuple_array().at(id) in a     *)
(* filter or a projection is in range only because of that.                *)
(***************************************************************************)
Aligned ==
  \A n \in Nodes :
    /\ (OnTop(n) /\ pc[n] \in Waits /\ Called(pc[n]) = "get_next" /\ ret.ok) =>
         Len(ret.tp) = Len(Schema(Callee(n, pc[n])))
    /\ (Kind(n) = "BinaryJoin" /\ live[n] /\ pc[n] = "idle") =>
         Len(l_tp[n]) = Len(Schema(LeftChild(n)))

(***************************************************************************)
(* The inductive invariant that makes the two hold.                        *)
(***************************************************************************)

\* The stack is a path down from the root; its nodes are the active ones, each
\* but the last waits for the next, which executes the method it called.
StackOK ==
  /\ ~Idle => stack[1] = Root
  /\ \A i \in 1 .. Len(stack) - 1 :
       /\ pc[stack[i]] \in Waits
       /\ stack[i + 1] = Callee(stack[i], pc[stack[i]])
       /\ MethodOf(pc[stack[i + 1]]) = Called(pc[stack[i]])
  /\ \A i, j \in 1 .. Len(stack) : i < j => stack[j] < stack[i]
  /\ \A n \in Nodes : pc[n] # "idle" <=> \E i \in 1 .. Len(stack) : stack[i] = n

WaitsOf(kind) ==
  CASE kind = "TableScan" -> {}
    [] kind \in {"Filter", "Projection"} -> {"opening", "pulling", "closing"}
    [] kind = "BinaryJoin" -> Waits \ {"opening", "pulling", "closing"}

LabelsOK == \A n \in Nodes : pc[n] \in {"idle"} \cup Methods \cup WaitsOf(Kind(n))

\* A tuple id is that of a row.
IdsOK == \A n \in Nodes : p_next_id[n] # NullId => p_next_id[n] < TableSize(plan[n].rel)

\* Between two calls, the children of a live operator are live; during one, the
\* children it can still pull from are, and a join holds a row of its left child.
Resting(n) == pc[n] \in {"idle", "get_next"}

ChildrenOK(n) ==
  /\ (Kind(n) \in {"Filter", "Projection"} /\ live[n] /\ Resting(n)) => live[Child(n)]
  /\ Kind(n) = "BinaryJoin" =>
       /\ (live[n] /\ Resting(n)) => live[LeftChild(n)] /\ live[RightChild(n)]
       /\ pc[n] \in {"open_right", "pull_right", "reopen_right"} => live[LeftChild(n)]
       /\ pc[n] = "open_first" => live[RightChild(n)]
       /\ (live[n] /\ Resting(n)) \/ pc[n] \in {"pull_right", "reopen_right"} =>
            Len(l_tp[n]) = Len(Schema(LeftChild(n)))

PullingOK ==
  \A n \in Nodes : (pc[n] # "idle" /\ MethodOf(pc[n]) = "get_next") => live[n]

\* What ret means to the node it was returned to.
ReturnOK ==
  (~Idle /\ pc[Top] \in Waits) =>
    LET w == pc[Top]
        c == Callee(Top, w)
    IN  /\ Called(w) \in {"open", "get_next"} => live[c] = ret.ok
        /\ (Called(w) = "get_next" /\ ret.ok) => Len(ret.tp) = Len(Schema(c))

IInv ==
  /\ TypeOK
  /\ StackOK
  /\ LabelsOK
  /\ IdsOK
  /\ \A n \in Nodes : ChildrenOK(n)
  /\ PullingOK
  /\ ReturnOK

\* The rows every node of a plan stands for.
Denotation == [p \in Plans |-> [db \in Databases |-> RowsOf(p, db)]]

(***************************************************************************)
(* Every operator, at every depth and however often it is reopened, is a   *)
(* cursor over the rows its node stands for: the k-th row returned after   *)
(* an open is the k-th row, false is returned only at the end, and open    *)
(* returns false only if there is no row at all.                           *)
(***************************************************************************)
CursorStep(n, rows) ==
  /\ fetched'[n] > fetched[n] =>
       fetched'[n] <= Len(rows) /\ ret'.tp = rows[fetched'[n]]
  /\ (OnTop(n) /\ pc'[n] = "idle" /\ ~ret'.ok /\ ~ret'.threw) =>
       CASE MethodOf(pc[n]) = "get_next" -> fetched[n] = Len(rows)
         [] MethodOf(pc[n]) = "open"     -> rows = <<>>
         [] OTHER                        -> TRUE

EveryOperatorIsACursor ==
  [][\A n \in Nodes : CursorStep(n, Denotation[plan][data][n])]_vars

(***************************************************************************)
(* The inductive invariant that makes it hold: where an operator stands    *)
(* among its rows follows from where its children stand among theirs.      *)
(***************************************************************************)
Out(n) == Denotation[plan][data][n]

\* The rows a filter or a projection makes of the first k rows of its child.
Made(n, k) ==
  IF Kind(n) = "Filter"
  THEN Len(KeptOf(Out(Child(n)), plan[n].cond, Schema(Child(n)))[k])
  ELSE k

\* A row was returned to n, which has not dealt with it yet.
Pending(n) == IF OnTop(n) /\ ret.ok THEN 1 ELSE 0

ScanPosition(n) ==
  (Kind(n) = "TableScan" /\ live[n]) =>
    p_next_id[n] = IF fetched[n] < Len(Out(n)) THEN fetched[n] ELSE NullId

UnaryPosition(n) ==
  Kind(n) \in {"Filter", "Projection"} =>
    /\ (live[n] /\ Resting(n)) => fetched[n] = Made(n, fetched[Child(n)])
    /\ pc[n] = "pulling" => fetched[n] = Made(n, fetched[Child(n)] - Pending(n))

\* Rows of the outer tuples a join is done with; it holds the next one in l_tp.
JoinPosition(n) ==
  LET L     == LeftChild(n)
      R     == RightChild(n)
      outer == (fetched[L] - 1) * Len(Out(R))
      holds == fetched[L] \in 1 .. Len(Out(L)) /\ l_tp[n] = Out(L)[fetched[L]]
  IN  Kind(n) = "BinaryJoin" =>
        /\ (live[n] /\ Resting(n)) => holds /\ fetched[n] = outer + fetched[R]
        /\ pc[n] = "pull_right" => holds /\ fetched[n] = outer + fetched[R] - Pending(n)
        /\ pc[n] = "pull_left" => fetched[n] = (fetched[L] - Pending(n)) * Len(Out(R))
        /\ pc[n] = "reopen_right" => holds /\ fetched[n] = outer
        /\ pc[n] = "open_right" => fetched[L] = 0
        /\ pc[n] = "open_first" => fetched[L] = Pending(n) /\ fetched[R] = 0

PositionOK(n) ==
  /\ live[n] => fetched[n] <= Len(Out(n))
  /\ ScanPosition(n)
  /\ UnaryPosition(n)
  /\ JoinPosition(n)

\* What was returned to the node on top tells where the callee stands.
AnswerOK ==
  (~Idle /\ pc[Top] \in Waits) =>
    LET w == pc[Top]
        c == Callee(Top, w)
    IN  /\ Called(w) = "open" => IF ret.ok THEN fetched[c] = 0 ELSE Out(c) = <<>>
        /\ Called(w) = "get_next" =>
             IF ret.ok
             THEN fetched[c] \in 1 .. Len(Out(c)) /\ ret.tp = Out(c)[fetched[c]]
             ELSE fetched[c] = Len(Out(c))

CursorInv == IInv /\ (\A n \in Nodes : PositionOK(n)) /\ AnswerOK

(***************************************************************************)
(* close() of the root reaches every scan: when it returns, no scan holds  *)
(* a tuple id.  Without it a scan keeps the id it had when the query       *)
(* stopped (a join whose open was cut short, an exception).                *)
(***************************************************************************)
CloseReachesEveryScan ==
  [][(OnTop(Root) /\ MethodOf(pc[Root]) = "close" /\ Idle') =>
       \A n \in Nodes : p_next_id'[n] = NullId]_vars

(* The inductive invariant that makes it hold. *)

\* No scan at or below n holds a tuple id.
ClosedBelow(n) ==
  \E below \in SUBSET Nodes :
    /\ n \in below
    /\ \A m \in below : ChildrenOf(plan, m) \subseteq below /\ p_next_id[m] = NullId

\* Only scans hold ids, a join closes its left child first, and a close that has
\* returned to its caller has closed all there is below the callee.
ClosingOK ==
  /\ \A n \in Nodes :
       /\ Kind(n) # "TableScan" => p_next_id[n] = NullId
       /\ pc[n] = "close_right" => ClosedBelow(LeftChild(n))
  /\ (~Idle /\ pc[Top] \in Waits /\ Called(pc[Top]) = "close") =>
       ClosedBelow(Callee(Top, pc[Top]))

(***************************************************************************)
(* All that is known of a reachable state: its shape (IInv), where every   *)
(* operator stands among its rows, and what has been closed.               *)
(***************************************************************************)
TreeInv == CursorInv /\ ClosingOK

(***************************************************************************)
(* The operator at the root implements the contract of PhysicalOperator:   *)
(* the steps of the tree below it are internal, and each call it is given  *)
(* is answered, once and as a Cursor over the rows of the plan answers.    *)
(***************************************************************************)
C == INSTANCE Cursor WITH
       RowSeqs <- Seq(Tuples),
       rows    <- Denotation[plan][data][Root],
       faulty  <- Faulty(plan),
       live    <- live[Root],
       pos     <- fetched[Root],
       busy    <- IF Idle THEN "none" ELSE MethodOf(pc[Root]),
       out     <- IF Idle THEN ret ELSE [ok |-> FALSE, tp |-> <<>>, threw |-> FALSE]

ImplementsCursor == C!Spec
=============================================================================
