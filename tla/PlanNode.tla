------------------------------ MODULE PlanNode ------------------------------
(***************************************************************************)
(* The plan nodes of include/planner/plan_node.h.                          *)
(*                                                                         *)
(* A plan is a tree of nodes that own their children.  Here it is a        *)
(* sequence of node records in which every child stands before its         *)
(* parent; the last record is the root (module PlanHeap lifts that order   *)
(* for plans that are being changed).  The constructors below are those of *)
(* the C++ classes: the output schema of a node is computed when the node  *)
(* is built and kept in it, so that it can be stale or wrong.              *)
(*                                                                         *)
(* Abstracted: attribute types (a column is a relation and an attribute),  *)
(* the text of a predicate (a condition is the columns it reads and the    *)
(* set of value sequences that satisfy it).                                *)
(***************************************************************************)
EXTENDS Integers, Sequences

CONSTANTS
  Values,      \* the values a cell of a table may hold
  Databases    \* the contents the storage manager may have: relation -> rows

Columns == [relation : STRING, attribute : STRING]
Tuples == Seq(Values)
Schemas == Seq(Columns)
Conditions == [cols : Seq(Columns), sat : SUBSET Seq(Values)]

\* The relation of a node that scans none.
NoTable == ""

\* The nodes an executor takes.
PlanNodes ==
  [kind : {"TableScan", "Filter", "Projection", "BinaryJoin"},
   rel : STRING \cup {NoTable}, child : Seq(Nat), cond : Conditions, schema : Schemas]

Column(rel, attr) == [relation |-> rel, attribute |-> attr]

(***************************************************************************)
(* Schema lookups by column.  The maps of Schema are filled in the order   *)
(* of the schema array and a later item overwrites an earlier one, so the  *)
(* id of a column is its last position (module Schema shows that).         *)
(***************************************************************************)
HasColumn(sch, c) == \E i \in DOMAIN sch : sch[i] = c

AttributeId(sch, c) ==
  CHOOSE i \in DOMAIN sch :
    sch[i] = c /\ \A j \in DOMAIN sch : sch[j] = c => j <= i

NoCondition == [cols |-> <<>>, sat |-> {}]

\* PredicateRaw: reads no column, constant value.
RawCondition(value) == [cols |-> <<>>, sat |-> IF value THEN {<<>>} ELSE {}]

\* The relations a condition reads, operand by operand.
RelationsOf(cond) == [i \in DOMAIN cond.cols |-> cond.cols[i].relation]

(***************************************************************************)
(* The constructors.  h is the heap the nodes are allocated in, children   *)
(* are given by their place in it (as the C++ ones take a unique_ptr); the *)
(* new node is the last one.                                               *)
(***************************************************************************)
Node(kind, rel, child, cond, schema) ==
  [kind |-> kind, rel |-> rel, child |-> child, cond |-> cond, schema |-> schema]

\* What build_output_schema() computes, class by class.
FilterSchema(h, n) == h[h[n].child[1]].schema

\* A projection keeps its attributes_ as the names of its columns: the item that
\* is found for an attribute has its name.
ProjectionSchema(h, n) ==
  LET shc == h[h[n].child[1]].schema
  IN  [i \in DOMAIN h[n].schema |-> shc[AttributeId(shc, h[n].schema[i])]]

JoinSchema(h, n) == h[h[n].child[1]].schema \o h[h[n].child[2]].schema

OutputSchema(h, n) ==
  CASE h[n].kind = "Filter"     -> FilterSchema(h, n)
    [] h[n].kind = "Projection" -> ProjectionSchema(h, n)
    [] h[n].kind = "BinaryJoin" -> JoinSchema(h, n)

build_output_schema(h, n) == [h EXCEPT ![n].schema = OutputSchema(h, n)]

TableScanPlanNode(h, rel, sch) ==
  Append(h, Node("TableScan", rel, <<>>, NoCondition, sch))

FilterPlanNode(h, c, condition) ==
  Append(h, Node("Filter", NoTable, <<c>>, condition, h[c].schema))

ProjectionPlanNode(h, c, attributes) ==
  build_output_schema(
    Append(h, Node("Projection", NoTable, <<c>>, NoCondition, attributes)), Len(h) + 1)

BinaryJoinPlanNode(h, lc, rc) ==
  build_output_schema(
    Append(h, Node("BinaryJoin", NoTable, <<lc, rc>>, NoCondition, <<>>)), Len(h) + 1)

MultiJoinPlanNode(h) == Append(h, Node("MultiJoin", NoTable, <<>>, NoCondition, <<>>))

append_child(h, m, c) ==
  [h EXCEPT ![m].child = Append(@, c), ![m].schema = @ \o h[c].schema]

-----------------------------------------------------------------------------
(***************************************************************************)
(* The shape of a finished plan, as the operators rely on it.              *)
(***************************************************************************)
RootOf(p) == Len(p)

ChildrenOf(p, n) == {p[n].child[k] : k \in DOMAIN p[n].child}

Arity(kind) ==
  CASE kind = "TableScan" -> 0
    [] kind \in {"Filter", "Projection"} -> 1
    [] kind = "BinaryJoin" -> 2

\* The schema of a node is the one its constructor gives it.
SchemaOk(p, n) ==
  LET node == p[n]
      L    == p[node.child[1]].schema
      R    == p[node.child[2]].schema
  IN  CASE node.kind = "TableScan"  -> TRUE
        [] node.kind = "Filter"     -> node.schema = L
        [] node.kind = "Projection" -> \A i \in DOMAIN node.schema : HasColumn(L, node.schema[i])
        [] node.kind = "BinaryJoin" -> node.schema = L \o R

\* unique_ptr: every node but the root has an owner, and only one.
WellFormed(p) ==
  /\ Len(p) > 0
  /\ \A n \in DOMAIN p :
       /\ Len(p[n].child) = Arity(p[n].kind)
       /\ ChildrenOf(p, n) \subseteq 1 .. n - 1
       /\ p[n].kind = "BinaryJoin" => p[n].child[1] # p[n].child[2]
       /\ SchemaOk(p, n)
  /\ \A n \in 1 .. Len(p) - 1 : \E m \in DOMAIN p : n \in ChildrenOf(p, m)
  /\ \A m1, m2 \in DOMAIN p :
       ChildrenOf(p, m1) \cap ChildrenOf(p, m2) # {} => m1 = m2

-----------------------------------------------------------------------------
(***************************************************************************)
(* Reference semantics: the rows each node of a plan stands for.  It is    *)
(* written from what the SQL operators mean, not from the operators' code; *)
(* module Operators is checked against it.  A filter that reads a column   *)
(* its input does not have lets no row through (it throws instead).        *)
(***************************************************************************)
Evaluate(cond, tp, sch) ==
  [i \in DOMAIN cond.cols |-> tp[AttributeId(sch, cond.cols[i])]] \in cond.sat

Resolvable(cond, sch) == \A i \in DOMAIN cond.cols : HasColumn(sch, cond.cols[i])

ProjectRow(tp, from, to) == [i \in DOMAIN to |-> tp[AttributeId(from, to[i])]]

\* All pairs, the left row varying slowest.
Product(L, R) ==
  [k \in 1 .. Len(L) * Len(R) |->
     L[((k - 1) \div Len(R)) + 1] \o R[((k - 1) % Len(R)) + 1]]

Passes(tp, cond, sch) == Resolvable(cond, sch) /\ Evaluate(cond, tp, sch)

\* What is left of the first k rows, for each k.
KeptOf(rows, cond, sch) ==
  LET kept[k \in 0 .. Len(rows)] ==
        IF k = 0 THEN <<>>
        ELSE IF Passes(rows[k], cond, sch) THEN Append(kept[k - 1], rows[k])
             ELSE kept[k - 1]
  IN  kept

FilterRows(rows, cond, sch) == KeptOf(rows, cond, sch)[Len(rows)]

ProjectRows(rows, from, to) == [i \in DOMAIN rows |-> ProjectRow(rows[i], from, to)]

\* The rows of node n, given the rows of the nodes below it.
RowsAt(p, db, n, rows) ==
  LET node == p[n]
      c1   == node.child[1]
      c2   == node.child[2]
  IN  CASE node.kind = "TableScan" ->
             IF node.rel \in DOMAIN db THEN db[node.rel] ELSE <<>>
        [] node.kind = "Filter"     -> FilterRows(rows[c1], node.cond, p[c1].schema)
        [] node.kind = "Projection" -> ProjectRows(rows[c1], p[c1].schema, node.schema)
        [] node.kind = "BinaryJoin" -> Product(rows[c1], rows[c2])
        [] node.kind = "MultiJoin"  ->
             LET first[k \in 0 .. Len(node.child)] ==
                   IF k = 0 THEN << <<>> >>
                   ELSE Product(first[k - 1], rows[node.child[k]])
             IN  first[Len(node.child)]

RowsOf(p, db) == LET rows[n \in DOMAIN p] == RowsAt(p, db, n, rows) IN rows

\* Some filter of the plan reads a column that the node below does not have.
Faulty(p) ==
  \E n \in DOMAIN p :
    p[n].kind = "Filter" /\ ~Resolvable(p[n].cond, p[p[n].child[1]].schema)
=============================================================================
