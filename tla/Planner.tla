------------------------------ MODULE Planner ------------------------------
(***************************************************************************)
(* Planner::plan_select (src/planner/planner.cpp): the plan of a select    *)
(* statement is a multi-way join of the scans of its relations, a filter   *)
(* for each of its conditions, and a projection on its attributes.         *)
(*                                                                         *)
(* A statement is [schema, conditions, attributes] (SelectStmt, after      *)
(* preprocessing: every column that is read is in the schema).  Its schema *)
(* lists the columns of the relations of FROM, twice if a relation is      *)
(* listed twice.                                                           *)
(***************************************************************************)
EXTENDS PlanHeap

CONSTANT Statements

StatementsOk(st) ==
  /\ st.schema \in Schemas \ {<<>>}
  /\ st.conditions \in Seq(Conditions)
  /\ \A i \in DOMAIN st.conditions : Resolvable(st.conditions[i], st.schema)
  /\ \A i \in DOMAIN st.attributes : HasColumn(st.schema, st.attributes[i])

ASSUME StatementsAssumption == \A st \in Statements : StatementsOk(st)

VARIABLES
  stmt,       \* the statement
  planning,   \* "ready", "scans", "filters", "done"
  pending,    \* its relations that are not in the join yet
  taken       \* how many of its conditions were moved into the plan

plannerVars == <<heap, root, stmt, planning, pending, taken>>

\* Schema::get_relations and Schema::get_relation_schema (module Schema).
Relations(sch) == {sch[i].relation : i \in DOMAIN sch}

\* Bug: a column of a relation that is listed twice is taken twice.
RelationSchema_twice(sch, rel) == SelectSeq(sch, LAMBDA c : c.relation = rel)

RelationSchema(sch, rel) ==
  LET Last(i) == sch[i].relation = rel /\ AttributeId(sch, sch[i]) = i
      kept == SelectSeq([i \in DOMAIN sch |-> i], Last)
  IN  [k \in DOMAIN kept |-> sch[kept[k]]]

-----------------------------------------------------------------------------
PlanMultiJoin ==
  /\ planning = "ready"
  /\ heap' = MultiJoinPlanNode(heap)
  /\ root' = Len(heap')
  /\ pending' = Relations(stmt.schema)
  /\ planning' = "scans"
  /\ UNCHANGED <<stmt, taken>>

\* get_relations() lists the keys of an unordered_map: any order is possible.
PlanScan ==
  /\ planning = "scans"
  /\ \E rel \in pending :
       LET h == TableScanPlanNode(heap, rel, RelationSchema(stmt.schema, rel))
       IN  /\ heap' = append_child(h, root, Len(h))
           /\ pending' = pending \ {rel}
  /\ planning' = IF pending' = {} THEN "filters" ELSE "scans"
  /\ UNCHANGED <<root, stmt, taken>>

\* The condition is moved out of the statement.
PlanFilter ==
  /\ planning = "filters" /\ taken < Len(stmt.conditions)
  /\ heap' = FilterPlanNode(heap, root, stmt.conditions[taken + 1])
  /\ root' = Len(heap')
  /\ taken' = taken + 1
  /\ UNCHANGED <<stmt, planning, pending>>

\* Bug: not every condition is taken.
PlanProjection_early ==
  /\ planning = "filters"
  /\ heap' = ProjectionPlanNode(heap, root, stmt.attributes)
  /\ root' = Len(heap')
  /\ planning' = "done"
  /\ UNCHANGED <<stmt, pending, taken>>

PlanProjection ==
  /\ planning = "filters" /\ taken = Len(stmt.conditions)
  /\ heap' = ProjectionPlanNode(heap, root, stmt.attributes)
  /\ root' = Len(heap')
  /\ planning' = "done"
  /\ UNCHANGED <<stmt, pending, taken>>

PlannerInit ==
  /\ stmt \in Statements
  /\ heap = <<>> /\ root = Null
  /\ planning = "ready" /\ pending = {} /\ taken = 0

PlannerStep == PlanMultiJoin \/ PlanScan \/ PlanFilter \/ PlanProjection

-----------------------------------------------------------------------------
(***************************************************************************)
(* The answer of a statement, from the meaning of SQL: a row of each       *)
(* relation, in every combination that satisfies all conditions, each      *)
(* projected on the attributes.  Rows have no order but are counted.       *)
(***************************************************************************)
RowsIn(db, rel) == IF rel \in DOMAIN db THEN db[rel] ELSE <<>>

Combinations(st, db) ==
  LET rels == Relations(st.schema)
      all  == [rels -> UNION {DOMAIN RowsIn(db, rel) : rel \in rels}]
  IN  {c \in all : \A rel \in rels : c[rel] \in DOMAIN RowsIn(db, rel)}

Cell(st, db, c, col) ==
  RowsIn(db, col.relation)[c[col.relation]]
    [AttributeId(RelationSchema(st.schema, col.relation), col)]

Satisfies(st, db, c) ==
  \A i \in DOMAIN st.conditions :
    LET cond == st.conditions[i]
    IN  [k \in DOMAIN cond.cols |-> Cell(st, db, c, cond.cols[k])] \in cond.sat

AnswerOf(st, db, c) ==
  [k \in DOMAIN st.attributes |-> Cell(st, db, c, st.attributes[k])]

\* How often tp is in the answer.
Occurrences(st, db, tp) ==
  Cardinality({c \in Combinations(st, db) : Satisfies(st, db, c) /\ AnswerOf(st, db, c) = tp})

IsAnswer(st, db, rows) ==
  LET seen == {rows[i] : i \in DOMAIN rows}
  IN  /\ \A tp \in seen : Cardinality({i \in DOMAIN rows : rows[i] = tp}) = Occurrences(st, db, tp)
      /\ \A c \in Combinations(st, db) : Satisfies(st, db, c) => AnswerOf(st, db, c) \in seen

(***************************************************************************)
(* The plan that is handed out -- by the planner, and again by the         *)
(* optimizer -- answers the statement, whatever order the relations came   *)
(* in: each column is found in the scan it belongs to, every condition is  *)
(* taken once, and a relation listed twice is scanned once.                *)
(***************************************************************************)
PlanAnswersStatement ==
  (planning = "done" /\ root # Null) =>
    \A db \in Databases : IsAnswer(stmt, db, RowsOf(heap, db)[root])
=============================================================================
