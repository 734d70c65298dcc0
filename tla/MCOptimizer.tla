----------------------------- MODULE MCOptimizer -----------------------------
(* Optimizer on plans as the planner and the unit tests build them. *)
EXTENDS Optimizer, MCPlans

\* A multi-way join of two and of three plans.
Multi2(p, q) ==
  LET h == MultiJoinPlanNode(Beside(p, q))
  IN  append_child(append_child(h, Len(h), Len(p)), Len(h), Len(h) - 1)

Multi3(p, q, r) ==
  LET h == MultiJoinPlanNode(Beside(Beside(p, q), r))
  IN  append_child(append_child(append_child(h, Len(h), Len(p)),
                                Len(h), Len(p) + Len(q)), Len(h), Len(h) - 1)

Multi1(p) == LET h == MultiJoinPlanNode(p) IN append_child(h, Len(h), Len(p))

True == RawCondition(TRUE)

\* (S.a = v or G.a = v) reads S, then G
Either(c1, c2, v) ==
  [cols |-> <<c1, c2>>, sat |-> {<<x, y>> \in MCValues \X MCValues : x = v \/ y = v}]

\* As the planner builds them.
OneTable == Projection(Filter(Filter(Multi1(ScanS), Eq(Sa, 1)), Eq(Sb, 0)), <<Sb>>)
TwoTables ==
  Projection(Filter(Filter(Filter(Multi2(ScanG, ScanS), Eq(Sa, 1)), EqCol(Sa, Ga)), True),
             <<Sb, Ga>>)
ThreeTables ==
  Projection(
    Filter(Filter(Filter(Filter(Multi3(ScanS, ScanG, ScanC), EqCol(Ga, Sa)), Eq(Cc, 2)),
                  Either(Sa, Ga, 1)),
           EqCol(Ga, Cc)),
    <<Cc, Sb>>)

\* As the tests build them: nested joins, filters and projections in between.
Nested ==
  Multi3(Projection(ScanS, <<Sa>>), Filter(ScanG, Eq(Ga, 1)), Multi2(ScanC, ScanC))
JoinOfMulti == Projection(Join(ScanS, Multi2(ScanG, ScanC)), <<Cc>>)
FilteredInside == Filter(Join(Filter(JoinSG, EqCol(Sa, Ga)), ScanC), Eq(Ga, 1))
AboveProjection ==
  Filter(Projection(Join(ScanC, Projection(JoinSG, <<Sa, Ga>>)), <<Ga, Cc>>), EqCol(Cc, Ga))
SelfJoin == Filter(Filter(Join(Join(ScanS, ScanG), ScanS), Eq(Sa, 1)), EqCol(Sa, Ga))
Unknown == Filter(Join(ScanS, ScanG), Eq(Cc, 1))
\* S and G differ before C is looked up: the filter stays and fails later.
UnknownLast == Filter(Join(ScanS, ScanG), [cols |-> <<Sa, Ga, Cc>>, sat |-> {<<1, 1, 1>>}])
UnknownSecond == Filter(Join(ScanS, ScanG), EqCol(Ga, Cc))

AllGiven ==
  {[heap |-> p, root |-> Len(p)] :
     p \in {ScanS, OneTable, TwoTables, ThreeTables, Nested, JoinOfMulti, FilteredInside,
            AboveProjection, SelfJoin, Unknown, UnknownSecond, UnknownLast}}

SomeDatabases ==
  {[S |-> s, G |-> g, C |-> c] :
     s \in {<<>>, <<<<0, 0>>, <<1, 2>>>>, <<<<1, 0>>, <<1, 0>>>>},
     g \in {<<<<1>>>>, <<<<0>>, <<1>>>>}, c \in {<<<<1>>, <<2>>>>}}
=============================================================================
