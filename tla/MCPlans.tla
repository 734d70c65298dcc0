------------------------------- MODULE MCPlans -------------------------------
(***************************************************************************)
(* Relations, rows and plans on which TLC checks the operators.            *)
(*                                                                         *)
(* Three relations: S(a, b), G(a) and C(c).  S and G share an attribute    *)
(* name, so that a column is only found by relation and attribute.         *)
(***************************************************************************)
EXTENDS PlanNode

Sa == Column("S", "a")
Sb == Column("S", "b")
Ga == Column("G", "a")
Cc == Column("C", "c")

\* Plans from plans: the root of an argument becomes a child of the new root.
Filter(p, cond) == FilterPlanNode(p, Len(p), cond)
Projection(p, attrs) == ProjectionPlanNode(p, Len(p), attrs)

\* Two plans in one heap, the nodes of q after those of p.
Beside(p, q) ==
  p \o [i \in DOMAIN q |->
         [q[i] EXCEPT !.child = [k \in DOMAIN @ |-> @[k] + Len(p)]]]

Join(p, q) == BinaryJoinPlanNode(Beside(p, q), Len(p), Len(p) + Len(q))

ScanS == TableScanPlanNode(<<>>, "S", <<Sa, Sb>>)
ScanG == TableScanPlanNode(<<>>, "G", <<Ga>>)
ScanC == TableScanPlanNode(<<>>, "C", <<Cc>>)

MCValues == 0 .. 2

\* column = v, and column1 = column2
Eq(c, v) == [cols |-> <<c>>, sat |-> {<<v>>}]
EqCol(c1, c2) == [cols |-> <<c1, c2>>, sat |-> {<<v, v>> : v \in MCValues}]

JoinSG == Join(ScanS, ScanG)

\* select S.b from S where S.a = 1
PlanFiltered == Projection(Filter(ScanS, Eq(Sa, 1)), <<Sb>>)

\* select G.a, S.b from S, G
PlanJoin == Projection(JoinSG, <<Ga, Sb>>)

\* select S.b, S.a from S, G where S.a = G.a and G.a = 1
PlanPushed ==
  Projection(
    Filter(Join(ScanS, Filter(ScanG, Eq(Ga, 1))),
                   EqCol(Sa, Ga)), <<Sb, Sa>>)

\* select C.c, S.b from S, G, C where S.b = 0 and G.a = C.c: left-deep
PlanLeftDeep ==
  Projection(
    Filter(
      Join(Join(Filter(ScanS, Eq(Sb, 0)), ScanG),
                         ScanC),
      EqCol(Ga, Cc)), <<Cc, Sb>>)

\* The inner side of a join is itself a join under a filter.
PlanRightDeep ==
  Join(ScanC, Filter(JoinSG, EqCol(Sa, Ga)))

\* where false
PlanNothing == Filter(JoinSG, RawCondition(FALSE))

\* A filter above a projection that has dropped its column: built by hand,
\* evaluate() throws on the first row.
PlanDropped ==
  Filter(Projection(JoinSG, <<Sb>>), Eq(Ga, 1))

AllPlans == {ScanS, PlanFiltered, PlanJoin, PlanPushed, PlanLeftDeep,
             PlanRightDeep, PlanNothing, PlanDropped}

\* Up to two rows for each relation; C may be missing from the manager.
SRows == {<<>>, <<<<1, 0>>>>, <<<<0, 0>>, <<1, 2>>>>, <<<<1, 0>>, <<1, 0>>>>}
GRows == {<<>>, <<<<1>>>>, <<<<0>>, <<1>>>>}
CRows == {<<>>, <<<<1>>, <<2>>>>}

AllDatabases ==
  {[S |-> s, G |-> g, C |-> c] : s \in SRows, g \in GRows, c \in CRows}
  \cup {[S |-> s, G |-> g] : s \in SRows, g \in GRows}
=============================================================================
