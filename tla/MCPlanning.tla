----------------------------- MODULE MCPlanning -----------------------------
(* Statements over the relations of MCPlans, planned and optimized. *)
EXTENDS Planning, MCPlans

S == <<Sa, Sb>>
G == <<Ga>>
C == <<Cc>>

Select(attributes, schema, conditions) ==
  [schema |-> schema, conditions |-> conditions, attributes |-> attributes]

Either(c1, c2, v) ==
  [cols |-> <<c1, c2>>, sat |-> {<<x, y>> \in MCValues \X MCValues : x = v \/ y = v}]

MCStatements ==
  {\* select S.b, S.a from S where S.a = 1 and true
   Select(<<Sb, Sa>>, S, <<Eq(Sa, 1), RawCondition(TRUE)>>),
   \* select G.a, S.b from S, G where S.a = G.a and G.a = 1 and S.b = 0
   Select(<<Ga, Sb>>, S \o G, <<EqCol(Sa, Ga), Eq(Ga, 1), Eq(Sb, 0)>>),
   \* select S.a, S.a from S, G, S where S.a = G.a
   Select(<<Sa, Sa>>, S \o G \o S, <<EqCol(Sa, Ga)>>),
   \* select C.c, S.b from S, G, C where S.a = G.a and G.a = C.c and (S.b = 0 or C.c = 1)
   Select(<<Cc, Sb>>, S \o G \o C, <<EqCol(Sa, Ga), EqCol(Ga, Cc), Either(Sb, Cc, 1)>>),
   \* select S.b from C, S where false
   Select(<<Sb>>, C \o S, <<RawCondition(FALSE)>>)}

MCDatabases ==
  {[S |-> s, G |-> g, C |-> c] :
     s \in {<<>>, <<<<0, 0>>, <<1, 2>>>>, <<<<1, 0>>, <<1, 0>>>>},
     g \in {<<<<1>>>>, <<<<0>>, <<1>>>>}, c \in {<<<<1>>, <<2>>>>}}
  \cup {[S |-> <<<<1, 0>>>>, G |-> <<<<1>>, <<1>>>>]}

NoGivenPlans == {}
=============================================================================
