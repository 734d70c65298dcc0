---------------------------- MODULE MCPreprocess ----------------------------
(* Two relations that share the attribute a; three texts, of which 1 and 2   *)
(* are dates, in the opposite order.                                        *)
EXTENDS Preprocess, TLC

Item2(rel, attr, type) == [relation_ |-> rel, attribute_ |-> attr, type_ |-> type]

MCCatalog ==
  ("S" :> <<Item2("S", "a", "int"), Item2("S", "d", "date")>>)
    @@ ("G" :> <<Item2("G", "a", "int"), Item2("G", "n", "string")>>)

MCItems == UNION {{MCCatalog[rel][i] : i \in DOMAIN MCCatalog[rel]} : rel \in DOMAIN MCCatalog}

MCDateOf == (1 :> 12) @@ (2 :> 11)

MCCells == [t \in ValueTypes |-> IF t = "date" THEN {11, 12} ELSE {0, 1}]

-----------------------------------------------------------------------------
Query(rels, attrs, preds_, root) ==
  [relations |-> rels, attributes |-> attrs, preds |-> preds_, root |-> root]

Number(n) == OperandVal(Value("int", n))
Text(n) == OperandVal(Value("string", n))
Sa == OperandAttr("S", "a")

\* One leaf as the whole condition: every pair of operands, every operator.
MCOperands ==
  {Sa, Number(1), OperandVal(Value("float", 1)), Text(0), Text(1), Text(2),
   OperandAttr("", "a"), OperandAttr("", "d"), OperandAttr("S", "d"), OperandAttr("", "n"),
   OperandAttr("G", "d"), OperandAttr("", "x"), OperandAttr("X", "a")}

OneLeaf ==
  {Query(<<"S", "G">>, <<Attribute("", "d")>>, <<PredicateLeaf("=", l, r)>>, 1) :
     l \in MCOperands, r \in MCOperands}
  \cup
  {Query(<<"S">>, <<Attribute("S", "a")>>, <<PredicateLeaf(op, l, r)>>, 1) :
     op \in CompareOps, l \in {OperandAttr("", "a"), Number(0), Number(1)}, r \in {Sa, Number(0), Number(1)}}
  \cup
  {Query(<<"S">>, <<Attribute("S", "a")>>, <<PredicateLeaf(op, l, r)>>, 1) :
     op \in CompareOps, l \in {OperandAttr("", "d")}, r \in {Text(1), Text(2)}}

\* Lists of relations and attributes.
Lists ==
  {Query(rels, attrs, <<>>, NoPredicate) :
     rels \in {<<"S">>, <<"S", "G">>, <<"G", "S">>, <<"S", "S">>, <<"X">>, <<"S", "X">>},
     attrs \in UNION {[1 .. n -> {Attribute("", "*"), Attribute("S", "*"), Attribute("S", "a"),
                                  Attribute("", "a"), Attribute("", "d"), Attribute("", "x")}] :
                      n \in 1 .. 2}}

\* Trees of connectives over leaves; a tree is its nodes, the root last.
Shift(t, n) ==
  [i \in DOMAIN t |-> [t[i] EXCEPT !.child = [k \in DOMAIN @ |-> @[k] + n]]]

Not(t) == Append(t, Connective("Not", <<Len(t)>>))
Binary(kind, l, r) ==
  l \o Shift(r, Len(l)) \o <<Connective(kind, <<Len(l), Len(l) + Len(r)>>)>>

Leaves ==
  {<<PredicateLeaf("=", OperandAttr("", "d"), Text(1))>>,  \* becomes a date
   <<PredicateLeaf("<", Number(0), Sa)>>,
   <<PredicateLeaf("<=", Number(0), Number(0))>>,                \* folds to true
   <<PredicateLeaf(">", Number(0), Number(0))>>}                 \* folds to false

Over(T, U) ==
  {Not(t) : t \in T} \cup {Binary(kind, l, r) : kind \in {"And", "Or"}, l \in T, r \in U}

Depth2 == Leaves \cup Over(Leaves, Leaves)
Depth3 == Depth2 \cup Over(Depth2, Depth2)

Trees == {Query(<<"S">>, <<Attribute("", "*")>>, t, Len(t)) : t \in Depth3}

MCQueries == OneLeaf \cup Lists \cup Trees
=============================================================================
