----------------------------- MODULE Preprocess -----------------------------
(***************************************************************************)
(* Preprocessor::preprocess_select (src/preprocess/preprocess.cpp) and the *)
(* SelectStmt it builds (src/preprocess/stmt/select_stmt.cpp).             *)
(*                                                                         *)
(* A query is rewritten in place: relations fill a Schema (module Schema), *)
(* attributes and operands get their relations, string literals that meet  *)
(* a date column become dates.  Then leaves of two values are folded into  *)
(* constants, bottom up, and the condition is split at its top ANDs.       *)
(*                                                                         *)
(* Every failure is an exception that discards the query: the branches     *)
(* that return false or nullptr instead are never taken.                   *)
(***************************************************************************)
EXTENDS Schema, QueryMeaning

CONSTANTS
  Cells,       \* the values that a row may have in a column of each type (TLC)
  Queries      \* [relations, attributes, preds, root]: what the parser builds

ASSUME CatalogAssumption ==
  /\ \A rel \in DOMAIN Catalog : Catalog[rel] \in Seq(SchemaItems) \ {<<>>}
  /\ DOMAIN Catalog \subseteq STRING
  /\ \A rel \in DOMAIN Catalog : \A i \in DOMAIN Catalog[rel] :
       Catalog[rel][i].relation_ = rel /\ Catalog[rel][i].attribute_ # "*"
  /\ \A rel \in DOMAIN Catalog : \A i, j \in DOMAIN Catalog[rel] :
       Catalog[rel][i].attribute_ = Catalog[rel][j].attribute_ => Catalog[rel][i] = Catalog[rel][j]

ASSUME DateOfAssumption == \A text \in DOMAIN DateOf : DateOf[text] \in Int

ASSUME CellsAssumption == \A t \in DOMAIN Cells : Cells[t] \subseteq Int

SelectQueries ==
  [relations : Seq(STRING), attributes : Seq(AttributeNames), preds : Seq(Predicates), root : Nat]

ASSUME QueriesAssumption ==
  \A q \in Queries :
    /\ q \in SelectQueries /\ IsCondition(q.preds, q.root)
    /\ Known(q.relations) => Len(ItemsOf(q.relations)) <= MaxItems

VARIABLES
  query,       \* history: the query as it was parsed
  stage,       \* where preprocess_select is
  relations,   \* relations still to be resolved
  items,       \* items of the current relation still to be appended
  attributes,  \* SelectQuery::attributes_, then SelectStmt::attributes_
  preds,       \* every predicate node that was allocated
  condition,   \* SelectQuery::conditions_, or the local ptr
  resolved,    \* attributes or leaves that are resolved
  activations, \* pre_compute_simple_leaves: its activations, the last on top
  folded,      \* the pointer the last of them returned
  pending,     \* split_and: the pointers its activations still have to split
  conditions,  \* SelectStmt::conditions_
  printed      \* ResultPrinter::attributes_

schemaVars == <<schema_, rel_map_, attr_map_, mapped>>
queryVars == <<attributes, preds, condition, resolved>>
foldVars == <<activations, folded>>
stmtVars == <<pending, conditions>>
preprocessVars == <<query, stage, relations, items, schemaVars, queryVars, foldVars,
                    stmtVars, printed>>

\* An exception leaves preprocess_select: the query and the statement are gone.
Fail(error) ==
  /\ stage' = error
  /\ UNCHANGED <<query, relations, items, schemaVars, queryVars, foldVars, stmtVars, printed>>

-----------------------------------------------------------------------------
(* resolve_relations *)

UnknownRelation ==
  /\ stage = "relations" /\ items = <<>> /\ relations # <<>>
  /\ Head(relations) \notin DOMAIN Catalog
  /\ Fail("runtime_error")

NextRelation ==
  /\ stage = "relations" /\ items = <<>> /\ relations # <<>>
  /\ Head(relations) \in DOMAIN Catalog
  /\ items' = Catalog[Head(relations)]
  /\ relations' = Tail(relations)
  /\ UNCHANGED <<query, stage, schemaVars, queryVars, foldVars, stmtVars, printed>>

AppendItem ==
  /\ stage = "relations" /\ items # <<>>
  /\ append_schema(Head(items))
  /\ items' = Tail(items)
  /\ UNCHANGED <<query, stage, relations, queryVars, foldVars, stmtVars, printed>>

RelationsResolved ==
  /\ stage = "relations" /\ items = <<>> /\ relations = <<>>
  /\ stage' = "attributes"
  /\ UNCHANGED <<query, relations, items, schemaVars, queryVars, foldVars, stmtVars, printed>>

-----------------------------------------------------------------------------
(* resolve_attributes *)

\* resolve_attribute_item throws on what is unknown or ambiguous ...
Unresolvable(a) ==
  IF a.relation = NoRelation THEN count_relation(a.attribute) # 1
  ELSE ~is_attribute_exists(a.relation, a.attribute)

\* ... and fills in the relation of an unqualified attribute.
resolve_attribute_item(a) ==
  IF a.relation = NoRelation THEN [a EXCEPT !.relation = get_relation(a.attribute)] ELSE a

\* The first star of the list, and what comes of it, decide about all stars.
Stars == {i \in DOMAIN attributes : attributes[i].attribute = "*"}
FirstStar == CHOOSE i \in Stars : \A j \in Stars : i <= j

QualifiedStar ==
  /\ stage = "attributes" /\ Stars # {} /\ attributes[FirstStar].relation # NoRelation
  /\ Fail("logic_error")

\* One star alone stands for the whole list.
ExpandStar ==
  /\ stage = "attributes" /\ Stars # {} /\ attributes[FirstStar].relation = NoRelation
  /\ attributes' = [i \in DOMAIN schema_ |-> Attribute(schema_[i].relation_, schema_[i].attribute_)]
  /\ resolved' = Len(schema_)
  /\ UNCHANGED <<query, stage, relations, items, schemaVars, preds, condition, foldVars,
                 stmtVars, printed>>

ResolveAttribute ==
  /\ stage = "attributes" /\ Stars = {} /\ resolved < Len(attributes)
  /\ ~Unresolvable(attributes[resolved + 1])
  /\ attributes' = [attributes EXCEPT ![resolved + 1] = resolve_attribute_item(@)]
  /\ resolved' = resolved + 1
  /\ UNCHANGED <<query, stage, relations, items, schemaVars, preds, condition, foldVars,
                 stmtVars, printed>>

AttributeFails ==
  /\ stage = "attributes" /\ Stars = {} /\ resolved < Len(attributes)
  /\ Unresolvable(attributes[resolved + 1])
  /\ Fail("runtime_error")

\* The printer gets the attributes; a query without condition gets `true'.
AttributesResolved ==
  /\ stage = "attributes" /\ Stars = {} /\ resolved = Len(attributes)
  /\ printed' = attributes
  /\ IF condition = NoPredicate
     THEN preds' = Append(preds, PredicateRaw(TRUE)) /\ condition' = Len(preds')
     ELSE UNCHANGED <<preds, condition>>
  /\ stage' = "leaves" /\ resolved' = 0
  /\ UNCHANGED <<query, relations, items, schemaVars, attributes, foldVars, stmtVars>>

-----------------------------------------------------------------------------
(* resolve_predicate_leaves: one leaf after the other, from left to right. *)

resolve_operand(oprd) ==
  IF IsAttr(oprd) THEN [attr |-> resolve_attribute_item(oprd.attr)] ELSE oprd

resolve_operand_type(oprd) ==
  IF IsAttr(oprd) THEN get_attribute_schema(oprd.attr.relation, oprd.attr.attribute).type_
  ELSE oprd.val.type

\* A string literal that is compared with a date column.
MeetsDate(oprd, other) ==
  /\ ~IsAttr(oprd) /\ oprd.val.type = "string"
  /\ IsAttr(other) /\ resolve_operand_type(other) = "date"

\* Bug: dates are only looked for on the right.
is_valid_compare_right(l, r) ==
  CASE MeetsDate(r, l) -> r.val.data \in DOMAIN DateOf
    [] OTHER           -> resolve_operand_type(l) = resolve_operand_type(r)

is_valid_compare(l, r) ==
  CASE MeetsDate(l, r) -> l.val.data \in DOMAIN DateOf
    [] MeetsDate(r, l) -> r.val.data \in DOMAIN DateOf
    [] OTHER           -> resolve_operand_type(l) = resolve_operand_type(r)

\* set_value(Date(str)): the string is replaced in its operand.
set_value(oprd, other) ==
  IF MeetsDate(oprd, other) THEN OperandVal(Value("date", DateOf[oprd.val.data])) ELSE oprd

ThisLeaf == LeavesOf(preds, condition)[resolved + 1]

LeafResolves(leaf) ==
  /\ \A i \in DOMAIN leaf.operand :
       IsAttr(leaf.operand[i]) => ~Unresolvable(leaf.operand[i].attr)
  /\ is_valid_compare(resolve_operand(leaf.operand[1]), resolve_operand(leaf.operand[2]))

LeavesAreLeft == stage = "leaves" /\ resolved < Len(LeavesOf(preds, condition))

ResolveLeaf ==
  /\ LeavesAreLeft
  /\ LeafResolves(preds[ThisLeaf])
  /\ LET l == resolve_operand(preds[ThisLeaf].operand[1])
         r == resolve_operand(preds[ThisLeaf].operand[2])
     IN  preds' = [preds EXCEPT ![ThisLeaf].operand = <<set_value(l, r), set_value(r, l)>>]
  /\ resolved' = resolved + 1
  /\ UNCHANGED <<query, stage, relations, items, schemaVars, attributes, condition, foldVars,
                 stmtVars, printed>>

LeafFails ==
  /\ LeavesAreLeft
  /\ ~LeafResolves(preds[ThisLeaf])
  /\ Fail("runtime_error")

Activation(n) == [node |-> n, at |-> "enter", lch |-> NoPredicate]

\* The condition is moved out of the query, to pre_compute_simple_leaves.
LeavesResolved ==
  /\ stage = "leaves" /\ resolved = Len(LeavesOf(preds, condition))
  /\ activations' = <<Activation(condition)>>
  /\ condition' = NoPredicate
  /\ stage' = "folding"
  /\ UNCHANGED <<query, relations, items, schemaVars, attributes, preds, resolved, folded,
                 stmtVars, printed>>

-----------------------------------------------------------------------------
(* pre_compute_simple_leaves *)

This == activations[Len(activations)]

Folding(kinds, at) ==
  /\ stage = "folding"
  /\ preds[This.node].kind \in kinds /\ This.at = at

DestroyPredicates(p, nodes) ==
  [n \in DOMAIN p |-> IF n \in nodes THEN [p[n] EXCEPT !.kind = "Destroyed", !.child = <<>>]
                      ELSE p[n]]

Untouched == UNCHANGED <<query, relations, items, schemaVars, attributes, condition, resolved,
                         conditions, printed>>

\* The caller gets the pointer; the first caller builds the SelectStmt with it.
FoldReturn(n) ==
  /\ activations' = SubSeq(activations, 1, Len(activations) - 1)
  /\ IF Len(activations) = 1
     THEN stage' = "splitting" /\ pending' = <<n>> /\ folded' = NoPredicate
     ELSE folded' = n /\ UNCHANGED <<stage, pending>>
  /\ Untouched

\* Bug: the child is lent, not moved out.
FoldChild_lent(f, k) ==
  /\ activations' = Append([activations EXCEPT ![Len(activations)] = f],
                           Activation(preds[This.node].child[k]))
  /\ folded' = NoPredicate
  /\ UNCHANGED <<stage, preds, pending>> /\ Untouched

\* The activation becomes f and calls itself on child k, which is moved out.
FoldChild(f, k) ==
  /\ activations' = Append([activations EXCEPT ![Len(activations)] = f],
                           Activation(preds[This.node].child[k]))
  /\ preds' = [preds EXCEPT ![This.node].child[k] = NoPredicate]
  /\ folded' = NoPredicate
  /\ UNCHANGED <<stage, pending>> /\ Untouched

\* Bug: every leaf stays as it is.
FoldNothing_simple ==
  /\ Folding({"Raw", "Leaf"}, "enter")
  /\ FoldReturn(This.node)
  /\ UNCHANGED preds

\* Constants, and leaves that read a column, stay as they are.
FoldNothing ==
  /\ Folding({"Raw", "Leaf"}, "enter")
  /\ preds[This.node].kind = "Leaf" => ~check_simple(preds[This.node])
  /\ FoldReturn(This.node)
  /\ UNCHANGED preds

\* A new constant for the leaf; Value::evaluate would throw on two types.
FoldSimpleLeaf ==
  /\ Folding({"Leaf"}, "enter") /\ check_simple(preds[This.node])
  /\ LET leaf  == preds[This.node]
         value == evaluate_values(leaf.op, leaf.operand[1].val, leaf.operand[2].val)
     IN  IF value = "throws" THEN Fail("logic_error")
         ELSE /\ preds' = Append(DestroyPredicates(preds, {This.node}),
                                 PredicateRaw(value = "true"))
              /\ FoldReturn(Len(preds) + 1)

FoldFirst ==
  /\ Folding({"And", "Or", "Not"}, "enter")
  /\ FoldChild([This EXCEPT !.at = "first"], 1)

FoldSecond ==
  /\ Folding({"And", "Or"}, "first")
  /\ FoldChild([This EXCEPT !.at = "second", !.lch = folded], 2)

\* Bug: as if AND and OR were exchanged.
Absorbs_swapped(raw, kind) == preds[raw].value = (kind = "And")

\* The constant absorbs the other side, or leaves it alone.
Absorbs(raw, kind) == preds[raw].value = (kind = "Or")

Keep(raw, other, kind) == IF Absorbs(raw, kind) THEN raw ELSE other

\* One side is constant: the other side or the constant takes the node's place.
FoldConstant ==
  /\ Folding({"And", "Or"}, "second")
  /\ "Raw" \in {preds[This.lch].kind, preds[folded].kind}
  /\ LET raw   == IF preds[This.lch].kind = "Raw" THEN This.lch ELSE folded
         other == IF preds[This.lch].kind = "Raw" THEN folded ELSE This.lch
         kept  == Keep(raw, other, preds[This.node].kind)
     IN  /\ preds' = DestroyPredicates(preds,
                       {This.node} \cup (IF kept = raw THEN SubPredicates(preds, other) ELSE {raw}))
         /\ FoldReturn(kept)

FoldBinary ==
  /\ Folding({"And", "Or"}, "second")
  /\ "Raw" \notin {preds[This.lch].kind, preds[folded].kind}
  /\ preds' = [preds EXCEPT ![This.node].child = <<This.lch, folded>>]
  /\ FoldReturn(This.node)

\* set_value(!get_value()) on the constant below, which is returned.
FoldNotConstant ==
  /\ Folding({"Not"}, "first") /\ preds[folded].kind = "Raw"
  /\ preds' = DestroyPredicates([preds EXCEPT ![folded].value = ~@], {This.node})
  /\ FoldReturn(folded)

FoldNot ==
  /\ Folding({"Not"}, "first") /\ preds[folded].kind # "Raw"
  /\ preds' = [preds EXCEPT ![This.node].child = <<folded>>]
  /\ FoldReturn(This.node)

-----------------------------------------------------------------------------
(* SelectStmt::split_and.  An AND gives up its children one after the other *)
(* and is destroyed; nothing refers to it in between.                       *)

SplitAnd ==
  /\ stage = "splitting" /\ pending # <<>> /\ preds[Head(pending)].kind = "And"
  /\ pending' = preds[Head(pending)].child \o Tail(pending)
  /\ preds' = DestroyPredicates(preds, {Head(pending)})
  /\ UNCHANGED <<stage, foldVars>> /\ Untouched

SplitOther ==
  /\ stage = "splitting" /\ pending # <<>> /\ preds[Head(pending)].kind # "And"
  /\ conditions' = Append(conditions, Head(pending))
  /\ pending' = Tail(pending)
  /\ UNCHANGED <<query, stage, relations, items, schemaVars, queryVars, foldVars, printed>>

StatementBuilt ==
  /\ stage = "splitting" /\ pending = <<>>
  /\ stage' = "done"
  /\ UNCHANGED <<preds, pending, foldVars>> /\ Untouched

-----------------------------------------------------------------------------
PreprocessInit ==
  /\ query \in Queries
  /\ stage = "relations"
  /\ relations = query.relations /\ items = <<>>
  /\ schema_ = <<>> /\ rel_map_ = EmptyMap /\ attr_map_ = EmptyMap /\ mapped = 0
  /\ attributes = query.attributes
  /\ preds = query.preds /\ condition = query.root
  /\ resolved = 0
  /\ activations = <<>> /\ folded = NoPredicate
  /\ pending = <<>> /\ conditions = <<>>
  /\ printed = <<>>

PreprocessNext ==
  \/ UnknownRelation \/ NextRelation \/ AppendItem \/ RelationsResolved
  \/ QualifiedStar \/ ExpandStar \/ ResolveAttribute \/ AttributeFails \/ AttributesResolved
  \/ ResolveLeaf \/ LeafFails \/ LeavesResolved
  \/ FoldNothing \/ FoldSimpleLeaf \/ FoldFirst \/ FoldSecond
  \/ FoldConstant \/ FoldBinary \/ FoldNotConstant \/ FoldNot
  \/ SplitAnd \/ SplitOther \/ StatementBuilt

\* One call, on the caller's thread: it goes on until it returns or throws.
PreprocessSpec ==
  PreprocessInit /\ [][PreprocessNext]_preprocessVars /\ WF_preprocessVars(PreprocessNext)

-----------------------------------------------------------------------------
(* Properties *)

Ends == {"done", "runtime_error", "logic_error"}

PreprocessTypeOK ==
  /\ query \in SelectQueries
  /\ stage \in {"relations", "attributes", "leaves", "folding", "splitting"} \cup Ends
  /\ relations \in Seq(STRING) /\ items \in Seq(SchemaItems)
  /\ TypeOK
  /\ attributes \in Seq(AttributeNames) /\ printed \in Seq(AttributeNames)
  /\ preds \in Seq(Predicates)
  /\ condition \in {NoPredicate} \cup DOMAIN preds
  /\ resolved \in Nat
  /\ activations \in Seq([node : DOMAIN preds, at : {"enter", "first", "second"},
                          lch : {NoPredicate} \cup DOMAIN preds])
  /\ folded \in {NoPredicate} \cup DOMAIN preds
  /\ pending \in Seq(DOMAIN preds) /\ conditions \in Seq(DOMAIN preds)

(***************************************************************************)
(* The unique_ptrs to a predicate: exactly one for every node that is not  *)
(* destroyed, none for one that is.  Folding moves children out before it  *)
(* knows whether their parent is kept: one put back twice or not at all is *)
(* deleted twice, or a condition that is lost.                             *)
(***************************************************************************)
PredicateOwners(n) ==
  (UNION {{<<"child", m, k>> : k \in {j \in DOMAIN preds[m].child : preds[m].child[j] = n}} :
            m \in DOMAIN preds})
  \cup {<<"node", i, 0>> : i \in {x \in DOMAIN activations : activations[x].node = n}}
  \cup {<<"lch", i, 0>> : i \in {x \in DOMAIN activations : activations[x].lch = n}}
  \cup {<<"pending", i, 0>> : i \in {x \in DOMAIN pending : pending[x] = n}}
  \cup {<<"statement", i, 0>> : i \in {x \in DOMAIN conditions : conditions[x] = n}}
  \cup {<<"query", 0, 0>> : x \in {p \in {condition} : p = n}}
  \cup {<<"returned", 0, 0>> : x \in {p \in {folded} : p = n}}

PredicatesAreOwnedOnce ==
  /\ PreprocessTypeOK
  /\ \A n \in DOMAIN preds :
       Cardinality(PredicateOwners(n)) = IF preds[n].kind = "Destroyed" THEN 0 ELSE 1

-----------------------------------------------------------------------------
(* Against what the query means (module QueryMeaning). *)

Rows ==
  {row \in [ColumnsOf(query) -> UNION {[type : {t}, data : Cells[t]] : t \in DOMAIN Cells}] :
     \A c \in ColumnsOf(query) : row[c].type = TypeOf(query, c)}

(***************************************************************************)
(* The conditions of the statement hold of a row, all together, iff the    *)
(* query's condition does, and evaluating them never throws: neither for   *)
(* two types, since the check has rewritten texts into dates, nor for a    *)
(* column, since every operand has its relation.  Name resolution, the     *)
(* date rewrite, folding and splitting together lose and add nothing.      *)
(***************************************************************************)
StatementMeansQuery ==
  stage = "done" =>
    \A row \in Rows :
      LET result(k) == evaluate(preds, conditions[k], row)
      IN  /\ \A k \in DOMAIN conditions : result(k) # "throws"
          /\ (\A k \in DOMAIN conditions : result(k) = "true") <=> Means(query, row)

(***************************************************************************)
(* A query is refused iff it is ill-formed, with the exception of the code *)
(* for it: a relation is unknown, an attribute names no column or several, *)
(* the types of a comparison differ (a text beside a date column must be a *)
(* date), or its first star is qualified.  In particular folding never     *)
(* meets two types.                                                        *)
(***************************************************************************)
RefusesExactly == stage \in Ends => stage = Verdict(query)

(***************************************************************************)
(* The planner makes one filter of each condition, and the optimizer       *)
(* pushes each of them to the columns it reads: there is at least one, no  *)
(* AND is left at the top of one, and unless the whole condition is one    *)
(* constant no constant and no comparison of two constants is left in any. *)
(***************************************************************************)
ConstantsAreFolded ==
  stage = "done" =>
    \/ Len(conditions) = 1 /\ preds[conditions[1]].kind = "Raw"
    \/ /\ conditions # <<>>
       /\ \A k \in DOMAIN conditions :
            /\ preds[conditions[k]].kind # "And"
            /\ \A n \in SubPredicates(preds, conditions[k]) :
                 /\ preds[n].kind # "Raw"
                 /\ preds[n].kind = "Leaf" => ~check_simple(preds[n])

=============================================================================
