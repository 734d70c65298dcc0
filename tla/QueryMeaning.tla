---------------------------- MODULE QueryMeaning ----------------------------
(***************************************************************************)
(* What a query means, from its text alone: which columns its names stand  *)
(* for, whether it is well-formed, and of which rows its condition holds.  *)
(* Written from what SQL means and from the types of the columns, without  *)
(* the Schema, the rewriting and the folding that the code does it with:   *)
(* module Preprocess is checked against it, and so is the whole shell.     *)
(*                                                                         *)
(* q is a query [relations, attributes, preds, root] as the parser builds  *)
(* it.                                                                     *)
(***************************************************************************)
EXTENDS Predicates, FiniteSets

CONSTANTS
  Catalog,     \* StorageManager::get_relation: relation -> its items
  DateOf       \* the texts of literals that are dates -> the date

\* The items of some relations, one relation after the other.
ItemsOf(rels) ==
  LET upto[k \in 0 .. Len(rels)] == IF k = 0 THEN <<>> ELSE upto[k - 1] \o Catalog[rels[k]]
  IN  upto[Len(rels)]

Known(rels) == \A k \in DOMAIN rels : rels[k] \in DOMAIN Catalog

-----------------------------------------------------------------------------
(* Columns and names *)

QueryItems(q) == ItemsOf(q.relations)
NameOf(it) == Attribute(it.relation_, it.attribute_)
ColumnsOf(q) == {NameOf(QueryItems(q)[i]) : i \in DOMAIN QueryItems(q)}

TypeOf(q, c) ==
  LET items == QueryItems(q)
  IN  items[CHOOSE i \in DOMAIN items : NameOf(items[i]) = c].type_

\* The columns that an attribute of the text may stand for.
NamedBy(q, a) ==
  {c \in ColumnsOf(q) : c.attribute = a.attribute /\ a.relation \in {"", c.relation}}

NamesOne(q, a) == Cardinality(NamedBy(q, a)) = 1
TheColumn(q, a) == CHOOSE c \in NamedBy(q, a) : TRUE

StarsIn(q) == {i \in DOMAIN q.attributes : q.attributes[i].attribute = "*"}

\* A star stands for the whole list.
HeaderOf(q) ==
  IF StarsIn(q) # {} THEN [i \in DOMAIN QueryItems(q) |-> NameOf(QueryItems(q)[i])]
  ELSE [i \in DOMAIN q.attributes |-> TheColumn(q, q.attributes[i])]

-----------------------------------------------------------------------------
(* Well-formed queries *)

IsText(oprd) == ~IsAttr(oprd) /\ oprd.val.type = "string"
IsDateColumn(q, oprd) == IsAttr(oprd) /\ TypeOf(q, TheColumn(q, oprd.attr)) = "date"

\* A text beside a date column is a date, or has no type at all.
TypeBeside(q, oprd, other) ==
  CASE IsAttr(oprd) -> TypeOf(q, TheColumn(q, oprd.attr))
    [] IsText(oprd) /\ IsDateColumn(q, other) ->
         IF oprd.val.data \in DOMAIN DateOf THEN "date" ELSE "none"
    [] OTHER -> oprd.val.type

WellTyped(q, leaf) ==
  /\ \A i \in {1, 2} : IsAttr(leaf.operand[i]) => NamesOne(q, leaf.operand[i].attr)
  /\ TypeBeside(q, leaf.operand[1], leaf.operand[2])
     = TypeBeside(q, leaf.operand[2], leaf.operand[1])

WellFormed(q) ==
  /\ StarsIn(q) # {} \/ \A i \in DOMAIN q.attributes : NamesOne(q, q.attributes[i])
  /\ \A n \in DOMAIN q.preds : q.preds[n].kind = "Leaf" => WellTyped(q, q.preds[n])

\* Only the first star of a list counts, and it may not be qualified.
FirstStarIsQualified(q) ==
  \E i \in StarsIn(q) : q.attributes[i].relation # "" /\ \A j \in StarsIn(q) : i <= j

\* How the statement ends: "done", or with which exception.
Verdict(q) ==
  CASE ~Known(q.relations)     -> "runtime_error"
    [] Known(q.relations) /\ FirstStarIsQualified(q) -> "logic_error"
    [] OTHER -> IF WellFormed(q) THEN "done" ELSE "runtime_error"

-----------------------------------------------------------------------------
(* The rows a well-formed query asks for; a row has a value for each column. *)

Denotes(q, oprd, other, row) ==
  CASE IsAttr(oprd) -> row[TheColumn(q, oprd.attr)].data
    [] IsText(oprd) /\ IsDateColumn(q, other) -> DateOf[oprd.val.data]
    [] OTHER -> oprd.val.data

Satisfies(op, x, y) ==
  CASE op = "="  -> x = y
    [] op = "!=" -> x # y
    [] op = "<"  -> x < y
    [] op = "<=" -> x <= y
    [] op = ">"  -> x > y
    [] op = ">=" -> x >= y

Means(q, row) ==
  LET means[n \in DOMAIN q.preds] ==
        LET node == q.preds[n]
            l    == node.operand[1]
            r    == node.operand[2]
        IN  CASE node.kind = "Leaf" ->
                   Satisfies(node.op, Denotes(q, l, r, row), Denotes(q, r, l, row))
              [] node.kind = "Not"  -> ~means[node.child[1]]
              [] node.kind = "And"  -> means[node.child[1]] /\ means[node.child[2]]
              [] OTHER              -> means[node.child[1]] \/ means[node.child[2]]
  IN  q.root # NoPredicate => means[q.root]
=============================================================================
