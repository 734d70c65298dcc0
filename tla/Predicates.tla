----------------------------- MODULE Predicates -----------------------------
(***************************************************************************)
(* Values, operands and predicate trees (include/relation/value/value.h,   *)
(* include/sql/predicate).                                                 *)
(*                                                                         *)
(* Predicates own their children; like the plans of PlanNode they stand in *)
(* a sequence of nodes, a child before its parent, and a pointer is a      *)
(* place in it, or NoPredicate after a move.                               *)
(*                                                                         *)
(* Abstracted: a value is its type and an integer that stands for its      *)
(* place in the order of the type; texts are left out.                     *)
(***************************************************************************)
EXTENDS Integers, Sequences

ValueTypes == {"string", "int", "float", "date"}
Value(type, data) == [type |-> type, data |-> data]
TypedValues == [type : ValueTypes, data : Int]

CompareOps == {"=", "<=", "!=", "<", ">=", ">"}

Attribute(rel, attr) == [relation |-> rel, attribute |-> attr]
OperandAttr(rel, attr) == [attr |-> Attribute(rel, attr)]
OperandVal(val) == [val |-> val]

IsAttr(oprd) == "attr" \in DOMAIN oprd

AttributeNames == [relation : STRING, attribute : STRING]
Operands == [attr : AttributeNames] \cup [val : TypedValues]

NoPredicate == 0

PredicateLeaf(op, l, r) ==
  [kind |-> "Leaf", op |-> op, operand |-> <<l, r>>, child |-> <<>>, value |-> FALSE]

PredicateRaw(v) ==
  [kind |-> "Raw", op |-> "=", operand |-> <<>>, child |-> <<>>, value |-> v]

\* PredicateAnd, PredicateOr, PredicateNot
Connective(kind, children) ==
  [kind |-> kind, op |-> "=", operand |-> <<>>, child |-> children, value |-> FALSE]

Predicates ==
  [kind : {"Leaf", "Raw", "And", "Or", "Not", "Destroyed"}, op : CompareOps,
   operand : Seq(Operands), child : Seq(Nat), value : BOOLEAN]

\* A condition as the parser builds it: leaves and connectives, children
\* before their parent, every node but the root, the last, in one place.
IsCondition(p, root) ==
  /\ root = Len(p)
  /\ \A n \in DOMAIN p :
       /\ \/ p[n].kind = "Leaf" /\ Len(p[n].operand) = 2 /\ p[n].child = <<>>
          \/ p[n].kind \in {"And", "Or"} /\ Len(p[n].child) = 2
          \/ p[n].kind = "Not" /\ Len(p[n].child) = 1
       /\ \A k \in DOMAIN p[n].child : p[n].child[k] \in 1 .. n - 1
  /\ \A m, n \in DOMAIN p : \A j \in DOMAIN p[m].child, k \in DOMAIN p[n].child :
       p[m].child[j] = p[n].child[k] => m = n /\ j = k
  /\ \A n \in 1 .. root - 1 : \E m \in DOMAIN p : \E k \in DOMAIN p[m].child : p[m].child[k] = n

\* Both operands are values.
check_simple(leaf) == \A i \in DOMAIN leaf.operand : ~IsAttr(leaf.operand[i])

\* The nodes reached from n in a sequence in which children come first.
SubPredicates(p, n) ==
  LET below[m \in 0 .. n] ==
        IF m = NoPredicate THEN {}
        ELSE {m} \cup UNION {below[p[m].child[k]] : k \in DOMAIN p[m].child}
  IN  below[n]

\* The leaves below n, from left to right.
LeavesOf(p, n) ==
  LET leaves[m \in 1 .. n] ==
        CASE p[m].kind = "Leaf" -> <<m>>
          [] p[m].kind = "Raw"  -> <<>>
          [] p[m].kind = "Not"  -> leaves[p[m].child[1]]
          [] OTHER              -> leaves[p[m].child[1]] \o leaves[p[m].child[2]]
  IN  leaves[n]

-----------------------------------------------------------------------------
(* Evaluation, as the code does it: "true", "false" or "throws". *)

Truth(b) == IF b THEN "true" ELSE "false"

\* operator< of each value class, and the operators derived from it.
Less(l, r) == l.data < r.data

Compare(op, l, r) ==
  CASE op = "="  -> ~Less(l, r) /\ ~Less(r, l)
    [] op = ">=" -> ~Less(l, r)
    [] op = ">"  -> Less(r, l)
    [] op = "<=" -> ~Less(r, l)
    [] op = "<"  -> Less(l, r)
    [] op = "!=" -> Less(l, r) \/ Less(r, l)

\* Value::evaluate: every comparison of two types throws.
evaluate_values(op, l, r) ==
  IF l.type = r.type THEN Truth(Compare(op, l, r)) ELSE "throws"

\* row: the value of each column; at() throws on a column that it has not.
resolve_value(oprd, row) == IF IsAttr(oprd) THEN row[oprd.attr] ELSE oprd.val

Resolves(oprd, row) == IsAttr(oprd) => oprd.attr \in DOMAIN row

evaluate(p, n, row) ==
  LET value[m \in 1 .. n] ==
        LET node == p[m]
            c(k) == value[node.child[k]]
        IN  CASE node.kind = "Leaf" ->
                   IF \A i \in {1, 2} : Resolves(node.operand[i], row)
                   THEN evaluate_values(node.op, resolve_value(node.operand[1], row),
                                        resolve_value(node.operand[2], row))
                   ELSE "throws"
              [] node.kind = "Raw" -> Truth(node.value)
              [] node.kind = "Not" -> IF c(1) = "throws" THEN "throws" ELSE Truth(c(1) = "false")
              [] node.kind = "And" -> IF c(1) = "true" THEN c(2) ELSE c(1)
              [] node.kind = "Or"  -> IF c(1) = "false" THEN c(2) ELSE c(1)
              [] OTHER             -> "throws"
  IN  value[n]
=============================================================================
