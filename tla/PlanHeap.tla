------------------------------ MODULE PlanHeap ------------------------------
(***************************************************************************)
(* A plan while it is being built and rewritten: plan nodes that own their *)
(* children through unique_ptrs.  `heap' holds every node that was         *)
(* allocated, in the order of allocation; a pointer is a place in it, or   *)
(* Null after a move.  `root' is the pointer the caller holds.             *)
(***************************************************************************)
EXTENDS PlanNode, FiniteSets

VARIABLES heap, root

Null == 0

HeapNodes ==
  [kind : {"TableScan", "Filter", "Projection", "BinaryJoin", "MultiJoin", "Destroyed"},
   rel : STRING \cup {NoTable}, child : Seq(Nat), cond : Conditions, schema : Schemas]

Live(n) == heap[n].kind # "Destroyed"

\* Bug: the pointer is copied, not moved.
transfer_child_copy(h, n, k) == h

\* transfer_child, transfer_lchild, transfer_rchild: the pointer is moved out.
transfer_child(h, n, k) == [h EXCEPT ![n].child[k] = Null]

\* Bug: the output schema is not computed again.
set_child_stale(h, n, k, c) == [h EXCEPT ![n].child[k] = c]

\* set_child, set_lchild, set_rchild: the output schema is computed again.
set_child(h, n, k, c) == build_output_schema([h EXCEPT ![n].child[k] = c], n)

destroy(h, nodes) ==
  [n \in DOMAIN h |-> IF n \in nodes THEN [h[n] EXCEPT !.kind = "Destroyed", !.child = <<>>]
                      ELSE h[n]]

-----------------------------------------------------------------------------
(* The plan below a pointer. *)

\* The nodes reached from r in at most k steps.
Reached(h, r) ==
  LET upto[k \in 0 .. Len(h)] ==
        IF k = 0 THEN {r} \ {Null}
        ELSE upto[k - 1] \cup UNION {ChildrenOf(h, n) \ {Null} : n \in upto[k - 1]}
  IN  upto

Tree(h, r) == Reached(h, r)[Len(h)]

\* The relations scanned below each node.
RelationsBelow(h) ==
  LET below[n \in DOMAIN h] ==
        IF h[n].kind = "TableScan" THEN {h[n].rel}
        ELSE UNION {below[c] : c \in ChildrenOf(h, n) \ {Null}}
  IN  below

-----------------------------------------------------------------------------
(***************************************************************************)
(* A plan as it is handed to the optimizer: a tree of live nodes below r,  *)
(* each with one owner (a unique_ptr), with the number of children of its  *)
(* class and a schema that goes with theirs.  The columns of a scan are    *)
(* those of its relation (get_relation_schema), the attributes of a        *)
(* projection are found in its child, a multi-way join has some child.     *)
(***************************************************************************)
Joined(schemas) ==
  LET upto[k \in 0 .. Len(schemas)] ==
        IF k = 0 THEN <<>> ELSE upto[k - 1] \o schemas[k]
  IN  upto

\* The schema of a node goes with these schemas of its children.
Fits(node, schemas) ==
  /\ node.kind = "TableScan"  => \A i \in DOMAIN node.schema : node.schema[i].relation = node.rel
  /\ node.kind = "Filter"     => node.schema = schemas[1]
  /\ node.kind = "Projection" => \A i \in DOMAIN node.schema : HasColumn(schemas[1], node.schema[i])
  /\ node.kind = "BinaryJoin" => node.schema = schemas[1] \o schemas[2]
  /\ node.kind = "MultiJoin"  => node.schema = Joined(schemas)[Len(schemas)]

Complete(node) ==
  CASE node.kind = "MultiJoin" -> Len(node.child) > 0
    [] node.kind = "Destroyed" -> FALSE
    [] OTHER                   -> Len(node.child) = Arity(node.kind)

IsPlan(h, r) ==
  /\ h \in Seq(HeapNodes) /\ r \in DOMAIN h /\ Tree(h, r) = DOMAIN h
  /\ \A n \in DOMAIN h :
       /\ Complete(h[n])
       /\ ChildrenOf(h, n) \subseteq DOMAIN h \ {r}
       /\ Fits(h[n], [k \in DOMAIN h[n].child |-> h[h[n].child[k]].schema])
  /\ \A m1, m2 \in DOMAIN h : \A k1 \in DOMAIN h[m1].child, k2 \in DOMAIN h[m2].child :
       h[m1].child[k1] = h[m2].child[k2] => m1 = m2 /\ k1 = k2

-----------------------------------------------------------------------------
(***************************************************************************)
(* No output schema is stale: a node that has its children has the schema  *)
(* its constructor would compute from them now.  Operators resolve column  *)
(* positions with these schemas.                                           *)
(***************************************************************************)
SchemasAreFresh ==
  \A n \in DOMAIN heap :
    (heap[n].kind \in {"Filter", "Projection", "BinaryJoin"} /\ Null \notin ChildrenOf(heap, n)) =>
      heap[n].schema = OutputSchema(heap, n)
=============================================================================
