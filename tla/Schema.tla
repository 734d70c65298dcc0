------------------------------- MODULE Schema -------------------------------
(***************************************************************************)
(* One Schema object (include/relation/schema.h, src/relation/schema.cpp): *)
(* an array of items and two nested maps that index it by relation and by  *)
(* attribute.  The array may hold the same column twice (two scans of one  *)
(* relation, a column projected twice); the maps then keep its last        *)
(* position.                                                               *)
(*                                                                         *)
(* The constructor fills the maps item by item after it has copied the     *)
(* array: `mapped' counts the items it has reached.  Positions are those   *)
(* of the code, from 0.                                                    *)
(***************************************************************************)
EXTENDS Integers, Sequences, FiniteSets

CONSTANTS
  SchemaItems,   \* the items that may be put into the schema
  MaxItems       \* bound on the length of the array (TLC)

ASSUME SchemaItemsAssumption ==
  SchemaItems \subseteq [relation_ : STRING, attribute_ : STRING, type_ : STRING]

ASSUME MaxItemsAssumption == MaxItems \in Nat

Relations == {it.relation_ : it \in SchemaItems}
Attributes == {it.attribute_ : it \in SchemaItems}

VARIABLES schema_, rel_map_, attr_map_, mapped

vars == <<schema_, rel_map_, attr_map_, mapped>>

\* The item at position i of the array.
Item(i) == schema_[i + 1]

Positions == 0 .. Len(schema_) - 1

EmptyMap == [k \in {} |-> 0]

\* Bug: emplace() for operator[]: an entry that is there stays.
Assign_first(map, k1, k2, v) ==
  LET row == IF k1 \in DOMAIN map THEN map[k1] ELSE EmptyMap
      new == [k \in DOMAIN row \cup {k2} |-> IF k \in DOMAIN row THEN row[k] ELSE v]
  IN  [k \in DOMAIN map \cup {k1} |-> IF k = k1 THEN new ELSE map[k]]

\* map[k1][k2] = v: operator[] creates what is missing.
Assign(map, k1, k2, v) ==
  LET row == IF k1 \in DOMAIN map THEN map[k1] ELSE EmptyMap
      new == [k \in DOMAIN row \cup {k2} |-> IF k = k2 THEN v ELSE row[k]]
  IN  [k \in DOMAIN map \cup {k1} |-> IF k = k1 THEN new ELSE map[k]]

-----------------------------------------------------------------------------
(* Construction and modification *)

Arrays == UNION {[1 .. n -> SchemaItems] : n \in 0 .. MaxItems}

\* Schema(arr) has copied the array; Schema() is the case of an empty one.
Init ==
  /\ schema_ \in Arrays
  /\ rel_map_ = EmptyMap
  /\ attr_map_ = EmptyMap
  /\ mapped = 0

Constructed == mapped = Len(schema_)

\* One turn of the constructor's loop.
MapItem ==
  /\ ~Constructed
  /\ LET it == Item(mapped)
     IN  /\ rel_map_' = Assign(rel_map_, it.relation_, it.attribute_, mapped)
         /\ attr_map_' = Assign(attr_map_, it.attribute_, it.relation_, mapped)
  /\ mapped' = mapped + 1
  /\ UNCHANGED schema_

append_schema(it) ==
  /\ Constructed /\ Len(schema_) < MaxItems
  /\ schema_' = Append(schema_, it)
  /\ rel_map_' = Assign(rel_map_, it.relation_, it.attribute_, Len(schema_))
  /\ attr_map_' = Assign(attr_map_, it.attribute_, it.relation_, Len(schema_))
  /\ mapped' = mapped + 1

clear ==
  /\ Constructed
  /\ schema_' = <<>>
  /\ rel_map_' = EmptyMap
  /\ attr_map_' = EmptyMap
  /\ mapped' = 0

Next == MapItem \/ (\E it \in SchemaItems : append_schema(it)) \/ clear

Spec == Init /\ [][Next]_vars

-----------------------------------------------------------------------------
(* Queries: they read the maps, never the array alone. *)

is_attribute_exists(rel, attr) ==
  rel \in DOMAIN rel_map_ /\ attr \in DOMAIN rel_map_[rel]

\* at(rel).at(attr); get_attribute_schema finds its item by the same id.
get_attribute_id(rel, attr) == rel_map_[rel][attr]

get_attribute_schema(rel, attr) == Item(get_attribute_id(rel, attr))

\* Bug: the ids are not sorted.
get_relation_schema_unsorted(rel) ==
  LET ids == IF rel \in DOMAIN rel_map_
             THEN {rel_map_[rel][attr] : attr \in DOMAIN rel_map_[rel]}
             ELSE {}
      nth(k) == CHOOSE i \in ids : Cardinality({j \in ids : j > i}) = k - 1
  IN  [k \in 1 .. Cardinality(ids) |-> Item(nth(k))]

\* The ids of the relation's entry, in increasing order.
get_relation_schema(rel) ==
  LET ids == IF rel \in DOMAIN rel_map_
             THEN {rel_map_[rel][attr] : attr \in DOMAIN rel_map_[rel]}
             ELSE {}
      nth(k) == CHOOSE i \in ids : Cardinality({j \in ids : j < i}) = k - 1
  IN  [k \in 1 .. Cardinality(ids) |-> Item(nth(k))]

count_relation(attr) ==
  IF attr \in DOMAIN attr_map_ THEN Cardinality(DOMAIN attr_map_[attr]) ELSE 0

NoRelation == ""

get_relation(attr) ==
  IF count_relation(attr) # 1 THEN NoRelation
  ELSE CHOOSE rel \in DOMAIN attr_map_[attr] : TRUE

\* The keys of an unordered_map: a set, in an order that is not specified.
get_relations == DOMAIN rel_map_

-----------------------------------------------------------------------------
(* Properties *)

Holds(i, rel, attr) == Item(i).relation_ = rel /\ Item(i).attribute_ = attr

\* i is the last position of the column among those the maps have reached.
IsLast(i, rel, attr) ==
  /\ i \in 0 .. mapped - 1
  /\ Holds(i, rel, attr)
  /\ \A j \in 0 .. mapped - 1 : Holds(j, rel, attr) => j <= i

\* A nested map from S and T to ids.
NestedMap(map, S, T, ids) ==
  /\ DOMAIN map \subseteq S
  /\ \A k \in DOMAIN map :
       /\ DOMAIN map[k] \subseteq T
       /\ \A j \in DOMAIN map[k] : map[k][j] \in ids

TypeOK ==
  /\ schema_ \in Seq(SchemaItems)
  /\ mapped \in 0 .. Len(schema_)
  /\ NestedMap(rel_map_, Relations, Attributes, Positions)
  /\ NestedMap(attr_map_, Attributes, Relations, Positions)

Indexed(map, k1, k2) == k1 \in DOMAIN map /\ k2 \in DOMAIN map[k1]

\* map, keyed by k1 and k2, has the column's entry.
Indexes(map, k1, k2, rel, attr) ==
  /\ Indexed(map, k1, k2) => IsLast(map[k1][k2], rel, attr)
  /\ (\E i \in 0 .. mapped - 1 : Holds(i, rel, attr)) => Indexed(map, k1, k2)

(***************************************************************************)
(* Both maps index the array exactly: a column has an entry in each of     *)
(* them iff it has an item, and the entry is the position of its last one  *)
(* (of those the constructor has reached).  A column is looked up in one   *)
(* map to check it, in the other to find its relation, and in the array    *)
(* for its type: preprocessing is only sound if the three agree.           *)
(***************************************************************************)
MapsIndexTheArray ==
  \A rel \in Relations, attr \in Attributes :
    /\ Indexes(rel_map_, rel, attr, rel, attr)
    /\ Indexes(attr_map_, attr, rel, rel, attr)

(***************************************************************************)
(* get_relation_schema gives the planner the schema of a table scan: the   *)
(* columns of the relation in the order of the array, each once.  Rows of  *)
(* the storage manager are laid out in that order (a relation listed twice *)
(* in FROM must not double or reorder its columns).                        *)
(***************************************************************************)
RelationSchemaIsTheScan ==
  Constructed =>
    \A rel \in Relations :
      LET kept == {i \in Positions : IsLast(i, rel, Item(i).attribute_)}
          scan == get_relation_schema(rel)
      IN  \E place \in [DOMAIN scan -> kept] :
            /\ \A k \in DOMAIN scan : scan[k] = Item(place[k])
            /\ \A j, k \in DOMAIN scan : j < k => place[j] < place[k]
            /\ kept = {place[k] : k \in DOMAIN scan}
=============================================================================
